SPECIFICATION Spec
CONSTANTS
  NumSocks = 3
  NumPorts = 3
  BinSize = 1
  IP_ADDRESS_ANY = ANY
  MyIPAddr = me
  Remotes = {r1}
  MaxDatagrams = 0
  MaxPayload = 1
  UDP_MAX_DATA = 1
  Protocols = {"UDP"}
  Listeners = {ANY}
  PeerPorts = {1}
  WriteSizes = {1}
  Unserved = {"mSENDTO"}
  MaxSegments = 0
  MaxSegmentLen = 0
  MaxOutstanding = 2
  ClosesUnbound = TRUE
INVARIANT ForwardsAreBoundSockets
CHECK_DEADLOCK FALSE
