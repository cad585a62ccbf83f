SPECIFICATION Spec
CONSTANTS
  NumSocks = 3
  NumPorts = 2
  BinSize = 1
  IP_ADDRESS_ANY = ANY
  MyIPAddr = me
  Remotes = {r1}
  PeerPorts = {1}
  MaxDatagrams = 0
  MaxPayload = 0
  UDP_MAX_DATA = 1
  Protocols = {"TCP"}
  Listeners = {ANY}
  WriteSizes = {1}
  Unserved = {}
  MaxSegments = 3
  MaxSegmentLen = 1
  MaxOutstanding = 2
  ClosesUnbound = TRUE
INVARIANT NeverForgotten
CHECK_DEADLOCK FALSE
