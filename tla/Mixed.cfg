SPECIFICATION FairSpec
CONSTANTS
  NumSocks = 3
  NumPorts = 3
  BinSize = 1
  IP_ADDRESS_ANY = ANY
  MyIPAddr = me
  Remotes = {r1}
  MaxDatagrams = 1
  MaxPayload = 1
  UDP_MAX_DATA = 1
  Protocols = {"UDP", "TCP"}
  Listeners = {ANY}
  PeerPorts = {1}
  WriteSizes = {1}
  Unserved = {"mSENDTO"}
  MaxSegments = 1
  MaxSegmentLen = 1
  MaxOutstanding = 1
  ClosesUnbound = FALSE
INVARIANT PortIsExclusive
PROPERTIES ImplementsService CallsReturn
CHECK_DEADLOCK FALSE
