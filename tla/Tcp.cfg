SPECIFICATION Spec
CONSTANTS
  NumSocks = 3
  NumPorts = 2
  BinSize = 1
  IP_ADDRESS_ANY = ANY
  MyIPAddr = me
  Remotes = {r1, r2}
  PeerPorts = {1}
  MaxDatagrams = 0
  MaxPayload = 0
  UDP_MAX_DATA = 1
  Protocols = {"TCP"}
  Listeners = {ANY}
  WriteSizes = {1}
  Unserved = {}
  MaxSegments = 3
  MaxSegmentLen = 1
  MaxOutstanding = 2
  ClosesUnbound = TRUE
INVARIANTS
  TcpAnswersPair
  NeverAnsweredTwice
  DataIsFromItsPeer
CHECK_DEADLOCK FALSE
PROPERTY ImplementsService
SYMMETRY Symmetry
