SPECIFICATION Spec
CONSTANTS
  Hosts <- MCHosts
  MyEthernetAddr <- MCEthernetAddr
  Ports = {7, 9000}
  BoundPorts = {7}
  Payloads <- MCPayloads
  PeerPackets <- MCPeerPackets
  Garbage = {0, 255}
  MinFrame = 60
  Damages = {1, 128, 255}
  MaxNoise = 1
INVARIANTS
  TypeOK
  PassedUpAsSent
  DatagramArrives
  SegmentVerdict
  ReplyAnswersTheRequest
  ErrorReachesTheSender
PROPERTIES
  AnswersEnd
