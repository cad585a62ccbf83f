SPECIFICATION Spec
CONSTANTS
  a = a
  b = b
  card_a = card_a
  card_b = card_b
  Hosts = {a, b}
  Cards = {card_a, card_b}
  MyEthernetAddr <- TwoCards
  TransportsOf <- UdpOnly
  IP_ADDRESS_BROADCAST = ipall
  ETHERNET_BLANK_ADDR = blank
  ETHERNET_BROADCAST_ADDR = ethall
  NoPacket = NoPacket
  Destinations = {b, ipall}
  Senders = {a}
  Capacity = 1
  Lossless = FALSE
  SeesOwnFrames = TRUE
  MaxFaults = 1
  MaxPackets = 2
INVARIANTS TypeOK AnswerIsForQuestion FramesFindTheirHost DeliveredInOrder DriverAndMuxNeverDeadlock
CHECK_DEADLOCK FALSE
