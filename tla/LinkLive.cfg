SPECIFICATION FairSpec
CONSTANTS
  a = a
  b = b
  card_a = card_a
  card_b = card_b
  Hosts = {a, b}
  Cards = {card_a, card_b}
  MyEthernetAddr <- TwoCards
  TransportsOf <- MixedTransports
  IP_ADDRESS_BROADCAST = ipall
  ETHERNET_BLANK_ADDR = blank
  ETHERNET_BROADCAST_ADDR = ethall
  NoPacket = NoPacket
  Destinations = {b}
  Senders = {a, b}
  Capacity = 2
  Lossless = TRUE
  SeesOwnFrames = FALSE
  MaxFaults = 1
  MaxPackets = 2
PROPERTIES TrafficDrains AddressIsLearnt
CHECK_DEADLOCK FALSE
