SPECIFICATION FairSpec
CONSTANTS
  Captures = {p}
  Writes = {q}
  NoPacket = NoPacket
  input_queue_size = 3
  output_queue_size = 3
  SocketRoom = 1
  FlagRoom = 2
PROPERTY WriteDoneIsNoticed
CHECK_DEADLOCK FALSE
