SPECIFICATION FairSpec
CONSTANTS
  Captures = {p, p2}
  Writes = {q}
  NoPacket = NoPacket
  input_queue_size = 3
  output_queue_size = 3
  SocketRoom = 1
  FlagRoom = 1
INVARIANTS TypeOK SendsDoNotOverlap OutputLagsByOne
PROPERTIES ImplementsService InputMoves OutputMoves
CHECK_DEADLOCK FALSE
