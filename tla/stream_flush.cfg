SPECIFICATION Spec
CONSTANTS
  MaxChunks = 2
  Endings = {"exit", "stop"}
  MaxTurns = 1
  MaxFailures = 1
INVARIANTS
  NothingLost
  ProtocolLinesWhole
  
  FlushComes
CHECK_DEADLOCK FALSE
