SPECIFICATION Spec
CONSTANTS
  MaxChunks = 3
  Endings = {"exit"}
  MaxTurns = 1
  MaxFailures = 0
CHECK_DEADLOCK FALSE
INVARIANT OneWindowAtMost
