SPECIFICATION Spec
CONSTANTS
  Senders = {s1}
  MaxTurns = 2
  MaxStops = 2
  s1 = s1
INVARIANT ServesNewestTurn
CHECK_DEADLOCK FALSE
