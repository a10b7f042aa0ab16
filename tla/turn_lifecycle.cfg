SPECIFICATION SettlingSpec
CONSTANTS
  Senders = {s1, s2}
  MaxTurns = 2
  MaxStops = 2
  s1 = s1
  s2 = s2
INVARIANTS
  StopExcludesSend
  RelaunchNeverClobbers
  StopSettlesTurn
  NoOrphanProcess
PROPERTIES
  StopCompletes
  EveryTurnSettles
CHECK_DEADLOCK FALSE
