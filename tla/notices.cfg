SPECIFICATION FairSpec
CONSTANTS
  c1 = c1
  c2 = c2
  Children = {c1, c2}
  MaxTurns <- ThreeAndOne
  BatchSize = 2
  MaxEvents = 3
INVARIANTS
  TypeOK
  ResultsSurvive
  WakesAreOwed
  CarriedOnce
  EveryTurnIsToldOnce
PROPERTIES
  WakesAreAttempted
CHECK_DEADLOCK FALSE
