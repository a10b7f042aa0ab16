SPECIFICATION FairSpec
CONSTANTS
  p1 = p1
  p2 = p2
  chat = chat
  list = list
  Producers <- Two
  Sessions <- OneChat
  Dashboard = list
  Capacity = 1
  MaxUpdates = 3
  MaxRefusals = 1
  MaxFailures = 1
INVARIANTS
  TypeOK
  QuietCaughtUp
PROPERTIES
  WindowCatchesUp
CHECK_DEADLOCK FALSE
