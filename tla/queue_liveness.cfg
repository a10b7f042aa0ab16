SPECIFICATION FairSpec
CONSTANTS
  p = p
  i = i
  Msgs <- Person
  InboxMsgs <- None
  MaxCopies = 3
  UserModes <- AllModes
  AgentSteers = FALSE
  SendsRefused = FALSE
  MaxActions = 3
  MaxStops = 2
  MaxCrashes = 2
PROPERTIES
  QueueDrains
  HiddenRowsReappear
CHECK_DEADLOCK FALSE
