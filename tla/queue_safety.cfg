SPECIFICATION Spec
CONSTANTS
  p = p
  i = i
  Msgs <- Both
  InboxMsgs <- Agent
  MaxCopies = 2
  UserModes <- AllModes
  AgentSteers = TRUE
  SendsRefused = TRUE
  MaxActions = 1
  MaxStops = 1
  MaxCrashes = 1
INVARIANTS
  ClaimsOwned
  Retained
  SteerXorInbox
  PersonOnce
  TakenClosesInbox
CHECK_DEADLOCK FALSE
PROPERTIES
  ParkedStays
