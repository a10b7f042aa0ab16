SPECIFICATION FairSpec
CONSTANTS
  own = own
  launched = launched
  dispatched = dispatched
  c1 = c1
  c2 = c2
  x1 = x1
  x2 = x2
  Owner = own
  Launched <- OneLaunched
  Dispatched <- OneDispatched
  Clients <- TwoClients
  Archivers <- TwoArchivers
  MaxArchives = 2
  MaxStarts = 2
  MaxIncidents = 1
INVARIANTS
  UsableRowIsOpen
  LaunchedRowsGoDown
PROPERTIES
  KeepsPromise
  ArchivesEnd
CHECK_DEADLOCK FALSE
