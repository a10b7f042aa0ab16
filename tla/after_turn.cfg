SPECIFICATION Spec
CONSTANTS
  c1 = c1
  c2 = c2
  f1 = f1
  f2 = f2
  boot = boot
  none = none
  Calls = {c1, c2}
  Boot = boot
  FollowUps = {f1, f2}
  NoTask = none
  MaxStops = 1
  MaxCrashes = 1
INVARIANTS
  PromiseHeld
  NothingQueuedBehind
CHECK_DEADLOCK FALSE
