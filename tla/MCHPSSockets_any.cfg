SPECIFICATION Spec
CONSTANTS
  MaxPorts = 5
INVARIANTS
  TypeOK
  CommSocketHeard
  WatchedAreOpen
  GrowingKeepsSockets
CHECK_DEADLOCK FALSE
