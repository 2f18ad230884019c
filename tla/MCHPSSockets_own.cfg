SPECIFICATION Spec
CONSTANTS
  MaxPorts = 3
INVARIANTS
  EachPortOwnsItsSocket
CHECK_DEADLOCK FALSE
