SPECIFICATION Spec
CONSTANTS
  Boards = {b1, b2}
  Delays = {2000}
  RecLens = {100, 1024}
  PacketSizes = {0, 128}
  Depths = {0, 4}
  Timers = {300}
  Waits = {40, 6000}
  Timeouts = {1000}
  MaxCommands = 2
INVARIANTS
  ResetRestoresGroups
CHECK_DEADLOCK FALSE
