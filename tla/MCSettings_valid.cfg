SPECIFICATION Spec
CONSTANTS
  Boards = {b1, b2}
  Delays = {2000}
  RecLens = {100, 1024, 8192}
  PacketSizes = {0, 128, 4096}
  Depths = {0, 4}
  Timers = {300}
  Waits = {0}
  Timeouts = {1000}
  MaxCommands = 1
INVARIANTS
  ValidLengthsAreUsed
CHECK_DEADLOCK FALSE
