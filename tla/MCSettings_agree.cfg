SPECIFICATION Spec
CONSTANTS
  Boards = {b1, b2}
  Delays = {2000}
  RecLens = {100, 1024, 8191}
  PacketSizes = {0, 128, 4096}
  Depths = {0, 4}
  Timers = {300}
  Waits = {40, 6000}
  Timeouts = {1000}
  MaxCommands = 3
INVARIANTS
  TypeOK
  LayoutIsLegal
  LensAgree
  GroupsAgree
CHECK_DEADLOCK FALSE
