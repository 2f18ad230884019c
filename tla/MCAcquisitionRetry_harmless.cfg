SPECIFICATION RetrySpec
CONSTANTS
  Boards = {b1, b2}
  RecLen = 2
  PacketSize = 2
  StartCounts <- StackCounts
  MaxGiveUps = 1
INVARIANTS
  GivingUpIsHarmless
CHECK_DEADLOCK FALSE
