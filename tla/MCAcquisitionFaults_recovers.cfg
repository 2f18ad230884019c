SPECIFICATION FaultSpec
CONSTANTS
  Boards = {b1, b2}
  RecLen = 2
  PacketSize = 1
  StartCounts = {99}
  MaxFaults = 1
  MaxRounds = 1
INVARIANTS
  SegmentsKept
PROPERTIES
  ToldWhenComplete
  OnlyLossHoldsUp
  BoardsEnd
CHECK_DEADLOCK FALSE
