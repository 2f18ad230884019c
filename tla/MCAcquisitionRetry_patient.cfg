SPECIFICATION PatientFairSpec
CONSTANTS
  Boards = {b1, b2}
  RecLen = 5
  PacketSize = 2
  StartCounts <- StackCounts
  MaxGiveUps = 1
INVARIANTS
  TypeOK
  IInv
  StaysInSegment
  OneAtATime
  OrdersDoNotPileUp
  RecordFromOneCapture
PROPERTIES
  NotifyOnlyWhenComplete
  NeverGivesUpMidRecord
  AnswersAreFresh
  ImplementsPulseService
  EveryQueryEnds
  ReadyBoardsAnswer
CHECK_DEADLOCK FALSE
