SPECIFICATION Spec
CONSTANTS
  ListLen = 2
  NumBoards = 2
  Sizes = {1, 2, 3}
  IntMax = 2
  MaxConns = 2
  MaxQueue = 1
  MaxOwed = 1
INVARIANTS
  TypeOK
  AnswersMatch
  SegmentFits
PROPERTIES
  ServerStays
  Answered
CHECK_DEADLOCK FALSE
