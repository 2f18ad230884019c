SPECIFICATION Spec
CONSTANTS
  Boards = {1, 2}
  MaxFpgas = 3
  Garbage = {2, 9}
  DataPorts = 1
  MaxLeaves = 1
  MaxInbox = 1
INVARIANTS
  TypeOK
  MessagesReachTheirBoard
  DataSocketsKnowTheirBoard
  QueriedBoardsAreCounted
PROPERTIES
  MessagesForAllReachAll
  UpdateRestores
