SPECIFICATION OrderlySpec
CONSTANTS
  MaxFpgas = 3
  DefaultRecLen = 2
  RecLens <- SomeRecLens
  Lens <- SomeLens
  Indices <- SomeIndices
  MaxBoards = 2
INVARIANTS
  TypeOK
  RecordsInArray
  RecordsApart
  ReadsFindRecords
  LengthsFit
