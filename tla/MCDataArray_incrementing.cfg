SPECIFICATION IncrementingSpec
CONSTANTS
  MaxFpgas = 3
  DefaultRecLen = 2
  RecLens <- SomeRecLens
  Lens <- FewLens
  Indices <- SomeIndices
  MaxBoards = 2
INVARIANTS
  OverwritesPreviousLocation
