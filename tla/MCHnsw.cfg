SPECIFICATION IndexSpec
CONSTANTS
  Embedding <- MCEmbedding
  Dist <- MCDist
  M = 2
  EfConstruction = 2
  EfSearch = 5
  MaxLevel = 1
  MaxPoints = 6
  MaxDeleted = 1
INVARIANTS
  GraphIsSound
  SearchIsRight
CHECK_DEADLOCK FALSE
