SPECIFICATION PathSpec
CONSTANTS
  a = a
  b = b
  Caller <- TwoThreads
  Window = 1
  MaxLines = 3
  Batches <- FewBatches
  MaxClock = 2
  MaxErrors = 2
SYMMETRY Symmetry
CHECK_DEADLOCK FALSE
INVARIANTS
  EveryLossIsCounted
  BurstIsBounded
