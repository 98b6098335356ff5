SPECIFICATION Spec
CONSTANTS
  a = a
  b = b
  c = c
  Source <- MCSource
  Shard <- MCShard
  NumWorkers = 2
  QueueCapacity = 2
  MaxLines = 2
  MaxFlushes = 1
INVARIANTS
  LinesInOrderOnce
  NoLostWakeup
  FlushCompletesInFlight
  StopDrains
  NoUseAfterClear
