SPECIFICATION FairSpec
CONSTANTS
  a = a
  b = b
  c = c
  Source <- PairSource
  Shard <- PairShard
  NumWorkers = 2
  QueueCapacity = 1
  MaxLines = 2
  MaxFlushes = 1
PROPERTIES
  CallsReturn
  ImplementsChannel
