SPECIFICATION Spec
CONSTANTS
  RequestedCapacity = 3
  MinSegmentSpan = 2
  MaxPushes = 6
  disk = disk
  full = full
  ful = ful
  diskFull = diskFull
  diskOk = diskOk
  blank = blank
  Message <- MCMessage
  Token <- MCToken
  TokensOf <- MCTokensOf
  Time <- MCTime
  Query <- MCQuery
  EmptyQuery = ""
  QueryTokens <- MCQueryTokens
  Containing <- MCContaining
INVARIANTS
  TypeOK
  RingIsRecentHistory
  IndexIsSound
  AnnouncedInOrder
  QueriesAreExact
CHECK_DEADLOCK FALSE
