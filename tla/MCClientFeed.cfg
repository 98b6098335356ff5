SPECIFICATION FairSpec
CONSTANTS
  Capacity = 3
  Limit = 2
  RowCapacity = 3
  IsError <- OddErrors
  MaxEntries = 5
  MaxKills = 1
  MaxClicks = 2
CHECK_DEADLOCK FALSE
INVARIANTS
  ListIsSound
  NothingMissed
  NoExtraCopies
PROPERTY
  FeedRuns
