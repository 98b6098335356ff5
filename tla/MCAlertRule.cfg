SPECIFICATION Spec
CONSTANTS
  t1 = t1
  t2 = t2
  disk = disk
  net = net
  Thread = {t1, t2}
  Key = {disk, net}
  Rules <- BothRules
  Minute = 3
  MaxTime = 5
  MaxBatches = 3
  MaxBatch = 2
  MaxRules = 1
SYMMETRY Threads
INVARIANTS
  OneAlertUnlessOvertaken
  RateIsCapped
  TableIsSound
  EveryUrgentEntryCounted
CHECK_DEADLOCK FALSE
