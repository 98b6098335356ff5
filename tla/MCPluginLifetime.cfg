SPECIFICATION Spec
CONSTANTS
  t1 = t1
  t2 = t2
  syslog = syslog
  multi = multi
  auth = auth
  Path <- MCPath
  Analyzers = {multi}
  Alerts = {multi}
  Async = TRUE
  Thread = {t1, t2}
  Source <- MCSource
  Score <- MCScore
  MaxLines = 2
  MaxChanges = 2
  MaxUpdates = 1
SYMMETRY Threads
INVARIANTS
  TypeOK
  NoUseAfterClose
  ChoiceIsOwn
  NothingLeaks
CHECK_DEADLOCK FALSE
