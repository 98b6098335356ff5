SPECIFICATION Spec
CONSTANTS
  t1 = t1
  t2 = t2
  syslog = syslog
  multi = multi
  auth = auth
  Path <- MCPath
  Analyzers = {multi}
  Alerts = {multi}
  Async = TRUE
  Thread = {t1}
  Source <- MCSource
  Score <- MCScore
  MaxLines = 1
  MaxChanges = 1
  MaxUpdates = 1
INVARIANTS
  ReloadBringsNewCode
CHECK_DEADLOCK FALSE
