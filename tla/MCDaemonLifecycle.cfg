SPECIFICATION FairSpec
CONSTANTS
  SignalModes <- BothModes
  MaxLines = 1
  MaxCalls <- FewCalls
  MaxSignals = 2
CHECK_DEADLOCK FALSE
INVARIANTS
  LinesAreServed
  StatusIsTrue
  NothingLeftAtExit
PROPERTY
  RequestsEnd
