SPECIFICATION FairSpec
CONSTANTS
  Modes = {"inotify", "poll"}
  Rotations = {"rename", "truncate", "delete"}
  QuietRotation = TRUE
  QuietStart = TRUE
  Parts <- ShortAndLong
  LineLimit = 2
  MaxQueue = 2
  MaxLines = 3
  MaxRotations = 2
INVARIANTS
  OnlyWholeLines
  InOrderOnce
  PendingIsTail
PROPERTIES
  DueLinesDelivered
CHECK_DEADLOCK FALSE
