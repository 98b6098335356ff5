SPECIFICATION Spec
CONSTANTS
  near = near
  far = far
  other = other
  Vec = {near, far, other}
  DimOf <- MCDimOf
  Log = {a, b, c}
  ConfigDim = 0
  MaxElements = 5
  Threshold = 2
  MaxBatch = 2
  MaxOps = 6
  MaxFailures = 1
SYMMETRY Logs
INVARIANTS
  MapsAgree
  ImageOfTable
  OldestGoFirst
PROPERTIES
  LoadAgrees
CHECK_DEADLOCK FALSE
