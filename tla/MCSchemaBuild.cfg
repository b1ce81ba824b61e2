SPECIFICATION Spec
CONSTANTS
  MaxStarts = 3
CHECK_DEADLOCK FALSE
INVARIANTS
  TypeOK
  RebuildNeverClashes
  NoneMeansBuilt
