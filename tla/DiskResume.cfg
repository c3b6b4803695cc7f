SPECIFICATION Spec
CONSTANTS
  Records = 6
  Size <- MCSize
  SegBytes = 3
  High = 5
  Capacity = 4
  Batch = 2
  MaxSegs = 7
  Faults = {"crash"}
INVARIANTS ReleaseDrains
CHECK_DEADLOCK FALSE
