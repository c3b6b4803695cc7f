SPECIFICATION FairSpec
CONSTANTS
  Records = 6
  Size <- MCSize
  SegBytes = 3
  High = 5
  Capacity = 4
  Batch = 2
  MaxSegs = 7
  Faults = {"crash", "write"}
INVARIANTS TypeOK Replayable PendingExact
PROPERTIES KeepsOrder AppendResumes
CHECK_DEADLOCK FALSE
