SPECIFICATION FairSpec
CONSTANTS
  Events = 5
  Pos <- MCPos
  Table <- MCTable
  MaxQueueRows = 3
  Closing = FALSE
  Faults = {"load"}
INVARIANT ReportHonest
CHECK_DEADLOCK FALSE
