SPECIFICATION FairSpec
CONSTANTS
  Events = 5
  Pos <- MCPos
  Table <- MCTable
  MaxQueueRows = 3
  Closing = TRUE
  Faults = {"load", "cancel"}
INVARIANTS TypeOK RoomExact
PROPERTIES KeepsContract AllReported CloseReturns
CHECK_DEADLOCK FALSE
