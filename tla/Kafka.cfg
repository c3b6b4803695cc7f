SPECIFICATION FairSpec
CONSTANTS
  Events = 4
  Pos <- MCPos
  Key <- MCKey
  Queues = {1, 2}
  QueueOf <- MCQueueOf
  Partitions = {1, 2}
  WorkersPerPart = 1
  QueueDepth = 1
  BatchSize = 2
  Faults = {"produce", "cancel"}
INVARIANTS TypeOK ReportHonest PartitionOrder CloseFlushes
PROPERTIES KeepsContract AllReported CloseReturns
CHECK_DEADLOCK FALSE
