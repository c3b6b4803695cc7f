SPECIFICATION Spec
CONSTANTS
  Events = 4
  Pos <- MCPos
  Key <- MCKey
  Queues = {1, 2}
  QueueOf <- MCQueueOf
  Partitions = {1, 2}
  WorkersPerPart = 2
  QueueDepth = 1
  BatchSize = 2
  Faults = {}
INVARIANT PartitionOrder
CHECK_DEADLOCK FALSE
