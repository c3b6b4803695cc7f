\* Snapshot handoff with an asynchronous sink in which every fault may happen.
CONSTANTS
  Gated = TRUE
  Async = TRUE
  Start = 1
  Anchor = 2
  LastEntry = 5
  Bad = {4}
  DumpEvents = 2
  EmitCap = 1
  Batch = 2
  High = 2
  StallEpsilon = 0
  MaxPings = 1
  Faults = {"connect", "conn", "stall", "sink", "fetch", "disk", "cancel", "stuck"}
SPECIFICATION FairSpec
INVARIANTS TypeOK BinlogOrder NoGap NothingStranded CheckpointHonest AckRangeExact
PROPERTIES AllDelivered CancelStopsRun
CHECK_DEADLOCK FALSE
