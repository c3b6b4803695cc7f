\* Pure incremental mode (no gate), synchronous sink that may fail.
CONSTANTS
  Gated = FALSE
  Async = FALSE
  Start = 2
  Anchor = 2
  LastEntry = 7
  Bad = {4}
  DumpEvents = 0
  EmitCap = 2
  Batch = 2
  High = 2
  StallEpsilon = 0
  MaxPings = 0
  Faults = {"connect", "conn", "sink", "cancel", "stall"}
SPECIFICATION FairSpec
INVARIANTS CheckpointHonest
PROPERTIES AllDelivered CancelStopsRun
CHECK_DEADLOCK FALSE
