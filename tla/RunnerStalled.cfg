\* A stalled session in incremental mode.
CONSTANTS
  Gated = FALSE
  Async = FALSE
  Start = 1
  Anchor = 1
  LastEntry = 3
  Bad = {}
  DumpEvents = 0
  EmitCap = 2
  Batch = 2
  High = 2
  StallEpsilon = 0
  MaxPings = 0
  Faults = {"stall"}
SPECIFICATION FairSpec
PROPERTIES EndedRunReturns
CHECK_DEADLOCK FALSE
