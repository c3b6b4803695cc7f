SPECIFICATION FairSpec
CONSTANTS
  DumpN = 2
  MaxTip = 3
  PipeCap = 2
  Every = 1
  MaxFaults = 3
  Faults = {"crash", "fetch", "connect", "session", "stall", "sink", "flush", "dump"}
INVARIANTS TypeOK EntriesCovered DumpInjected
PROPERTIES DoneForGood Converges
CHECK_DEADLOCK FALSE
