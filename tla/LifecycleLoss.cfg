SPECIFICATION Spec
CONSTANTS
  DumpN = 2
  MaxTip = 2
  PipeCap = 2
  Every = 1
  MaxFaults = 1
  Faults = {"crash"}
INVARIANTS NoLoss
CHECK_DEADLOCK FALSE
