SPECIFICATION FairSpec
CONSTANTS
  Files <- MCFiles
  Chunks <- MCChunks
  Workers = {w1, w2}
  MaxBgsaves = 1
  FetchFaults = {"timeout", "conn"}
  Db <- MCDb
  SlotKeys = {"slot"}
  BatchNum = 2
  ScanBatch = 1
  KBatch = 3
  PrefetchDepth = 1
  Layouts <- MCLayouts
  MaxRestarts = 1
  ReadFaults = {"scan", "dumper", "emit", "expire"}
  Rules <- MCRules
  KeyParts <- MCKeyParts
  SqlFaults = {"commit"}
  Keys <- MCKeys
  Commands <- MCCommands
  MaxInc = 2
  EmitCap = 1
  MaxFaults = 1
  Target <- MCTarget
INVARIANTS TypeOK FetchExact DumpExact ResumeSafe ReplayAgrees TableMatches
PROPERTIES NothingHangs
CHECK_DEADLOCK FALSE
