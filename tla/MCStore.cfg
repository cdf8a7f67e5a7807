SPECIFICATION Spec
CONSTANTS
  Key = {0, 1}
  ChunkSize = 1
  LogRetention = 0
  MaxOp = 3
  MaxBatches = 3
  MaxCrashes = 1
INVARIANTS StoreOpens CrashIsAPrefix ReadsSeeApplied CheckpointIsTheState IncarnationsIncrease
CHECK_DEADLOCK FALSE
