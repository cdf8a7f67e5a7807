SPECIFICATION Spec
CONSTANTS
  N = 3
  Client = {c1}
  ClientsMax = 1
  InFlightMax = 1
  RoundsOut = 1
  ChunkCount = 1
  SteppingOn = {}
  Compactors = {0}
  MaxOp = 1
  MaxView = 1
  MaxCrashes = 1
  MaxLosses = 1
  MaxQueries = 0
  MaxRounds = 1
  MaxDrops = 0
  Lossy = {}
  ForgetStale = TRUE
  Failing = {2}
  Reached = {0}
  Queried = {}
  Suspects = {1}
  Idlers = {}
INVARIANTS Durability PrimaryHoldsCommitted
PROPERTIES ViewsNeverGoBack
CHECK_DEADLOCK FALSE
