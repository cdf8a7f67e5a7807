SPECIFICATION Spec
CONSTANTS
  N = 3
  Client = {c1}
  ClientsMax = 1
  InFlightMax = 1
  RoundsOut = 1
  ChunkCount = 1
  SteppingOn = {}
  Compactors = {}
  MaxOp = 1
  MaxView = 1
  MaxCrashes = 0
  MaxLosses = 0
  MaxQueries = 2
  MaxRounds = 1
  MaxDrops = 0
  Lossy = {}
  ForgetStale = TRUE
  Failing = {}
  Reached = {0}
  Queried = {0,1}
  Suspects = {1}
  Idlers = {}
INVARIANTS QueriesSeeCompleted
CHECK_DEADLOCK FALSE
