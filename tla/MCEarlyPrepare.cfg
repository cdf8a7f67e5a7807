SPECIFICATION Spec
CONSTANTS
  N = 3
  Client = {c1, c2}
  ClientsMax = 2
  InFlightMax = 1
  RoundsOut = 1
  ChunkCount = 1
  SteppingOn = {1}
  Compactors = {}
  MaxOp = 2
  MaxView = 1
  MaxCrashes = 1
  MaxLosses = 0
  MaxQueries = 0
  MaxRounds = 1
  MaxDrops = 0
  Lossy = {}
  ForgetStale = TRUE
  Failing = {1}
  Reached = {0,1}
  Queried = {}
  Suspects = {1}
  Idlers = {}
INVARIANTS Durability
CHECK_DEADLOCK FALSE
SYMMETRY Symmetry
