SPECIFICATION Spec
CONSTANTS
  N = 3
  Client = {c1, c2}
  ClientsMax = 1
  InFlightMax = 1
  RoundsOut = 1
  ChunkCount = 1
  SteppingOn = {}
  Compactors = {}
  MaxOp = 1
  MaxView = 2
  MaxCrashes = 0
  MaxLosses = 0
  MaxQueries = 0
  MaxRounds = 1
  MaxDrops = 0
  Lossy = {}
  ForgetStale = TRUE
  Failing = {}
  Reached = {0,1}
  Queried = {}
  Suspects = {2}
  Idlers = {}
INVARIANTS Agreement PrimaryHoldsCommitted OneLogPerView
SYMMETRY Symmetry
CHECK_DEADLOCK FALSE
