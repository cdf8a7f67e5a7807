SPECIFICATION Spec
CONSTANTS
  N = 3
  Client = {c1, c2}
  ClientsMax = 1
  InFlightMax = 1
  RoundsOut = 1
  ChunkCount = 2
  SteppingOn = {0}
  Compactors = {1}
  MaxOp = 1
  MaxView = 1
  MaxCrashes = 1
  MaxLosses = 0
  MaxQueries = 0
  MaxRounds = 1
  MaxDrops = 0
  Lossy = {}
  ForgetStale = TRUE
  Failing = {0}
  Reached = {0}
  Queried = {}
  Suspects = {1}
  Idlers = {}
INVARIANTS NoPanic Durability OneLogPerView PromisesOnDisk
PROPERTIES ImplementsWritePath
CHECK_DEADLOCK FALSE
SYMMETRY Symmetry
