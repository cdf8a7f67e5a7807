SPECIFICATION FairSpec
CONSTANTS
  N = 3
  Client = {c1}
  ClientsMax = 1
  InFlightMax = 1
  RoundsOut = 1
  ChunkCount = 1
  SteppingOn = {}
  Compactors = {}
  MaxOp = 0
  MaxView = 1
  MaxCrashes = 0
  MaxLosses = 0
  MaxQueries = 0
  MaxRounds = 1
  MaxDrops = 2
  Lossy = {1}
  ForgetStale = FALSE
  Failing = {}
  Reached = {0}
  Queried = {}
  Suspects = {1,2}
  Idlers = {0,1,2}
INVARIANTS StaleIgnored
PROPERTIES NormalAgain
