SPECIFICATION FairSpec
CONSTANTS
  N = 3
  Client = {c1}
  ClientsMax = 1
  InFlightMax = 1
  RoundsOut = 1
  ChunkCount = 1
  SteppingOn = {}
  Compactors = {}
  MaxOp = 2
  MaxView = 0
  MaxCrashes = 0
  MaxLosses = 0
  MaxQueries = 0
  MaxRounds = 1
  MaxDrops = 1
  Lossy = {0,2}
  ForgetStale = FALSE
  Failing = {}
  Reached = {0}
  Queried = {}
  Suspects = {}
  Idlers = {0,1,2}
PROPERTIES CommittedExecutesEverywhere
