SPECIFICATION Spec
CONSTANTS
  N = 3
  Client = {c1, c2, c3}
  ClientsMax = 2
  InFlightMax = 2
  RoundsOut = 1
  ChunkCount = 1
  CandidateShare = 1
  MaxOp = 5
  MaxNumber = 2
  MaxReloads = 1
INVARIANTS TableIsWhatExecuted PendingIsLastInLog
CHECK_DEADLOCK FALSE
