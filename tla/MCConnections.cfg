SPECIFICATION ConnectionsSpec
CONSTANTS
  N = 3
  Client = {c1, c2}
  ClientsMax = 1
  InFlightMax = 2
  RoundsOut = 1
  ChunkCount = 1
  Issuers = {c1}
  MaxIssued = 2
  MaxOp = 3
  MaxRounds = 1
  MaxView = 1
  MaxFaults = 1
INVARIANTS TakesEffect ProgramOrder AtMostOnce InFlightAnswerable AnswersInOrder
PROPERTIES EveryCommandAnswered
CHECK_DEADLOCK FALSE
