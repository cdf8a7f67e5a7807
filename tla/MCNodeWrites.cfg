SPECIFICATION FairSpec
CONSTANTS
  StalledWriteTicks = 2
  MaxOp = 2
  MaxWrites = 3
  MaxFile = 2
  MaxCrashes = 2
INVARIANTS CrashKeepsHanded
PROPERTIES WritesComeBack MessagesLeave
CHECK_DEADLOCK FALSE
