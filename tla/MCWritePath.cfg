SPECIFICATION Spec
CONSTANTS
  Entry = {a, b}
  MaxOp = 2
INVARIANTS IInv ExecutedOnDisk DurableIsOnDisk RestartAssertsHold WriteAppliesToDisk QuietDiskMatches
PROPERTIES CrashKeepsExecuted
