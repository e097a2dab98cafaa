SPECIFICATION Spec
CONSTANTS
  FullSteps = 2
  QuickSteps = 1
  MaxTransactions = 2
  MaxProcesses = 3
  MaxEdits = 1
INVARIANTS TypeOK SealedIsComplete BoundRunSawOneRuntime QualifiedIsMeasured
PROPERTY RunsAreSealed
CHECK_DEADLOCK FALSE
