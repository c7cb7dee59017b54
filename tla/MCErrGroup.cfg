SPECIFICATION GroupSpec
CONSTANTS
  Callers = {1, 2}
  FreeCallers = {1, 2}
  GcBatch = 1
  NoGr = NoGr
INVARIANTS
  RunWaitsForActors
PROPERTIES
  AcceptedWorkRuns
  CloseReturns
  RunTerminates
CHECK_DEADLOCK FALSE
