SPECIFICATION GroupSpec
CONSTANTS
  Callers = {1, 2}
  FreeCallers = {}
  GcBatch = 1
  NoGr = NoGr
INVARIANT FirstExitReported
CHECK_DEADLOCK FALSE
