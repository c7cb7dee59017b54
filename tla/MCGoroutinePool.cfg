SPECIFICATION Spec
CONSTANTS
  Callers = {c1, c2, c3}
  GcBatch = 2
  NoGr = NoGr
CHECK_DEADLOCK FALSE
SYMMETRY Symmetry
INVARIANTS IdleListIntact HeldExclusively CloseWaitsForWork
