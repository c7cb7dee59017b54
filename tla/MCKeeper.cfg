SPECIFICATION Spec
CONSTANTS
  Tasks = {t1, t2, t3, t4, t5}
  WorkerNum = 2
  TaskQCap = 1
  WorkCap = 1
  WorkerQCap = 1
  NoTask = NoTask
CHECK_DEADLOCK FALSE
SYMMETRY Symmetry
INVARIANTS HeapIntact TasksConserved StuckOnlyWhenOverloaded
