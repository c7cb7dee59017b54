SPECIFICATION Spec
CONSTANTS
  Tasks = {t1, t2}
  WorkerNum = 2
  TaskQCap = 2
  WorkCap = 1
  WorkerQCap = 1
  NoTask = NoTask
CHECK_DEADLOCK FALSE
INVARIANT StopStopsAllWorkers

