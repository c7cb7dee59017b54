SPECIFICATION Spec
CONSTANTS
  Ms = 2
  Limit <- ShortLimit
  Threshold = 2
  QueueSize = 1
  Periods = {3}
  Loops = {}
  MaxTimers = 2
  MaxResets = 0
  LastStop = 0
  Jumps = {1, 5}
  MaxTime = 8
INVARIANT
  NumberIsTimerNodes
CHECK_DEADLOCK FALSE
