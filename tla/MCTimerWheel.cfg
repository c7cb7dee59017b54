SPECIFICATION Spec
CONSTANTS
  Ms = 2
  Limit <- ShortLimit
  Threshold = 2
  QueueSize = 2
  Periods = {3, 9}
  Loops = {3}
  MaxTimers = 2
  MaxResets = 1
  LastStop = 0
  Jumps = {1, 5}
  MaxTime = 9
INVARIANTS
  NumberAccounts
  StoppedNeverFires
PROPERTIES
  ImplementsTimerSet
CHECK_DEADLOCK FALSE
