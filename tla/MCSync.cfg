SPECIFICATION SyncSpec
CONSTANTS
  Writers = {w1, w2}
  Readers = {r1, r2}
  NumCores = 2
  NoWriter = NoWriter
  BlockLen = 3
  Nil = 0
  Poppers = {p1, p2, p3}
  MaxPush = 4
  Clients = {t1, t2}
  Objects = {a, b, c}
  PoolLen = 1
  NoObject = NoObject
  Values = {1, 2}
  MaxLens = {0, 1, 3, 4}
  MaxItems = 8
  MaxPut = 4
  Long = {2}
  MaxBytesPerFile = 1
  SyncEvery = 2
  BufLen = 2
  MaxFile = 5
  MaxCrash = 2
  MaxFault = 1
  Empties = 1
INVARIANTS Fifo NoLostWakeup OneHolder BehavesAsSequence Recoverable
PROPERTIES ImplementsRWLock WriterEnters CloseReleases CloseClosesAll QueueSteps RecoveredInOrder
