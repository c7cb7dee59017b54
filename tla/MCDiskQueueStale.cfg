SPECIFICATION Spec
CONSTANTS
  MaxPut = 4
  Long = {2}
  MaxBytesPerFile = 2
  SyncEvery = 3
  BufLen = 4
  MaxFile = 2
  MaxCrash = 1
  MaxFault = 0
  Empties = 0
PROPERTY DeliversOldest
