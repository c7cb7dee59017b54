SPECIFICATION ServicesSpec
CONSTANTS
  Parts = {"zkElection"}
  g1 = g1
  g2 = g2
  g3 = g3
  c1 = c1
  c2 = c2
  Gr = {g1, g3}
  ClientOf <- Threads
  TimeoutOf <- Untimed
  MaxNodes = 3
  MaxFaults = 0
  Nobody = Nobody
  Nodes = {n1, n2}
  Callers = {u}
  EventSize = 1
  EventsSize = 1
  SessionSize = 3
  ZkChanges = 2
  Keepers = {k1, k2}
  MaxLeases = 3
  MaxCalls = 3
  Loop = Loop
  EtcdChanges = 2
  Getters = {h1}
  Ttl = 1
  Map = Map
CONSTRAINT Spaced
CHECK_DEADLOCK FALSE
INVARIANT OneLeader
