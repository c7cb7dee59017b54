------------------------------ MODULE MCSync ------------------------------
(***************************************************************************)
(* The small synchronisation types and the disk queue in one model.  They  *)
(* share no state: a behaviour exercises the one that the variable which   *)
(* names.                                                                  *)
(***************************************************************************)
EXTENDS DRWMutex, UnboundedChan, ChannelPool, DequeOps

CONSTANTS MaxPut, Long, MaxBytesPerFile, SyncEvery, BufLen, MaxFile, MaxCrash, MaxFault, Empties

VARIABLES
  which,
  file, meta, pos, next, needSync, count, readFile, reader, dataRead, iopc, putting,
  nput, got, durable, since, recovered, stale, budget

DQ == INSTANCE DiskQueue WITH pc <- iopc

diskVars == <<file, meta, pos, next, needSync, count, readFile, reader, dataRead, iopc,
              putting, nput, got, durable, since, recovered, stale, budget>>

syncVars == <<which, lockVars, chanVars, poolVars, dequeVars, diskVars>>

SyncInit ==
  /\ which \in {"lock", "chan", "pool", "deque", "disk"}
  /\ LockInit /\ ChanInit /\ PoolInit /\ DequeInit /\ DQ!Init
  /\ which # "deque" => d.maxLen = 0

SyncNext ==
  /\ UNCHANGED which
  /\ \/ which = "lock" /\ LockNext /\ UNCHANGED <<chanVars, poolVars, dequeVars, diskVars>>
     \/ which = "chan" /\ ChanNext /\ UNCHANGED <<lockVars, poolVars, dequeVars, diskVars>>
     \/ which = "pool" /\ PoolNext /\ UNCHANGED <<lockVars, chanVars, dequeVars, diskVars>>
     \/ which = "deque" /\ DequeNext /\ UNCHANGED <<lockVars, chanVars, poolVars, diskVars>>
     \/ which = "disk" /\ DQ!Next /\ UNCHANGED <<lockVars, chanVars, poolVars, dequeVars>>

SyncSpec ==
  SyncInit /\ [][SyncNext]_syncVars /\ LockFairness /\ ChanFairness /\ PoolFairness

\* Of diskqueue.go: wherever the process is killed, the metadata on disk leads
\* to every message that was in the queue and not delivered.
Recoverable == DQ!Recoverable

\* Of diskqueue.go: rolled, removed, emptied and reopened files are one FIFO
\* queue to its callers.
QueueSteps == DQ!QueueSteps

\* Of diskqueue.go: what a restart found is delivered first and in order.
RecoveredInOrder == DQ!RecoveredInOrder
=============================================================================
