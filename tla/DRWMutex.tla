----------------------------- MODULE DRWMutex -----------------------------
(***************************************************************************)
(* sync/drwmutex.go: one sync.RWMutex per core.  A writer locks all of     *)
(* them in order, a reader the one of the core it runs on.                 *)
(*                                                                         *)
(* sync.RWMutex is external.  A writer first owns the mutex and so stops   *)
(* new readers, then waits for the readers inside to leave; its unlock     *)
(* lets in every reader that was blocked meanwhile.                        *)
(***************************************************************************)
EXTENDS Integers

CONSTANTS Writers, Readers,
          NumCores,   \* len(cpus)
          NoWriter

ASSUME DRWMutexAssumption ==
  /\ NumCores \in Nat \ {0}
  /\ NoWriter \notin Writers

Cores == 1 .. NumCores

VARIABLES
  owner,     \* per core: the writer that owns the mutex, or waits for its readers
  readers,   \* per core: readers holding the mutex
  blocked,   \* per core: readers waiting for the owner to unlock
  wpc,       \* where each writer is in Lock and Unlock
  at,        \* the core index of the loop of Lock or Unlock
  rpc,       \* where each reader is
  locker     \* the core whose locker RLock returned to the reader

lockVars == <<owner, readers, blocked, wpc, at, rpc, locker>>
writerVars == <<wpc, at>>
readerVars == <<rpc, locker>>

LockTypeOK ==
  /\ owner \in [Cores -> Writers \cup {NoWriter}]
  /\ readers \in [Cores -> SUBSET Readers]
  /\ blocked \in [Cores -> SUBSET Readers]
  /\ wpc \in [Writers -> {"idle", "lock", "wait", "cs", "unlock"}]
  /\ at \in [Writers -> Cores]
  /\ rpc \in [Readers -> {"idle", "blocked", "cs"}]
  /\ locker \in [Readers -> Cores]

LockInit ==
  /\ owner = [c \in Cores |-> NoWriter]
  /\ readers = [c \in Cores |-> {}]
  /\ blocked = [c \in Cores |-> {}]
  /\ wpc = [w \in Writers |-> "idle"] /\ at = [w \in Writers |-> 1]
  /\ rpc = [r \in Readers |-> "idle"] /\ locker = [r \in Readers |-> 1]

-----------------------------------------------------------------------------

LockStart(w) ==
  /\ wpc[w] = "idle"
  /\ wpc' = [wpc EXCEPT ![w] = "lock"]
  /\ at' = [at EXCEPT ![w] = 1]
  /\ UNCHANGED <<owner, readers, blocked, readerVars>>

\* mx[core].mu.Lock() of the current core: own it, then wait for its readers.
RWMutexOwn(w) ==
  /\ wpc[w] = "lock" /\ owner[at[w]] = NoWriter
  /\ owner' = [owner EXCEPT ![at[w]] = w]
  /\ wpc' = [wpc EXCEPT ![w] = "wait"]
  /\ UNCHANGED <<readers, blocked, at, readerVars>>

LockedAll_oneShort(w) == at[w] >= NumCores - 1
LockedAll(w) == at[w] = NumCores

RWMutexDrained(w) ==
  /\ wpc[w] = "wait" /\ readers[at[w]] = {}
  /\ IF LockedAll(w)
     THEN wpc' = [wpc EXCEPT ![w] = "cs"] /\ UNCHANGED at
     ELSE /\ wpc' = [wpc EXCEPT ![w] = "lock"]
          /\ at' = [at EXCEPT ![w] = @ + 1]
  /\ UNCHANGED <<owner, readers, blocked, readerVars>>

UnlockStart(w) ==
  /\ wpc[w] = "cs"
  /\ wpc' = [wpc EXCEPT ![w] = "unlock"]
  /\ at' = [at EXCEPT ![w] = 1]
  /\ UNCHANGED <<owner, readers, blocked, readerVars>>

\* mx[core].mu.Unlock(): the blocked readers get the mutex.
Unlock(w) ==
  LET c == at[w] IN
  /\ wpc[w] = "unlock"
  /\ owner' = [owner EXCEPT ![c] = NoWriter]
  /\ readers' = [readers EXCEPT ![c] = @ \cup blocked[c]]
  /\ blocked' = [blocked EXCEPT ![c] = {}]
  /\ rpc' = [r \in Readers |-> IF r \in blocked[c] THEN "cs" ELSE rpc[r]]
  /\ IF c = NumCores
     THEN wpc' = [wpc EXCEPT ![w] = "idle"] /\ UNCHANGED at
     ELSE at' = [at EXCEPT ![w] = c + 1] /\ UNCHANGED wpc
  /\ UNCHANGED locker

\* cpu() is any core; the locker of that core is taken and returned.
RLock(r, c) ==
  /\ rpc[r] = "idle"
  /\ locker' = [locker EXCEPT ![r] = c]
  /\ IF owner[c] = NoWriter
     THEN /\ readers' = [readers EXCEPT ![c] = @ \cup {r}]
          /\ rpc' = [rpc EXCEPT ![r] = "cs"] /\ UNCHANGED blocked
     ELSE /\ blocked' = [blocked EXCEPT ![c] = @ \cup {r}]
          /\ rpc' = [rpc EXCEPT ![r] = "blocked"] /\ UNCHANGED readers
  /\ UNCHANGED <<owner, writerVars>>

\* l.Unlock() on the locker RLock returned, whatever core the reader is on now.
HeldLocker_firstCore(r) == 1
HeldLocker(r) == locker[r]

RUnlock(r) ==
  /\ rpc[r] = "cs"
  /\ readers' = [readers EXCEPT ![HeldLocker(r)] = @ \ {r}]
  /\ rpc' = [rpc EXCEPT ![r] = "idle"]
  /\ UNCHANGED <<owner, blocked, locker, writerVars>>

Writer(w) ==
  LockStart(w) \/ RWMutexOwn(w) \/ RWMutexDrained(w) \/ UnlockStart(w) \/ Unlock(w)

LockNext ==
  \/ \E w \in Writers : Writer(w)
  \/ \E r \in Readers : RUnlock(r) \/ \E c \in Cores : RLock(r, c)

\* Whoever is inside leaves; sync.Mutex hands itself to a starving waiter,
\* which makes owning a core's mutex strongly fair.
LockFairness ==
  /\ \A w \in Writers : /\ SF_lockVars(RWMutexOwn(w))
                        /\ WF_lockVars(RWMutexDrained(w) \/ UnlockStart(w) \/ Unlock(w))
  /\ \A r \in Readers : WF_lockVars(RUnlock(r))

LockSpec == LockInit /\ [][LockNext]_lockVars /\ LockFairness

-----------------------------------------------------------------------------

WritersIn == {w \in Writers : wpc[w] = "cs"}
ReadersIn == {r \in Readers : rpc[r] = "cs"}

\* The cores of which w holds the write lock.
Locked(w) ==
  CASE wpc[w] = "idle" -> {}
    [] wpc[w] \in {"lock", "wait"} -> 1 .. at[w] - 1
    [] wpc[w] = "cs" -> Cores
    [] wpc[w] = "unlock" -> at[w] .. NumCores

\* Of the cores a writer has locked it is the owner and no reader is left in
\* them; the core it waits to drain is its own too.
LockedAreOwned ==
  /\ \A w \in Writers : \A c \in Locked(w) : owner[c] = w /\ readers[c] = {}
  /\ \A w \in Writers : wpc[w] = "wait" => owner[at[w]] = w

\* The sets of each core agree with where the readers are.
ReadersPlaced ==
  \A c \in Cores : \A r \in Readers :
    /\ r \in readers[c] <=> (rpc[r] = "cs" /\ locker[r] = c)
    /\ r \in blocked[c] <=> (rpc[r] = "blocked" /\ locker[r] = c)

\* The inductive invariant behind the exclusion and the refinement.
IInv == LockTypeOK /\ LockedAreOwned /\ ReadersPlaced

\* "A writer lock also excludes all readers", and other writers, although the
\* cores are locked one by one while readers come and go on the others.
MutualExclusion ==
  \A w \in WritersIn : WritersIn = {w} /\ ReadersIn = {}

RW == INSTANCE RWLock WITH writing <- WritersIn, reading <- ReadersIn

\* "meant as an almost drop-in replacement for sync.RWMutex": the distributed
\* lock implements the abstract readers-writer lock.
ImplementsRWLock == RW!Spec

\* Writers that take the cores in the same order never wait for each other in
\* a circle, and readers that keep coming cannot keep a writer out.
WriterEnters == \A w \in Writers : wpc[w] = "lock" ~> wpc[w] = "cs"
=============================================================================
