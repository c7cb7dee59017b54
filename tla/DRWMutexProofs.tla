-------------------------- MODULE DRWMutexProofs --------------------------
(***************************************************************************)
(* For any number of cores, writers and readers, DRWMutex implements the   *)
(* readers-writer lock.                                                    *)
(***************************************************************************)
EXTENDS DRWMutex, TLAPS

\* NewDRWMutex starts with every core unlocked.
LEMMA InitIInv == LockInit => IInv
  BY DRWMutexAssumption
  DEF LockInit, IInv, LockTypeOK, LockedAreOwned, ReadersPlaced, Locked, Cores

\* Every step of Lock, Unlock, RLock and the reader's Unlock keeps the types.
LEMMA TypeStep == LockTypeOK /\ [LockNext]_lockVars => LockTypeOK'
<1> SUFFICES ASSUME LockTypeOK, [LockNext]_lockVars PROVE LockTypeOK'
  OBVIOUS
<1> USE DRWMutexAssumption DEF LockTypeOK, Cores
<1>1. ASSUME NEW w \in Writers, LockStart(w) PROVE LockTypeOK'
  BY <1>1 DEF LockStart, readerVars
<1>2. ASSUME NEW w \in Writers, RWMutexOwn(w) PROVE LockTypeOK'
  BY <1>2 DEF RWMutexOwn, readerVars
<1>3. ASSUME NEW w \in Writers, RWMutexDrained(w) PROVE LockTypeOK'
  <2>1. CASE LockedAll(w)
    BY <1>3, <2>1 DEF RWMutexDrained, readerVars
  <2>2. CASE ~LockedAll(w)
    <3>1. at[w] + 1 \in Cores
      BY <2>2 DEF LockedAll
    <3> QED
      BY <1>3, <2>2, <3>1 DEF RWMutexDrained, readerVars
  <2> QED
    BY <2>1, <2>2
<1>4. ASSUME NEW w \in Writers, UnlockStart(w) PROVE LockTypeOK'
  BY <1>4 DEF UnlockStart, readerVars
<1>5. ASSUME NEW w \in Writers, Unlock(w) PROVE LockTypeOK'
  <2>1. wpc' \in [Writers -> {"idle", "lock", "wait", "cs", "unlock"}]
    BY <1>5 DEF Unlock
  <2>2. at' \in [Writers -> Cores]
    <3>1. at[w] # NumCores => at[w] + 1 \in Cores
      OBVIOUS
    <3> QED
      BY <1>5, <3>1 DEF Unlock
  <2>3. owner' \in [Cores -> Writers \cup {NoWriter}] /\ locker' = locker
    BY <1>5 DEF Unlock
  <2>4. readers' \in [Cores -> SUBSET Readers] /\ blocked' \in [Cores -> SUBSET Readers]
    BY <1>5 DEF Unlock
  <2>5. rpc' \in [Readers -> {"idle", "blocked", "cs"}]
    BY <1>5 DEF Unlock
  <2> QED
    BY <2>1, <2>2, <2>3, <2>4, <2>5
<1>6. ASSUME NEW r \in Readers, NEW c \in Cores, RLock(r, c) PROVE LockTypeOK'
  <2> HIDE DEF Cores
  <2>1. UNCHANGED <<owner, wpc, at>> /\ locker' \in [Readers -> Cores]
    BY <1>6 DEF RLock, writerVars
  <2>2. readers' \in [Cores -> SUBSET Readers] /\ blocked' \in [Cores -> SUBSET Readers]
    BY <1>6 DEF RLock
  <2>3. rpc' \in [Readers -> {"idle", "blocked", "cs"}]
    BY <1>6 DEF RLock
  <2> QED
    BY <2>1, <2>2, <2>3
<1>7. ASSUME NEW r \in Readers, RUnlock(r) PROVE LockTypeOK'
  BY <1>7 DEF RUnlock, HeldLocker, writerVars
<1>8. CASE UNCHANGED lockVars
  BY <1>8 DEF lockVars
<1> QED
  BY <1>1, <1>2, <1>3, <1>4, <1>5, <1>6, <1>7, <1>8 DEF LockNext, Writer

\* A core's reader sets follow the readers: RLock and the reader's Unlock use
\* the same core, and a writer's Unlock moves all blocked readers of a core.
LEMMA PlacedStep == IInv /\ [LockNext]_lockVars => ReadersPlaced'
<1> SUFFICES ASSUME IInv, [LockNext]_lockVars PROVE ReadersPlaced'
  OBVIOUS
<1> USE DEF IInv, LockTypeOK, ReadersPlaced
<1>1. ASSUME NEW w \in Writers, Unlock(w) PROVE ReadersPlaced'
  BY <1>1 DEF Unlock
<1>2. ASSUME NEW r \in Readers, NEW c \in Cores, RLock(r, c) PROVE ReadersPlaced'
  BY <1>2 DEF RLock
<1>3. ASSUME NEW r \in Readers, RUnlock(r) PROVE ReadersPlaced'
  BY <1>3 DEF RUnlock, HeldLocker
<1>4. ASSUME UNCHANGED <<readers, blocked, rpc, locker>> PROVE ReadersPlaced'
  BY <1>4
<1>5. ASSUME NEW w \in Writers,
             LockStart(w) \/ RWMutexOwn(w) \/ RWMutexDrained(w) \/ UnlockStart(w)
      PROVE UNCHANGED <<readers, blocked, rpc, locker>>
  BY <1>5 DEF LockStart, RWMutexOwn, RWMutexDrained, UnlockStart, readerVars
<1> QED
  BY <1>1, <1>2, <1>3, <1>4, <1>5 DEF LockNext, Writer, lockVars

\* A core a writer has locked stays its own and empty of readers until the
\* writer unlocks it: RLock finds an owner, and another writer waits.
LEMMA OwnedStep == IInv /\ [LockNext]_lockVars => LockedAreOwned'
<1> SUFFICES ASSUME IInv, [LockNext]_lockVars PROVE LockedAreOwned'
  OBVIOUS
<1> USE DRWMutexAssumption DEF IInv, LockTypeOK, LockedAreOwned, Cores, Locked
<1>1. ASSUME NEW w \in Writers, LockStart(w) PROVE LockedAreOwned'
  BY <1>1 DEF LockStart
<1>2. ASSUME NEW w \in Writers, RWMutexOwn(w) PROVE LockedAreOwned'
  BY <1>2 DEF RWMutexOwn
<1>3. ASSUME NEW w \in Writers, RWMutexDrained(w) PROVE LockedAreOwned'
  <2>1. owner[at[w]] = w /\ readers[at[w]] = {} /\ owner' = owner /\ readers' = readers
    BY <1>3 DEF RWMutexDrained
  <2>2. \A c \in 1 .. at[w] : owner[c] = w /\ readers[c] = {}
    BY <1>3, <2>1 DEF RWMutexDrained
  <2>3. wpc'[w] \in {"lock", "cs"} /\ Locked(w)' = 1 .. at[w]
    BY <1>3 DEF RWMutexDrained, LockedAll
  <2>4. \A v \in Writers \ {w} : wpc'[v] = wpc[v] /\ at'[v] = at[v]
    BY <1>3 DEF RWMutexDrained
  <2>5. \A v \in Writers \ {w} : Locked(v)' = Locked(v)
    BY <2>4
  <2>6. \A v \in Writers : \A c \in Locked(v)' : owner'[c] = v /\ readers'[c] = {}
    <3> HIDE DEF Locked, Cores
    <3>1. \A c \in Locked(w)' : owner'[c] = w /\ readers'[c] = {}
      BY <2>1, <2>2, <2>3
    <3>2. \A v \in Writers \ {w} : \A c \in Locked(v)' : owner'[c] = v /\ readers'[c] = {}
      BY <2>1, <2>5
    <3> QED
      BY <3>1, <3>2
  <2>7. \A v \in Writers : wpc'[v] = "wait" => owner'[at'[v]] = v
    BY <2>1, <2>3, <2>4
  <2> QED
    BY <2>6, <2>7
<1>4. ASSUME NEW w \in Writers, UnlockStart(w) PROVE LockedAreOwned'
  BY <1>4 DEF UnlockStart
<1>5. ASSUME NEW w \in Writers, Unlock(w) PROVE LockedAreOwned'
  <2>1. at[w] \in Locked(w) /\ owner[at[w]] = w
    BY <1>5 DEF Unlock
  <2>2. \A c \in Cores \ {at[w]} : owner'[c] = owner[c] /\ readers'[c] = readers[c]
    BY <1>5 DEF Unlock
  <2>3. wpc'[w] \in {"idle", "unlock"} /\ Locked(w)' \subseteq Locked(w) \ {at[w]}
    BY <1>5 DEF Unlock
  <2>4. \A v \in Writers \ {w} : wpc'[v] = wpc[v] /\ at'[v] = at[v]
    BY <1>5 DEF Unlock
  <2>5. \A v \in Writers \ {w} : at[w] \notin Locked(v) /\ Locked(v)' = Locked(v)
    BY <2>1, <2>4
  <2>6. \A v \in Writers : Locked(v) \subseteq Cores
    OBVIOUS
  <2>7. \A v \in Writers : \A c \in Locked(v)' : owner'[c] = v /\ readers'[c] = {}
    <3> HIDE DEF Locked, Cores
    <3>1. ASSUME NEW v \in Writers, NEW c \in Locked(v)'
          PROVE c \in Locked(v) /\ c \in Cores \ {at[w]}
      BY <2>3, <2>5, <2>6
    <3> QED
      BY <2>2, <3>1
  <2>8. \A v \in Writers : wpc'[v] = "wait" => owner'[at'[v]] = v
    BY <2>1, <2>2, <2>3, <2>4
  <2> QED
    BY <2>7, <2>8
<1>6. ASSUME NEW r \in Readers, NEW c \in Cores, RLock(r, c) PROVE LockedAreOwned'
  <2>1. owner' = owner /\ wpc' = wpc /\ at' = at
    BY <1>6 DEF RLock, writerVars
  <2>2. \A d \in Cores : owner[d] # NoWriter => readers'[d] = readers[d]
    BY <1>6 DEF RLock
  <2>3. \A v \in Writers : Locked(v) \subseteq Cores
    OBVIOUS
  <2>4. \A v \in Writers : Locked(v)' = Locked(v)
    BY <2>1
  <2> HIDE DEF Locked, Cores
  <2> QED
    BY <2>1, <2>2, <2>3, <2>4
<1>7. ASSUME NEW r \in Readers, RUnlock(r) PROVE LockedAreOwned'
  BY <1>7 DEF RUnlock, HeldLocker, writerVars
<1>8. CASE UNCHANGED lockVars
  BY <1>8 DEF lockVars
<1> QED
  BY <1>1, <1>2, <1>3, <1>4, <1>5, <1>6, <1>7, <1>8 DEF LockNext, Writer

\* The invariant relating owners, reader sets and program counters holds of
\* every behaviour of Lock, Unlock and RLock.
THEOREM Invariance == LockSpec => []IInv
<1>1. IInv /\ [LockNext]_lockVars => IInv'
  BY TypeStep, PlacedStep, OwnedStep DEF IInv
<1> QED
  BY InitIInv, <1>1, PTL DEF LockSpec

\* A writer inside has locked every core, so nobody else is inside any.
LEMMA ExclusionFromIInv == IInv => MutualExclusion
<1> SUFFICES ASSUME IInv, NEW w \in Writers, wpc[w] = "cs"
             PROVE WritersIn = {w} /\ ReadersIn = {}
  BY DEF MutualExclusion, WritersIn
<1>1. \A c \in Cores : owner[c] = w /\ readers[c] = {}
  BY DEF IInv, LockedAreOwned, Locked
<1>2. 1 \in Cores
  BY DRWMutexAssumption DEF Cores
<1>3. \A v \in Writers : wpc[v] = "cs" => owner[1] = v
  BY <1>2 DEF IInv, LockedAreOwned, Locked
<1>4. \A r \in Readers : rpc[r] # "cs"
  BY <1>1 DEF IInv, LockTypeOK, ReadersPlaced
<1> QED
  BY <1>1, <1>2, <1>3, <1>4 DEF WritersIn, ReadersIn

\* "A writer lock also excludes all readers", for any number of cores.
THEOREM Exclusion == LockSpec => []MutualExclusion
  BY Invariance, ExclusionFromIInv, PTL

\* Each step is a step of the abstract lock or leaves who is inside alone: the
\* writer's last RWMutex.Lock is Lock, its first Unlock ends its stay, and a
\* core's Unlock lets in all the readers blocked on that core.
LEMMA StepRefines == IInv /\ IInv' /\ [LockNext]_lockVars => [RW!Next]_<<WritersIn, ReadersIn>>
<1> SUFFICES ASSUME IInv, IInv', [LockNext]_lockVars
             PROVE RW!Next \/ UNCHANGED <<WritersIn, ReadersIn>>
  BY DEF RW!Next
<1> USE DEF WritersIn, ReadersIn
<1>0. MutualExclusion /\ MutualExclusion'
  BY ExclusionFromIInv, PTL
<1>1. ASSUME NEW w \in Writers, LockStart(w) \/ RWMutexOwn(w)
      PROVE UNCHANGED <<WritersIn, ReadersIn>>
  BY <1>1 DEF LockStart, RWMutexOwn, readerVars, IInv, LockTypeOK
<1>2. ASSUME NEW w \in Writers, RWMutexDrained(w)
      PROVE RW!Lock(w) \/ UNCHANGED <<WritersIn, ReadersIn>>
  <2>1. ReadersIn' = ReadersIn
    BY <1>2 DEF RWMutexDrained, readerVars
  <2>2. CASE LockedAll(w)
    <3>1. wpc' = [wpc EXCEPT ![w] = "cs"] /\ w \in WritersIn' /\ w \notin WritersIn
      BY <1>2, <2>2 DEF RWMutexDrained, IInv, LockTypeOK
    <3>2. WritersIn' = {w} /\ ReadersIn' = {}
      BY <1>0, <3>1 DEF MutualExclusion
    <3>3. WritersIn \subseteq WritersIn'
      BY <3>1 DEF IInv, LockTypeOK
    <3> QED
      BY <2>1, <3>1, <3>2, <3>3 DEF RW!Lock
  <2>3. CASE ~LockedAll(w)
    BY <1>2, <2>1, <2>3 DEF RWMutexDrained, IInv, LockTypeOK
  <2> QED
    BY <2>2, <2>3
<1>3. ASSUME NEW w \in Writers, UnlockStart(w) PROVE RW!Unlock(w)
  <2>1. WritersIn = {w}
    BY <1>0, <1>3 DEF UnlockStart, MutualExclusion
  <2>2. WritersIn' = WritersIn \ {w}
    BY <1>3 DEF UnlockStart, IInv, LockTypeOK
  <2>3. ReadersIn' = ReadersIn
    BY <1>3 DEF UnlockStart, readerVars
  <2> QED
    BY <2>1, <2>2, <2>3 DEF RW!Unlock
<1>4. ASSUME NEW w \in Writers, Unlock(w)
      PROVE \E rs \in SUBSET Readers : RW!RLock(rs)
  <2>1. WritersIn' = WritersIn
    BY <1>4 DEF Unlock, IInv, LockTypeOK
  <2>2. at[w] \in Locked(w) /\ at[w] \in Cores
    BY <1>4 DEF Unlock, IInv, LockTypeOK, Locked, Cores
  <2>3. \A v \in WritersIn : v = w
    <3>1. owner[at[w]] = w
      BY <2>2 DEF IInv, LockedAreOwned
    <3>2. \A v \in WritersIn : Locked(v) = Cores
      BY DEF Locked
    <3> QED
      BY <2>2, <3>1, <3>2 DEF IInv, LockedAreOwned
  <2>4. WritersIn = {}
    BY <1>4, <2>3 DEF Unlock
  <2>5. ReadersIn' = ReadersIn \cup blocked[at[w]] /\ blocked[at[w]] \in SUBSET Readers
    BY <1>4, <2>2 DEF Unlock, IInv, LockTypeOK
  <2> QED
    BY <2>1, <2>4, <2>5 DEF RW!RLock
<1>5. ASSUME NEW r \in Readers, NEW c \in Cores, RLock(r, c)
      PROVE RW!RLock({r}) \/ UNCHANGED <<WritersIn, ReadersIn>>
  <2>1. WritersIn' = WritersIn
    BY <1>5 DEF RLock, writerVars
  <2>2. CASE owner[c] = NoWriter
    <3>1. WritersIn = {}
      BY <2>2, DRWMutexAssumption DEF IInv, LockedAreOwned, Locked
    <3>2. ReadersIn' = ReadersIn \cup {r}
      BY <1>5, <2>2 DEF RLock, IInv, LockTypeOK
    <3> QED
      BY <2>1, <3>1, <3>2 DEF RW!RLock
  <2>3. CASE owner[c] # NoWriter
    BY <1>5, <2>1, <2>3 DEF RLock, IInv, LockTypeOK
  <2> QED
    BY <2>2, <2>3
<1>6. ASSUME NEW r \in Readers, RUnlock(r) PROVE RW!RUnlock(r)
  BY <1>6 DEF RUnlock, writerVars, RW!RUnlock, IInv, LockTypeOK
<1>7. CASE UNCHANGED lockVars
  BY <1>7 DEF lockVars
<1> HIDE DEF WritersIn, ReadersIn
<1> QED
  BY <1>1, <1>2, <1>3, <1>4, <1>5, <1>6, <1>7 DEF LockNext, Writer, RW!Next

\* The lock over any number of cores is a readers-writer lock.
THEOREM Refinement == LockSpec => ImplementsRWLock
<1>1. LockInit => RW!Init
  BY DEF LockInit, RW!Init, WritersIn, ReadersIn
<1> QED
  BY <1>1, Invariance, StepRefines, PTL DEF LockSpec, ImplementsRWLock, RW!Spec
=============================================================================
