------------------------------- MODULE ZkLock -------------------------------
(***************************************************************************)
(* database/zookeeper/client.go: leader election by sequential ephemeral   *)
(* znodes (lock, Campaign, Resign), and Lock and Unlock over zk.Lock.      *)
(*                                                                         *)
(* A goroutine holds the mutex of its client from the beginning of lock to *)
(* its end, the wait included.  Every request to zookeeper is a step of    *)
(* its own and may fail.  zookeeper is external: it numbers the znodes,    *)
(* deletes those of an expired session, and fires a watch once.  A znode   *)
(* is its number, starting with 1; its data is the time it was created at, *)
(* of which only the age counts, up to the longest timeout.                *)
(***************************************************************************)
EXTENDS Naturals, Sequences, FiniteSets, FiniteSetsExt, TLC

CONSTANTS Gr,            \* goroutines
          ClientOf,      \* the client each of them uses
          TimeoutOf,     \* the timeout each passes to Campaign, in seconds; 0: none
          MaxNodes,      \* bound on the znodes ever created
          MaxFaults,     \* bound on failed requests and expired sessions
          Nobody

VARIABLES
  znodes,      \* numbers of the children of basePath
  owner,       \* who created znode number n
  age,         \* seconds since the time in the data of znode number n
  gr,          \* per goroutine: pc and the locals of Campaign and lock
  mutex,       \* per client: who holds c.mutex
  leaderMap,   \* per goroutine: the znode it led with, 0 before it ever led
  leads,       \* goroutines between a successful Campaign and their Resign
  expired,     \* history: znodes deleted with their session
  lockMap,     \* goroutines with an entry in c.lockMap
  zkLock,      \* external: the goroutine whose zk.Lock is locked
  faults

zkVars == <<znodes, owner, age, gr, mutex, leaderMap, leads, expired, lockMap, zkLock, faults>>

LongestTimeout == Max({TimeoutOf[g] : g \in Gr})
Ages == 0 .. LongestTimeout
Clients == {ClientOf[g] : g \in Gr}

Idle == [pc |-> "idle", seq |-> 0, data |-> 0, waited |-> 0, watch |-> 0, scan |-> {}]

TypeOK ==
  /\ znodes \subseteq 1 .. Len(owner)
  /\ owner \in Seq(Gr) /\ age \in Seq(Ages) /\ Len(age) = Len(owner)
  /\ \A g \in Gr : gr[g].seq \in 0 .. Len(owner) /\ gr[g].data \in Ages
  /\ mutex \in [Clients -> Gr \cup {Nobody}]
  /\ leaderMap \in [Gr -> 0 .. Len(owner)] /\ leads \subseteq Gr

Init ==
  /\ znodes = {} /\ owner = <<>> /\ age = <<>>
  /\ gr = [g \in Gr |-> Idle]
  /\ mutex = [c \in Clients |-> Nobody]
  /\ leaderMap = [g \in Gr |-> 0] /\ leads = {}
  /\ expired = {} /\ lockMap = {} /\ zkLock = Nobody /\ faults = 0

\* The number in the name of a znode after zkLockPrefix, as GetMinZkPath reads
\* it: Campaign puts the digit 1 (with a timeout) or 0 (without) before the ten
\* digits of zookeeper, so it becomes the leading digit of the number.
LeadingOne == 1000
SequenceNumber_latest(n) == 2 * LeadingOne - n
SequenceNumber(n) == IF TimeoutOf[owner[n]] > 0 THEN LeadingOne + n ELSE n

GetMinSequenceNumber == Min({SequenceNumber(n) : n \in znodes})
GetMinZkPath == CHOOSE n \in znodes : SequenceNumber(n) = GetMinSequenceNumber

\* getLockPrefixPath reads the siblings after lockPrefix: the number of a
\* sibling with the other digit cannot be read and counts as 0.
SiblingNumber(n, m) ==
  IF (TimeoutOf[owner[m]] > 0) = (TimeoutOf[owner[n]] > 0) THEN m ELSE 0

\* The siblings that may stand before n once they are sorted.
getLockPrefixPath(n) ==
  LET before == {m \in znodes : SiblingNumber(n, m) < n}
  IN {m \in before : n \in znodes /\ \A x \in before : SiblingNumber(n, x) <= SiblingNumber(n, m)}

checkOutTimeOut(n, timeout) == age[n] >= timeout

---------------------------------------------------------------------------
At(g, pc) == gr[g].pc = pc
Goto(g, pc) == gr' = [gr EXCEPT ![g].pc = pc]
Request(g, pc) == At(g, pc) /\ UNCHANGED <<leaderMap, lockMap, zkLock>>

\* Campaign refuses a goroutine that has an entry in leaderMap.
Campaign(g) ==
  /\ At(g, "idle") /\ leaderMap[g] = 0
  /\ mutex[ClientOf[g]] = Nobody
  /\ Len(owner) + Cardinality({h \in Gr : gr[h].pc \in {"mutex", "register"}}) < MaxNodes
  /\ gr' = [gr EXCEPT ![g] = [Idle EXCEPT !.pc = "mutex"]]
  /\ UNCHANGED <<znodes, owner, age, mutex, leaderMap, leads, expired, lockMap, zkLock, faults>>

\* lock: take the mutex, create basePath, read the time for the data.
LockBegin(g) ==
  /\ At(g, "mutex") /\ mutex[ClientOf[g]] = Nobody
  /\ mutex' = [mutex EXCEPT ![ClientOf[g]] = g]
  /\ gr' = [gr EXCEPT ![g] = [Idle EXCEPT !.pc = "register"]]
  /\ UNCHANGED <<znodes, owner, age, leaderMap, leads, expired, lockMap, zkLock, faults>>

RegisterTempSeq(g) ==
  /\ Request(g, "register") /\ Len(owner) < MaxNodes
  /\ LET n == Len(owner) + 1
     IN /\ owner' = Append(owner, g) /\ age' = Append(age, gr[g].data)
        /\ znodes' = znodes \cup {n}
        /\ gr' = [gr EXCEPT ![g].pc = "min", ![g].seq = n, ![g].data = 0]
  /\ UNCHANGED <<mutex, leads, expired, faults>>

Unlocked_not(g) == mutex
Unlocked(g) == [mutex EXCEPT ![ClientOf[g]] = Nobody]

\* The end of lock, and what Campaign does with its result: without a timeout
\* it tries again after an error.
Return(g, ok) ==
  /\ mutex' = Unlocked(g)
  /\ gr' = [gr EXCEPT ![g] = CASE ok -> [Idle EXCEPT !.pc = "won", !.seq = gr[g].seq]
                               [] ~ok /\ TimeoutOf[g] = 0 -> [Idle EXCEPT !.pc = "mutex"]
                               [] OTHER -> Idle]

\* A look at the children.  An empty answer is an error of GetChildren.
GetChildrenFails == znodes = {}
Elected(g) == ~GetChildrenFails /\ GetMinZkPath = gr[g].seq
IfElected(g, otherwise) ==
  IF Elected(g) \/ GetChildrenFails
  THEN Return(g, Elected(g)) ELSE Goto(g, otherwise) /\ UNCHANGED mutex

CheckMin(g) ==
  /\ Request(g, "min")
  /\ \/ /\ Elected(g) \/ getLockPrefixPath(gr[g].seq) = {}
        /\ Return(g, Elected(g))
     \/ /\ ~Elected(g)
        /\ \E m \in getLockPrefixPath(gr[g].seq) : gr' = [gr EXCEPT ![g].pc = "exists", ![g].watch = m]
        /\ UNCHANGED mutex
  /\ UNCHANGED <<znodes, owner, age, leads, expired, faults>>

\* ExistsW on the sibling.  The code passes its name without basePath, which
\* zookeeper refuses; both outcomes are allowed here.  Without a watch the
\* channel is nil and lock looks at the children once more.
ExistsW(g) ==
  /\ Request(g, "exists")
  /\ \/ gr[g].watch \in znodes /\ Goto(g, "select")
     \/ gr' = [gr EXCEPT ![g].pc = "recheck", ![g].watch = 0]
  /\ UNCHANGED <<znodes, owner, age, mutex, leads, expired, faults>>

Recheck(g) ==
  /\ Request(g, "recheck")
  /\ IfElected(g, "select")
  /\ UNCHANGED <<znodes, owner, age, leads, expired, faults>>

\* select: the sibling was deleted.  Its znode stays when it is not elected.
NodeDeleted(g) ==
  /\ Request(g, "select") /\ gr[g].watch \in (1 .. Len(owner)) \ znodes
  /\ Return(g, Elected(g))
  /\ UNCHANGED <<znodes, owner, age, leads, expired, faults>>

\* select: time.After.  The children to look at are read at once.
TimeAfter(g) ==
  /\ Request(g, "select") /\ gr[g].waited >= TimeoutOf[g]
  /\ IF GetChildrenFails THEN Return(g, FALSE)
     ELSE gr' = [gr EXCEPT ![g].pc = "scan", ![g].scan = znodes, ![g].watch = 0, ![g].waited = 0] /\ UNCHANGED mutex
  /\ UNCHANGED <<znodes, owner, age, leads, expired, faults>>

\* Delete what timed out, one request after the other, the own znode always.
TimedOut(g, n) == n = gr[g].seq \/ checkOutTimeOut(n, TimeoutOf[g])
DeleteTimedOut(g) ==
  /\ Request(g, "scan") /\ gr[g].scan # {}
  /\ \E n \in gr[g].scan :
       /\ gr' = [gr EXCEPT ![g].scan = @ \ {n}]
       /\ znodes' = IF TimedOut(g, n) THEN znodes \ {n} ELSE znodes
  /\ UNCHANGED <<owner, age, mutex, leads, expired, faults>>

LockTimeout(g) ==
  /\ Request(g, "scan") /\ gr[g].scan = {}
  /\ Return(g, FALSE)
  /\ UNCHANGED <<znodes, owner, age, leads, expired, faults>>

\* Campaign stores the path under the mutex and returns nil.
Won(g) ==
  /\ At(g, "won") /\ mutex[ClientOf[g]] = Nobody
  /\ leaderMap' = [leaderMap EXCEPT ![g] = gr[g].seq]
  /\ leads' = leads \cup {g} /\ gr' = [gr EXCEPT ![g] = Idle]
  /\ UNCHANGED <<znodes, owner, age, mutex, expired, lockMap, zkLock, faults>>

\* Resign reads leaderMap, which keeps the entry, and deletes the znode.  The
\* caller gives its leadership up with the call, before the request.
Resign(g) ==
  /\ At(g, "idle") /\ g \in leads /\ mutex[ClientOf[g]] = Nobody
  /\ leads' = leads \ {g} /\ Goto(g, "resign")
  /\ UNCHANGED <<znodes, owner, age, mutex, leaderMap, expired, lockMap, zkLock, faults>>

DeleteZkPath(g) ==
  /\ Request(g, "resign")
  /\ znodes' = znodes \ {leaderMap[g]} /\ Goto(g, "idle")
  /\ UNCHANGED <<owner, age, mutex, leads, expired, faults>>

---------------------------------------------------------------------------
\* A request of lock fails, which ends lock and leaves its znode where it is.
\* The answer to Create may be lost after the znode was created.
RequestFails(g) ==
  /\ \/ gr[g].pc \in {"register", "min", "recheck"}
     \/ At(g, "select") /\ gr[g].waited >= TimeoutOf[g]
  /\ faults < MaxFaults /\ faults' = faults + 1
  /\ Return(g, FALSE)
  /\ \/ UNCHANGED <<znodes, owner, age>>
     \/ /\ At(g, "register") /\ Len(owner) < MaxNodes
        /\ owner' = Append(owner, g) /\ age' = Append(age, gr[g].data)
        /\ znodes' = znodes \cup {Len(owner) + 1}
  /\ UNCHANGED <<leaderMap, leads, expired, lockMap, zkLock>>

\* A failed Get or Delete is passed over.
DeleteFails(g) ==
  /\ \/ At(g, "scan") /\ \E n \in gr[g].scan : gr' = [gr EXCEPT ![g].scan = @ \ {n}]
     \/ At(g, "resign") /\ Goto(g, "idle")
  /\ faults < MaxFaults /\ faults' = faults + 1
  /\ UNCHANGED <<znodes, owner, age, mutex, leaderMap, leads, expired, lockMap, zkLock>>

\* The session of a client expires: its znodes go, its watches fire with
\* EventNotWatching, and a zk.Lock it held is free for others.
LostWatch == MaxNodes + 1
SessionExpires(c) ==
  LET mine == {n \in znodes : ClientOf[owner[n]] = c}
  IN /\ faults < MaxFaults /\ faults' = faults + 1
     /\ znodes' = znodes \ mine /\ expired' = expired \cup mine
     /\ gr' = [g \in Gr |-> IF ClientOf[g] = c /\ At(g, "select") /\ gr[g].watch # 0
                            THEN [gr[g] EXCEPT !.watch = LostWatch] ELSE gr[g]]
     /\ zkLock' = IF zkLock # Nobody /\ ClientOf[zkLock] = c THEN Nobody ELSE zkLock
     /\ UNCHANGED <<owner, age, mutex, leaderMap, leads, lockMap>>

NotWatching(g) ==
  /\ Request(g, "select") /\ gr[g].watch = LostWatch
  /\ Return(g, FALSE)
  /\ UNCHANGED <<znodes, owner, age, leads, expired, faults>>

\* A second passes.
Older(a) == IF a < LongestTimeout THEN a + 1 ELSE a
Tick ==
  /\ age' = [n \in DOMAIN age |-> Older(age[n])]
  /\ gr' = [g \in Gr |-> CASE At(g, "register") -> [gr[g] EXCEPT !.data = Older(@)]
                          [] At(g, "select") -> [gr[g] EXCEPT !.waited = Older(@)]
                          [] OTHER -> gr[g]]
  /\ UNCHANGED <<znodes, owner, mutex, leaderMap, leads, expired, lockMap, zkLock, faults>>

---------------------------------------------------------------------------
\* Lock: look the lock up, or make one; lock it; save it.  The zk.Lock of a
\* goroutine that holds it returns an error, which changes nothing.
Lock(g) ==
  /\ At(g, "idle") /\ mutex[ClientOf[g]] = Nobody /\ ~(g \in lockMap /\ zkLock = g)
  /\ Goto(g, "lock")
  /\ UNCHANGED <<znodes, owner, age, mutex, leaderMap, leads, expired, lockMap, zkLock, faults>>

ZkLockLocked(g) ==
  /\ At(g, "lock") /\ zkLock = Nobody
  /\ zkLock' = g /\ Goto(g, "save")
  /\ UNCHANGED <<znodes, owner, age, mutex, leaderMap, leads, expired, lockMap, faults>>

LockSave(g) ==
  /\ At(g, "save") /\ mutex[ClientOf[g]] = Nobody
  /\ lockMap' = lockMap \cup {g} /\ Goto(g, "idle")
  /\ UNCHANGED <<znodes, owner, age, mutex, leaderMap, leads, expired, zkLock, faults>>

Unlock(g) ==
  /\ At(g, "idle") /\ g \in lockMap /\ mutex[ClientOf[g]] = Nobody
  /\ zkLock = g /\ zkLock' = Nobody
  /\ UNCHANGED <<znodes, owner, age, gr, mutex, leaderMap, leads, expired, lockMap, faults>>

---------------------------------------------------------------------------
CampaignStep(g) ==
  \/ RegisterTempSeq(g) \/ CheckMin(g) \/ ExistsW(g) \/ Recheck(g) \/ NodeDeleted(g)
  \/ TimeAfter(g) \/ DeleteTimedOut(g) \/ LockTimeout(g) \/ NotWatching(g)

CampaignNext ==
  \/ \E g \in Gr : \/ Campaign(g) \/ LockBegin(g) \/ CampaignStep(g) \/ Won(g)
                   \/ Resign(g) \/ DeleteZkPath(g) \/ RequestFails(g) \/ DeleteFails(g)
  \/ \E c \in Clients : SessionExpires(c)
  \/ Tick

LockNext ==
  \/ \E g \in Gr : Lock(g) \/ ZkLockLocked(g) \/ LockSave(g) \/ Unlock(g)
  \/ \E c \in Clients : SessionExpires(c)

\* Goroutines run, and time passes.
Fairness ==
  /\ \A g \in Gr : WF_zkVars(LockBegin(g) \/ CampaignStep(g) \/ Won(g))
  /\ WF_zkVars(Tick)

\* Two goroutines both lead only when one of them has outlived the shortest
\* timeout, after which lock lets a rival delete its znode, or has lost its
\* session.
ExclusiveLease ==
  \A g, h \in leads : g # h =>
    \E x \in {g, h} : \/ leaderMap[x] \in expired
                     \/ age[leaderMap[x]] >= Min({TimeoutOf[y] : y \in Gr})

\* A Campaign with a timeout returns, whoever holds the mutex of the client
\* meanwhile and whatever fails.
CampaignReturns ==
  \A g \in Gr : TimeoutOf[g] > 0 => (At(g, "mutex") ~> At(g, "idle"))

\* At most one goroutine leads, while no session expires: what Campaign and
\* Resign are for.
OneLeader == expired = {} => Cardinality(leads) <= 1
=============================================================================
