-------------------------- MODULE GoroutinePool --------------------------
(***************************************************************************)
(* runtime/goroutine_pool.go: a pool of reusable goroutines.  Callers run  *)
(* Go, pooled goroutines run the work and put themselves on the idle list, *)
(* one gc goroutine closes the ones idle for too long, and one closer runs *)
(* Close.  Every step is one atomic operation, one critical section of the *)
(* pool's mutex, or one rendezvous on a goroutine's unbuffered channel.    *)
(*                                                                         *)
(* Each caller submits one piece of work, named by the caller, so at most  *)
(* one goroutine per caller is ever allocated.  Time is abstracted to the  *)
(* set of goroutines that have been idle for idleTimeout.                  *)
(***************************************************************************)
EXTENDS Integers, FiniteSets, Sequences, SequencesExt

CONSTANTS Callers,   \* goroutines that call Go once each
          GcBatch,   \* OnceLoopGoroutineNum: goroutines closed in one round
          NoGr       \* the nil goroutine

ASSUME GcBatchAssumption == GcBatch \in Nat \ {0}

Gr == 1 .. Cardinality(Callers)
HeadNode == 0                          \* the address of Pool.head
Nodes == Gr \cup {HeadNode}

PoolInit == 0
PoolStarting == 1
PoolGcing == 2
PoolClosing == 3
PoolClosed == 4

VARIABLES
  done,          \* Pool.done
  state,         \* Pool.state
  next,          \* goroutine.next of every node of the idle list
  tail,          \* Pool.tail
  count,         \* Pool.count
  workStartNum, workFinNum,
  grID,          \* goroutines allocated so far
  chClosed,      \* goroutines whose channel gc has closed
  expired,       \* goroutines on the idle list for at least idleTimeout
  cpc,           \* where each caller is in Go
  held,          \* the goroutine a caller got from get
  wpc,           \* where each pooled goroutine is in its loop
  work,          \* the work a goroutine runs
  ran,           \* the work that has been run to its end
  gcpc,          \* where gc is
  closepc,       \* where Close is
  loadedStart,   \* the workStartNum Close has loaded
  quietAtStop    \* history: no call of Go was in progress when Close set done

vars == <<done, state, next, tail, count, workStartNum, workFinNum, grID,
          chClosed, expired, cpc, held, wpc, work, ran, gcpc, closepc, loadedStart,
          quietAtStop>>

listVars == <<next, tail, count>>
callerVars == <<cpc, held>>
workerVars == <<wpc, work, ran>>
closeVars == <<closepc, loadedStart, done, quietAtStop>>

-----------------------------------------------------------------------------
(* The idle list *)

\* The nodes met by following next from head, head excluded; the walk stops
\* after as many nodes as there are, so that a cycle would show.
Idle ==
  LET walk[i \in 0 .. Cardinality(Gr) + 1] ==
        IF i = 0 THEN <<HeadNode>>
        ELSE LET n == next[Last(walk[i - 1])]
             IN  IF n = NoGr THEN walk[i - 1] ELSE Append(walk[i - 1], n)
  IN  Tail(walk[Cardinality(Gr) + 1])

TypeOK ==
  /\ done \in BOOLEAN /\ state \in PoolInit .. PoolClosed
  /\ next \in [Nodes -> Gr \cup {NoGr}] /\ tail \in Nodes
  /\ count \in 0 .. Cardinality(Gr)
  /\ workStartNum \in 0 .. Cardinality(Gr) /\ workFinNum \in 0 .. Cardinality(Gr)
  /\ grID \in 0 .. Cardinality(Gr)
  /\ chClosed \subseteq Gr /\ expired \subseteq Gr
  /\ cpc \in [Callers -> {"call", "get", "alloc", "send", "count", "ok", "refused"}]
  /\ held \in [Callers -> Gr \cup {NoGr}]
  /\ wpc \in [Gr -> {"none", "recv", "run", "fin", "put", "cas", "exit"}]
  /\ work \in [Gr -> Callers \cup {NoGr}]
  /\ ran \subseteq Callers
  /\ gcpc \in {"load", "once", "cas", "exit"}
  /\ closepc \in {"idle", "cas", "loadStart", "loadFin", "returned"}
  /\ loadedStart \in 0 .. Cardinality(Gr) /\ quietAtStop \in BOOLEAN

Init ==
  /\ done = FALSE /\ state = PoolInit
  /\ next = [n \in Nodes |-> NoGr] /\ tail = HeadNode /\ count = 0
  /\ workStartNum = 0 /\ workFinNum = 0 /\ grID = 0
  /\ chClosed = {} /\ expired = {}
  /\ cpc = [c \in Callers |-> "call"] /\ held = [c \in Callers |-> NoGr]
  /\ wpc = [g \in Gr |-> "none"] /\ work = [g \in Gr |-> NoGr]
  /\ ran = {}
  /\ gcpc = "load" /\ closepc = "idle" /\ loadedStart = 0
  /\ quietAtStop = FALSE

-----------------------------------------------------------------------------
(* Go *)

IsClosed(c) ==
  /\ cpc[c] = "call"
  /\ cpc' = [cpc EXCEPT ![c] = IF done THEN "refused" ELSE "get"]
  /\ UNCHANGED <<listVars, workerVars, closeVars, held, state, workStartNum,
                 workFinNum, grID, chClosed, expired, gcpc>>

\* get moves tail back to head when it takes the last goroutine.
TailAfterGet_keepsTail(ret) == tail
TailAfterGet(ret) == IF ret = tail THEN HeadNode ELSE tail

\* get under the mutex: take the head of the list, or fall through to alloc.
get(c) ==
  /\ cpc[c] = "get"
  /\ IF next[HeadNode] = NoGr
     THEN cpc' = [cpc EXCEPT ![c] = "alloc"] /\ UNCHANGED <<listVars, held, expired>>
     ELSE LET ret == next[HeadNode] IN
          /\ next' = [next EXCEPT ![HeadNode] = next[ret], ![ret] = NoGr]
          /\ tail' = TailAfterGet(ret)
          /\ count' = count - 1
          /\ expired' = expired \ {ret}
          /\ held' = [held EXCEPT ![c] = ret]
          /\ cpc' = [cpc EXCEPT ![c] = "send"]
  /\ UNCHANGED <<workerVars, closeVars, state, workStartNum, workFinNum, grID,
                 chClosed, gcpc>>

alloc(c) ==
  /\ cpc[c] = "alloc"
  /\ grID' = grID + 1
  /\ held' = [held EXCEPT ![c] = grID + 1]
  /\ wpc' = [wpc EXCEPT ![grID + 1] = "recv"]
  /\ state' = IF state = PoolInit THEN PoolStarting ELSE state
  /\ cpc' = [cpc EXCEPT ![c] = "send"]
  /\ UNCHANGED <<listVars, closeVars, work, ran, workStartNum, workFinNum,
                 chClosed, expired, gcpc>>

\* g.ch <- f meets the goroutine in its range loop.
Send(c) ==
  LET g == held[c] IN
  /\ cpc[c] = "send" /\ wpc[g] = "recv" /\ g \notin chClosed
  /\ wpc' = [wpc EXCEPT ![g] = "run"]
  /\ work' = [work EXCEPT ![g] = c]
  /\ cpc' = [cpc EXCEPT ![c] = "count"]
  /\ UNCHANGED <<listVars, closeVars, held, ran, state, workStartNum, workFinNum,
                 grID, chClosed, expired, gcpc>>

NewStartNum_skipsLate == IF done THEN workStartNum ELSE workStartNum + 1
NewStartNum == workStartNum + 1

CountStart(c) ==
  /\ cpc[c] = "count"
  /\ workStartNum' = NewStartNum
  /\ cpc' = [cpc EXCEPT ![c] = "ok"]
  /\ held' = [held EXCEPT ![c] = NoGr]
  /\ UNCHANGED <<listVars, workerVars, closeVars, state, workFinNum, grID,
                 chClosed, expired, gcpc>>

-----------------------------------------------------------------------------
(* The loop of a pooled goroutine *)

WorkReturns(g) ==
  /\ wpc[g] = "run"
  /\ ran' = ran \cup {work[g]}
  /\ wpc' = [wpc EXCEPT ![g] = "fin"]
  /\ UNCHANGED <<listVars, callerVars, closeVars, work, state, workStartNum,
                 workFinNum, grID, chClosed, expired, gcpc>>

\* workFinNum is raised; lastRun is set here too, and put follows, so the
\* goroutine enters the idle list with its idle time at zero.
CountFin(g) ==
  /\ wpc[g] = "fin"
  /\ workFinNum' = workFinNum + 1
  /\ work' = [work EXCEPT ![g] = NoGr]
  /\ wpc' = [wpc EXCEPT ![g] = "put"]
  /\ UNCHANGED <<listVars, callerVars, closeVars, ran, state, workStartNum,
                 grID, chClosed, expired, gcpc>>

put(g) ==
  /\ wpc[g] = "put"
  /\ next' = [next EXCEPT ![g] = NoGr, ![tail] = g]
  /\ tail' = g
  /\ count' = count + 1
  /\ wpc' = [wpc EXCEPT ![g] = "cas"]
  /\ UNCHANGED <<callerVars, closeVars, work, ran, state, workStartNum,
                 workFinNum, grID, chClosed, expired, gcpc>>

PutCas(g) ==
  /\ wpc[g] = "cas"
  /\ state' = IF state = PoolStarting THEN PoolGcing ELSE state
  /\ wpc' = [wpc EXCEPT ![g] = "recv"]
  /\ UNCHANGED <<listVars, callerVars, closeVars, work, ran, workStartNum,
                 workFinNum, grID, chClosed, expired, gcpc>>

\* The range loop ends once the channel is closed.
Exit(g) ==
  /\ wpc[g] = "recv" /\ g \in chClosed
  /\ wpc' = [wpc EXCEPT ![g] = "exit"]
  /\ UNCHANGED <<listVars, callerVars, closeVars, work, ran, state, workStartNum,
                 workFinNum, grID, chClosed, expired, gcpc>>

\* Time passes for a goroutine waiting in the idle list.
Age(g) ==
  /\ g \in ToSet(Idle) \ expired
  /\ expired' = expired \cup {g}
  /\ UNCHANGED <<listVars, callerVars, workerVars, closeVars, state,
                 workStartNum, workFinNum, grID, chClosed, gcpc>>

-----------------------------------------------------------------------------
(* gc *)

\* A state not past PoolStarting makes gc sleep and load again.
GcLoad ==
  /\ gcpc = "load" /\ state > PoolStarting
  /\ gcpc' = "once"
  /\ UNCHANGED <<listVars, callerVars, workerVars, closeVars, state,
                 workStartNum, workFinNum, grID, chClosed, expired>>

\* gcOnce closes the expired goroutines at the front of the list, GcBatch at most.
Reclaimed(idle) ==
  LET fresh == {i \in 1 .. Len(idle) : idle[i] \notin expired \/ i > GcBatch}
      n == Cardinality({i \in 1 .. Len(idle) : \A j \in fresh : i < j})
  IN  SubSeq(idle, 1, n)

HeadAfterGc_keepsClosed(rest) == next[HeadNode]
HeadAfterGc(rest) == IF rest = <<>> THEN NoGr ELSE rest[1]

CountAfterGc(gone) == count - Len(gone)

gcOnce ==
  LET idle == Idle
      gone == Reclaimed(idle)
      rest == SubSeq(idle, Len(gone) + 1, Len(idle))
  IN
  /\ gcpc = "once"
  /\ chClosed' = chClosed \cup ToSet(gone)
  /\ expired' = expired \ ToSet(gone)
  /\ next' = [next EXCEPT ![HeadNode] = HeadAfterGc(rest)]
  /\ count' = CountAfterGc(gone)
  /\ tail' = IF rest = <<>> THEN HeadNode ELSE tail
  /\ gcpc' = IF rest = <<>> THEN "cas" ELSE "load"
  /\ UNCHANGED <<callerVars, workerVars, closeVars, state, workStartNum,
                 workFinNum, grID>>

\* The list was empty: gc moves a closing pool to PoolClosed and returns.
GcFinish ==
  /\ gcpc = "cas"
  /\ state' = IF state = PoolClosing THEN PoolClosed ELSE state
  /\ gcpc' = "exit"
  /\ UNCHANGED <<listVars, callerVars, workerVars, closeVars, workStartNum,
                 workFinNum, grID, chClosed, expired>>

-----------------------------------------------------------------------------
(* Close *)

stop ==
  /\ closepc = "idle"
  /\ done' = TRUE
  /\ quietAtStop' = \A c \in Callers : cpc[c] \in {"call", "ok", "refused"}
  /\ closepc' = "cas"
  /\ UNCHANGED <<listVars, callerVars, workerVars, loadedStart, state,
                 workStartNum, workFinNum, grID, chClosed, expired, gcpc>>

CloseCas ==
  /\ closepc = "cas"
  /\ state' = IF state = PoolGcing THEN PoolClosing ELSE state
  /\ closepc' = "loadStart"
  /\ UNCHANGED <<listVars, callerVars, workerVars, loadedStart, quietAtStop, done,
                 workStartNum, workFinNum, grID, chClosed, expired, gcpc>>

CloseLoadStart ==
  /\ closepc = "loadStart"
  /\ loadedStart' = workStartNum
  /\ closepc' = "loadFin"
  /\ UNCHANGED <<listVars, callerVars, workerVars, quietAtStop, done, state, workStartNum,
                 workFinNum, grID, chClosed, expired, gcpc>>

AllFinished_early == loadedStart >= workFinNum
AllFinished == loadedStart = workFinNum

CloseLoadFin ==
  /\ closepc = "loadFin"
  /\ closepc' = IF AllFinished THEN "returned" ELSE "loadStart"
  /\ loadedStart' = 0
  /\ UNCHANGED <<listVars, callerVars, workerVars, quietAtStop, done, state,
                 workStartNum, workFinNum, grID, chClosed, expired, gcpc>>

Go(c) == IsClosed(c) \/ get(c) \/ alloc(c) \/ Send(c) \/ CountStart(c)
Worker(g) == WorkReturns(g) \/ CountFin(g) \/ put(g) \/ PutCas(g) \/ Exit(g)
Gc == GcLoad \/ gcOnce \/ GcFinish
Close == stop \/ CloseCas \/ CloseLoadStart \/ CloseLoadFin

Next ==
  \/ \E c \in Callers : Go(c)
  \/ \E g \in Gr : Worker(g) \/ Age(g)
  \/ Gc
  \/ Close

Spec == Init /\ [][Next]_vars

-----------------------------------------------------------------------------
(* Properties *)

\* get, put and gcOnce keep the idle list whole: it ends at Pool.tail, it has
\* no cycle and no goroutine twice, and Pool.count is its length.
IdleListIntact ==
  /\ TypeOK
  /\ IsInjective(Idle)
  /\ count = Len(Idle)
  /\ tail = IF Idle = <<>> THEN HeadNode ELSE Last(Idle)

\* A goroutine handed to a caller by get is owned by that caller alone: no
\* other caller has it, it is not on the idle list and gc has not closed its
\* channel, so that g.ch <- f never panics.
HeldExclusively ==
  \A c \in Callers : cpc[c] = "send" =>
    /\ held[c] \notin chClosed
    /\ held[c] \notin ToSet(Idle)
    /\ \A d \in Callers \ {c} : cpc[d] = "send" => held[d] # held[c]

\* When no call of Go is in progress as Close sets done, Close returns only
\* after all the accepted work has run.  It compares two counters, which account
\* for every goroutine at work: what was sent to a goroutine is counted as
\* started or about to be, and as finished or still running.
CloseWaitsForWork ==
  /\ quietAtStop /\ closepc = "returned" => \A c \in Callers : cpc[c] = "ok" => c \in ran
  /\ workStartNum + Cardinality({c \in Callers : cpc[c] = "count"})
       = workFinNum + Cardinality({g \in Gr : wpc[g] \in {"run", "fin"}})

\* A call of Go that was not refused returns, and its work is run.
AcceptedWorkRuns == \A c \in Callers : cpc[c] = "get" ~> (cpc[c] = "ok" /\ c \in ran)

\* Close, once called, returns.
CloseReturns == closepc = "cas" ~> closepc = "returned"

\* The callers are interchangeable.
Symmetry == Permutations(Callers)
=============================================================================
