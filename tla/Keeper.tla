------------------------------ MODULE Keeper ------------------------------
(***************************************************************************)
(* sync/pool/worker_pool.go: a keeper goroutine hands tasks to the worker  *)
(* with the fewest pending ones, and each worker reports back on workerQ.  *)
(* Producers call PushTask, one goroutine calls Close.  The capacities of  *)
(* the three kinds of channel are constants (1024, 64 and 128 in the code).*)
(***************************************************************************)
EXTENDS Integers, FiniteSets, Sequences, SequencesExt

CONSTANTS Tasks,       \* tasks pushed, each by a producer of its own
          WorkerNum,   \* NewKeeper's workerNum
          TaskQCap,    \* capacity of Keeper.taskQ
          WorkCap,     \* capacity of Worker.taskQ
          WorkerQCap,  \* capacity of Keeper.workerQ
          NoTask

ASSUME KeeperAssumption ==
  /\ {WorkerNum, TaskQCap, WorkCap, WorkerQCap} \subseteq Nat \ {0}
  /\ NoTask \notin Tasks

Workers == 1 .. WorkerNum

VARIABLES
  ppc,          \* where each producer is in PushTask
  taskQ,        \* Keeper.taskQ
  workerQ,      \* Keeper.workerQ
  workers,      \* Keeper.workers: the heap array, and Worker.index
  pending,      \* Worker.pending
  inTaskNum, finTaskNum,
  kpc,          \* where Keeper.run is
  hand,         \* the worker and the task Keeper.run holds outside the queues
  wtaskQ,       \* Worker.taskQ
  wpc,          \* where each worker is
  running,      \* the task each worker runs
  finished,     \* history: tasks that have been run
  done,         \* Keeper.done is closed
  wdone,        \* workers whose done is closed
  spc,          \* where Close is
  stopAt, stopLen  \* index and length of Stop's range loop

vars == <<ppc, taskQ, workerQ, workers, pending, inTaskNum, finTaskNum, kpc, hand,
          wtaskQ, wpc, running, finished, done, wdone, spc, stopAt, stopLen>>
stopVars == <<done, wdone, spc, stopAt, stopLen>>
workVars == <<wpc, running, finished, finTaskNum>>

-----------------------------------------------------------------------------
(* WorkerPool, a heap.Interface, under the operations of container/heap.   *)
(* Positions count from 1.                                                 *)

Less_most(p, pend, i, j) == pend[p.arr[i]] > pend[p.arr[j]]
Less(p, pend, i, j) == pend[p.arr[i]] < pend[p.arr[j]]

Swap_forgetsIndex(p, i, j) ==
  [arr   |-> [p.arr EXCEPT ![i] = p.arr[j], ![j] = p.arr[i]],
   index |-> [p.index EXCEPT ![p.arr[j]] = i]]
Swap(p, i, j) ==
  [arr   |-> [p.arr EXCEPT ![i] = p.arr[j], ![j] = p.arr[i]],
   index |-> [p.index EXCEPT ![p.arr[j]] = i, ![p.arr[i]] = j]]

Push(p, w) == [arr |-> Append(p.arr, w), index |-> [p.index EXCEPT ![w] = Len(p.arr) + 1]]

Pop(p) == [arr |-> Front(p.arr), index |-> [p.index EXCEPT ![Last(p.arr)] = -1]]

\* Both sifts iterate one swap, at most as often as the heap is long.
up(p, pend, start) ==
  LET sift[k \in 0 .. Len(p.arr)] ==
        IF k = 0 THEN [p |-> p, j |-> start]
        ELSE LET s == sift[k - 1]
             IN  IF s.j > 1 /\ Less(s.p, pend, s.j, s.j \div 2)
                 THEN [p |-> Swap(s.p, s.j, s.j \div 2), j |-> s.j \div 2]
                 ELSE s
  IN  sift[Len(p.arr)].p

down(p, pend, start, n) ==
  LET sift[k \in 0 .. Len(p.arr)] ==
        IF k = 0 THEN [p |-> p, i |-> start]
        ELSE LET s == sift[k - 1]
                 l == 2 * s.i
                 j == IF l + 1 <= n /\ Less(s.p, pend, l + 1, l) THEN l + 1 ELSE l
             IN  IF l <= n /\ Less(s.p, pend, j, s.i)
                 THEN [p |-> Swap(s.p, s.i, j), i |-> j]
                 ELSE s
  IN  sift[Len(p.arr)]

HeapPush(p, pend, w) == up(Push(p, w), pend, Len(p.arr) + 1)

HeapPop(p, pend) ==
  LET n == Len(p.arr) IN Pop(down(Swap(p, 1, n), pend, 1, n - 1).p)

HeapRemove(p, pend, i) ==
  LET n == Len(p.arr)
      d == down(Swap(p, i, n), pend, i, n - 1)
  IN  IF n = i THEN Pop(p)
      ELSE Pop(IF d.i > i THEN d.p ELSE up(d.p, pend, i))

NewWorkers ==
  LET built[n \in 0 .. WorkerNum] ==
        IF n = 0 THEN [arr |-> <<>>, index |-> [w \in Workers |-> -1]]
        ELSE HeapPush(built[n - 1], [w \in Workers |-> 0], n)
  IN  built[WorkerNum]

-----------------------------------------------------------------------------

TypeOK ==
  /\ ppc \in [Tasks -> {"push", "count", "ok", "refused"}]
  /\ taskQ \in BoundedSeq(Tasks, TaskQCap)
  /\ workerQ \in BoundedSeq(Workers, WorkerQCap)
  /\ workers.arr \in BoundedSeq(Workers, WorkerNum)
  /\ workers.index \in [Workers -> Workers \cup {-1}]
  /\ pending \in [Workers -> 0 .. Cardinality(Tasks)]
  /\ inTaskNum \in 0 .. Cardinality(Tasks) /\ finTaskNum \in 0 .. Cardinality(Tasks)
  /\ kpc \in {"select", "send", "exit"}
  /\ hand \in [worker : Workers \cup {0}, task : Tasks \cup {NoTask}]
  /\ wtaskQ \in [Workers -> BoundedSeq(Tasks, WorkCap)]
  /\ wpc \in [Workers -> {"select", "run", "back", "exit"}]
  /\ running \in [Workers -> Tasks \cup {NoTask}]
  /\ finished \subseteq Tasks
  /\ done \in BOOLEAN /\ wdone \subseteq Workers
  /\ spc \in {"idle", "range", "wait", "returned", "panic"}
  /\ stopAt \in 0 .. WorkerNum + 1 /\ stopLen \in 0 .. WorkerNum

Init ==
  /\ ppc = [t \in Tasks |-> "push"]
  /\ taskQ = <<>> /\ workerQ = <<>> /\ workers = NewWorkers
  /\ pending = [w \in Workers |-> 0] /\ inTaskNum = 0 /\ finTaskNum = 0
  /\ kpc = "select" /\ hand = [worker |-> 0, task |-> NoTask]
  /\ wtaskQ = [w \in Workers |-> <<>>] /\ wpc = [w \in Workers |-> "select"]
  /\ running = [w \in Workers |-> NoTask] /\ finished = {}
  /\ done = FALSE /\ wdone = {} /\ spc = "idle" /\ stopAt = 0 /\ stopLen = 0

-----------------------------------------------------------------------------
(* PushTask: the select takes any case that is ready. *)

PushTask(t) ==
  /\ ppc[t] = "push" /\ Len(taskQ) < TaskQCap
  /\ taskQ' = Append(taskQ, t)
  /\ ppc' = [ppc EXCEPT ![t] = "count"]
  /\ UNCHANGED <<stopVars, workVars, workerQ, workers, pending, inTaskNum, kpc,
                 hand, wtaskQ>>

\* done is closed, or the timer of time.After fires.
PushTaskFails(t) ==
  /\ ppc[t] = "push" /\ (done \/ Len(taskQ) = TaskQCap)
  /\ ppc' = [ppc EXCEPT ![t] = "refused"]
  /\ UNCHANGED <<stopVars, workVars, taskQ, workerQ, workers, pending, inTaskNum,
                 kpc, hand, wtaskQ>>

PushTaskCounts(t) ==
  /\ ppc[t] = "count"
  /\ inTaskNum' = inTaskNum + 1
  /\ ppc' = [ppc EXCEPT ![t] = "ok"]
  /\ UNCHANGED <<stopVars, workVars, taskQ, workerQ, workers, pending, kpc, hand, wtaskQ>>

-----------------------------------------------------------------------------
(* Keeper.run: the cases of its select, in any order.  taskQ and workerQ   *)
(* are never closed.                                                       *)

TaskQAfterTake_keeps == taskQ
TaskQAfterTake == Tail(taskQ)

\* A task arrives: pop the least loaded worker.
RunTakeTask ==
  /\ kpc = "select" /\ taskQ # <<>>
  /\ workers.arr # <<>>
  /\ hand' = [worker |-> workers.arr[1], task |-> Head(taskQ)]
  /\ workers' = HeapPop(workers, pending)
  /\ taskQ' = TaskQAfterTake
  /\ kpc' = "send"
  /\ UNCHANGED <<stopVars, workVars, ppc, workerQ, pending, inTaskNum, wtaskQ>>

\* worker.taskQ <- t blocks while that worker's queue is full.
HasRoom(w) == Len(wtaskQ[w]) < WorkCap

PendingAfterSend(w) == [pending EXCEPT ![w] = @ + 1]

RunSend ==
  LET w == hand.worker IN
  /\ kpc = "send" /\ HasRoom(w)
  /\ wtaskQ' = [wtaskQ EXCEPT ![w] = Append(@, hand.task)]
  /\ pending' = PendingAfterSend(w)
  /\ workers' = HeapPush(workers, PendingAfterSend(w), w)
  /\ hand' = [worker |-> 0, task |-> NoTask]
  /\ kpc' = "select"
  /\ UNCHANGED <<stopVars, workVars, ppc, taskQ, workerQ, inTaskNum>>

RunWorkerBack ==
  LET w == Head(workerQ)
      pend == [pending EXCEPT ![w] = @ - 1] IN
  /\ kpc = "select" /\ workerQ # <<>>
  /\ workerQ' = Tail(workerQ)
  /\ pending' = pend
  /\ workers' = HeapPush(HeapRemove(workers, pend, workers.index[w]), pend, w)
  /\ UNCHANGED <<stopVars, workVars, ppc, taskQ, inTaskNum, kpc, hand, wtaskQ>>

RunDone ==
  /\ kpc = "select" /\ done
  /\ kpc' = "exit"
  /\ UNCHANGED <<stopVars, workVars, ppc, taskQ, workerQ, workers, pending, inTaskNum,
                 hand, wtaskQ>>

-----------------------------------------------------------------------------
(* Worker.work *)

WorkTake(w) ==
  /\ wpc[w] = "select" /\ wtaskQ[w] # <<>>
  /\ running' = [running EXCEPT ![w] = Head(wtaskQ[w])]
  /\ wtaskQ' = [wtaskQ EXCEPT ![w] = Tail(@)]
  /\ wpc' = [wpc EXCEPT ![w] = "run"]
  /\ UNCHANGED <<stopVars, ppc, taskQ, workerQ, workers, pending, inTaskNum,
                 finTaskNum, finished, kpc, hand>>

\* The task returns, or panics and is recovered; either way it is counted.
WorkRun(w) ==
  /\ wpc[w] = "run"
  /\ finished' = finished \cup {running[w]}
  /\ finTaskNum' = finTaskNum + 1
  /\ running' = [running EXCEPT ![w] = NoTask]
  /\ wpc' = [wpc EXCEPT ![w] = "back"]
  /\ UNCHANGED <<stopVars, ppc, taskQ, workerQ, workers, pending, inTaskNum, kpc,
                 hand, wtaskQ>>

\* k.workerQ <- w blocks while workerQ is full.
WorkBack(w) ==
  /\ wpc[w] = "back" /\ Len(workerQ) < WorkerQCap
  /\ workerQ' = Append(workerQ, w)
  /\ wpc' = [wpc EXCEPT ![w] = "select"]
  /\ UNCHANGED <<stopVars, ppc, taskQ, workers, pending, inTaskNum, finTaskNum,
                 running, finished, kpc, hand, wtaskQ>>

WorkDone(w) ==
  /\ wpc[w] = "select" /\ w \in wdone
  /\ wpc' = [wpc EXCEPT ![w] = "exit"]
  /\ UNCHANGED <<stopVars, ppc, taskQ, workerQ, workers, pending, inTaskNum,
                 finTaskNum, running, finished, kpc, hand, wtaskQ>>

-----------------------------------------------------------------------------
(* Close: Stop reads the heap array, unsynchronised with Keeper.run, which *)
(* may change it between two iterations; then Close waits for the keeper.  *)

Stop ==
  /\ spc = "idle"
  /\ done' = TRUE
  /\ spc' = "range" /\ stopAt' = 1 /\ stopLen' = Len(workers.arr)
  /\ UNCHANGED <<workVars, ppc, taskQ, workerQ, workers, pending, inTaskNum, kpc,
                 hand, wtaskQ, wdone>>

\* k.workers[i].close(): close the worker's done; an index past the array panics.
StopWorker ==
  /\ spc = "range" /\ stopAt <= stopLen
  /\ IF stopAt > Len(workers.arr)
     THEN spc' = "panic" /\ UNCHANGED wdone
     ELSE spc' = "wait" /\ wdone' = wdone \cup {workers.arr[stopAt]}
  /\ UNCHANGED <<workVars, ppc, taskQ, workerQ, workers, pending, inTaskNum, kpc,
                 hand, wtaskQ, done, stopAt, stopLen>>

\* w.wg.Wait(); the workers already stopped have all been waited for.
StopWaited ==
  /\ spc = "wait" /\ \A w \in wdone : wpc[w] = "exit"
  /\ spc' = "range" /\ stopAt' = stopAt + 1
  /\ UNCHANGED <<workVars, ppc, taskQ, workerQ, workers, pending, inTaskNum, kpc,
                 hand, wtaskQ, done, wdone, stopLen>>

CloseWait ==
  /\ spc = "range" /\ stopAt > stopLen /\ kpc = "exit"
  /\ spc' = "returned"
  /\ UNCHANGED <<workVars, ppc, taskQ, workerQ, workers, pending, inTaskNum, kpc,
                 hand, wtaskQ, done, wdone, stopAt, stopLen>>

Producer(t) == PushTask(t) \/ PushTaskFails(t) \/ PushTaskCounts(t)
Run == RunTakeTask \/ RunSend \/ RunWorkerBack \/ RunDone
Work(w) == WorkTake(w) \/ WorkRun(w) \/ WorkBack(w) \/ WorkDone(w)
Close == Stop \/ StopWorker \/ StopWaited \/ CloseWait

Next ==
  \/ \E t \in Tasks : Producer(t)
  \/ Run
  \/ \E w \in Workers : Work(w)
  \/ Close

Spec == Init /\ [][Next]_vars

-----------------------------------------------------------------------------
(* Properties *)

\* The array is a heap on pending and Worker.index is each worker's position,
\* so that heap.Remove takes out the worker that reported back; no worker is
\* in the array twice, and none is lost but the one the keeper holds.  And
\* pending, on which the balancing rests, is the number of tasks that were sent
\* to the worker and whose report the keeper has not yet received.
HeapIntact ==
  /\ TypeOK
  /\ \A i \in 2 .. Len(workers.arr) :
       pending[workers.arr[i \div 2]] <= pending[workers.arr[i]]
  /\ \A i \in 1 .. Len(workers.arr) : workers.index[workers.arr[i]] = i
  /\ ToSet(workers.arr) = Workers \ {hand.worker}
  /\ \A w \in Workers :
       pending[w] = Len(wtaskQ[w]) + Cardinality({i \in DOMAIN workerQ : workerQ[i] = w})
                      + (IF wpc[w] \in {"run", "back"} THEN 1 ELSE 0)

\* A task pushed is in exactly one place: the keeper's queue, the keeper's
\* hand, a worker's queue, a running worker, or finished.
TasksConserved ==
  \A t \in Tasks :
    Cardinality({i \in DOMAIN taskQ : taskQ[i] = t})
      + (IF hand.task = t THEN 1 ELSE 0)
      + Cardinality({x \in Workers \X (1 .. WorkCap) :
                       x[2] \in DOMAIN wtaskQ[x[1]] /\ wtaskQ[x[1]][x[2]] = t})
      + Cardinality({w \in Workers : running[w] = t})
      + (IF t \in finished THEN 1 ELSE 0)
    = IF ppc[t] \in {"count", "ok"} THEN 1 ELSE 0

\* The keeper waits for room in the queue of a worker that waits for room in
\* workerQ, which only the keeper empties: neither can go on.
CircularWait ==
  LET w == hand.worker IN
  /\ kpc = "send" /\ Len(wtaskQ[w]) = WorkCap
  /\ wpc[w] = "back" /\ Len(workerQ) = WorkerQCap

\* Keeper and worker can block each other for good, but only under a load that
\* filled every worker: each has more tasks pending than its queue holds.
StuckOnlyWhenOverloaded ==
  CircularWait => \A w \in Workers : pending[w] > WorkCap

\* Stop: "stop all workers".  When Close has returned every worker was stopped.
StopStopsAllWorkers == spc = "returned" => wdone = Workers

\* The tasks are interchangeable.
Symmetry == Permutations(Tasks)
=============================================================================
