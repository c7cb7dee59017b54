--------------------------- MODULE UnboundedChan ---------------------------
(***************************************************************************)
(* sync/unbounded_chan.go: a queue without bound on a gxdeque.Deque, whose *)
(* Pop waits on a sync.Cond.  Every method holds mu, so each is one step;  *)
(* only cond.Wait gives the mutex up.  sync.Cond is external: Signal wakes *)
(* the goroutine that waited longest, Broadcast all of them, and a woken   *)
(* one competes for mu with every other caller.                            *)
(***************************************************************************)
EXTENDS Deque, FiniteSets

CONSTANTS Poppers,
          MaxPush      \* bound on the number of accepted pushes

VARIABLES
  wait,       \* q.wait
  closed,     \* q.closed
  Q,          \* q.Q
  waiters,    \* goroutines in cond.Wait, longest first
  woken,      \* goroutines cond woke that do not have mu yet
  pushed,     \* history: accepted items
  popped      \* history: items handed out

chanVars == <<wait, closed, Q, waiters, woken, pushed, popped>>

ChanTypeOK ==
  /\ wait \in BOOLEAN /\ closed \in BOOLEAN
  /\ Q.len \in 0 .. MaxPush
  /\ waiters \in Seq(Poppers) /\ woken \subseteq Poppers
  /\ IsInjective(waiters) /\ woken \cap Range(waiters) = {}

\* NewUnboundedChan
ChanInit ==
  /\ wait = FALSE /\ closed = FALSE
  /\ Q = NewWithMaxLen(0)
  /\ waiters = <<>> /\ woken = {}
  /\ pushed = <<>> /\ popped = <<>>

SetWaitOption(b) ==
  /\ wait # b /\ wait' = b
  /\ UNCHANGED <<closed, Q, waiters, woken, pushed, popped>>

\* The tail of Pop, and of TryPop, once an item is there.
Take_last ==
  /\ Q' = PopBack(Q)
  /\ popped' = Append(popped, PeekBack(Q))
Take ==
  /\ Q' = PopFront(Q)
  /\ popped' = Append(popped, PeekFront(Q))

MustWait == Q.len = 0 /\ ~closed

\* The loop of Pop with mu held: wait again, or leave with an item or with nil.
PopLoop(p) ==
  IF MustWait
  THEN /\ waiters' = Append(waiters, p) /\ woken' = woken \ {p}
       /\ UNCHANGED <<Q, popped>>
  ELSE /\ IF Q.len > 0 THEN Take ELSE UNCHANGED <<Q, popped>>
       /\ woken' = woken \ {p} /\ UNCHANGED waiters

\* A call of Pop.  Without wait an empty open queue returns nil at once, which
\* changes nothing.
Pop(p) ==
  /\ p \notin woken \cup Range(waiters)
  /\ ~(Q.len = 0 /\ ~closed /\ ~wait)
  /\ PopLoop(p)
  /\ UNCHANGED <<wait, closed, pushed>>

\* cond.Wait returns to Pop.
Resume(p) ==
  /\ p \in woken
  /\ PopLoop(p)
  /\ UNCHANGED <<wait, closed, pushed>>

\* On a closed queue TryPop takes nothing, whatever is left in it.
TryPop ==
  /\ ~closed /\ Q.len > 0
  /\ Take
  /\ UNCHANGED <<wait, closed, waiters, woken, pushed>>

Signal_never == UNCHANGED <<waiters, woken>>
Signal ==
  IF waiters = <<>> THEN UNCHANGED <<waiters, woken>>
  ELSE waiters' = Tail(waiters) /\ woken' = woken \cup {Head(waiters)}

\* A push on a closed queue is dropped and changes nothing.
Push ==
  LET v == Len(pushed) + 1 IN
  /\ ~closed /\ v <= MaxPush
  /\ Q' = PushBack(Q, v)
  /\ pushed' = Append(pushed, v)
  /\ Signal
  /\ UNCHANGED <<wait, closed, popped>>

Broadcast_signals == Signal
Broadcast == waiters' = <<>> /\ woken' = woken \cup Range(waiters)

Close ==
  /\ ~closed
  /\ closed' = TRUE
  /\ Broadcast
  /\ UNCHANGED <<wait, Q, pushed, popped>>

ChanNext ==
  \/ \E p \in Poppers : Pop(p) \/ Resume(p)
  \/ \E b \in BOOLEAN : SetWaitOption(b)
  \/ TryPop \/ Push \/ Close

\* A runnable goroutine gets mu eventually.
ChanFairness == \A p \in Poppers : WF_chanVars(Resume(p))

ChanSpec == ChanInit /\ [][ChanNext]_chanVars /\ ChanFairness

-----------------------------------------------------------------------------

\* No item is lost, duplicated, reordered or made up, however Pop, TryPop and
\* the poppers that cond woke race for the items.
Fifo == popped \o Items(Q) = pushed

\* Signal wakes one goroutine per item and another caller may take that item
\* first; still, while goroutines sleep there is a woken one for every item.
NoLostWakeup == waiters # <<>> => ~closed /\ Cardinality(woken) >= Q.len

\* A goroutine that waits in Pop returns once the queue is closed, although
\* SetWaitOption may have changed since it went to sleep.
CloseReleases ==
  \A p \in Poppers : [](closed => <>(p \notin woken \cup Range(waiters)))
=============================================================================
