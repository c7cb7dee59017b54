---------------------------- MODULE LockDetector ----------------------------
(***************************************************************************)
(* sync/deadlock/deadlock.go: Mutex and RWMutex that report locks taken in *)
(* different orders, locks taken twice by a goroutine and waits that time  *)
(* out.  The detector remembers the last goroutine that got each lock      *)
(* (s.cur) and the orders seen (s.order), under a mutex of its own; the    *)
(* lock itself is taken and released outside it, so goroutines come in     *)
(* between.  OnPotentialDeadlock only counts: nothing ends the process.    *)
(*                                                                         *)
(* s.at[g] is where goroutine g is, in a call on lock s.p[g] in s.mode[g]; *)
(* s.w[p] is who locked the underlying sync.RWMutex for writing, and       *)
(* s.r[p][g] how often g locked it for reading: any goroutine may unlock   *)
(* what another has locked, and a goroutine may lock for reading again.    *)
(* s.max is Opts.MaxMapSize.                                               *)
(*                                                                         *)
(* ref.taken are all orders that really happened, ref.passed those that    *)
(* the detector saw because a goroutine's lock had just been unlocked by   *)
(* another; <<p, p>> is a lock taken twice.  ref.known[g] are the locks    *)
(* the detector knew g to hold when its waiting call began, ref.lost the   *)
(* holds <<g, p>> that the detector forgot, and ref.forgot the orders.     *)
(***************************************************************************)
EXTENDS Integers, Sequences, FiniteSets
LOCAL INSTANCE SequencesExt

CONSTANTS Goroutines, Locks, RWLocks, MapSizes, MaxCalls

VARIABLES s, ref

None == 0

Init ==
  /\ \E max \in MapSizes :
       s = [at |-> [g \in Goroutines |-> "run"], p |-> [g \in Goroutines |-> None],
            mode |-> [g \in Goroutines |-> "w"], w |-> [p \in Locks |-> None],
            r |-> [p \in Locks |-> [g \in Goroutines |-> 0]],
            cur |-> [p \in Locks |-> None], order |-> {}, reports |-> {}, max |-> max]
  /\ ref = [taken |-> {}, passed |-> {}, known |-> [g \in Goroutines |-> {}], lost |-> {}, forgot |-> {},
            calls |-> 0]

Holds(g, p) == s.w[p] = g \/ s.r[p][g] > 0
Running(g) == s.at[g] = "run"

\* What preLock does about one entry of cur.
Reset(order) == Cardinality(order) = s.max
Examine(g, p, acc, b) ==
  IF b = p THEN IF s.cur[p] = g THEN [acc EXCEPT !.reports = @ \cup {<<"twice", p, p>>}] ELSE acc
  ELSE IF s.cur[b] # g THEN acc
  ELSE LET order == acc.order \cup {<<b, p>>}
       IN  [order |-> IF Reset(order) THEN {} ELSE order,
            forgot |-> IF Reset(order) THEN acc.forgot \cup order ELSE acc.forgot \ {<<b, p>>},
            reports |-> IF <<p, b>> \in acc.order THEN acc.reports \cup {<<"order", p, b>>} ELSE acc.reports]

\* preLock, in the order of a map.
preLock(g, p, mode) ==
  /\ Running(g) /\ ref.calls < MaxCalls
  /\ mode = "r" => p \in RWLocks
  /\ \E keys \in SetToSeqs({b \in Locks : s.cur[b] # None}) :
       LET acc == FoldLeft(LAMBDA a, b : Examine(g, p, a, b),
                           [order |-> s.order, reports |-> s.reports, forgot |-> ref.forgot], keys)
           known == {b \in Locks : s.cur[b] = g}
       IN
       /\ s' = [s EXCEPT !.at[g] = "wait", !.p[g] = p, !.mode[g] = mode,
                         !.order = acc.order, !.reports = acc.reports]
       /\ ref' = [ref EXCEPT !.calls = @ + 1, !.forgot = acc.forgot, !.known[g] = known,
                             !.taken = @ \cup {<<b, p>> : b \in {x \in Locks : Holds(g, x)}},
                             !.passed = @ \cup {<<b, p>> : b \in {x \in known : ~Holds(g, x)}}]

\* sync.RWMutex: a waiting writer keeps new readers out.
Waiting(g, p, mode) == s.at[g] \in {"wait", "timed"} /\ s.p[g] = p /\ s.mode[g] = mode
lockFn(g) ==
  LET p == s.p[g] IN
  /\ s.at[g] \in {"wait", "timed"} /\ s.w[p] = None
  /\ IF s.mode[g] = "w"
     THEN /\ \A h \in Goroutines : s.r[p][h] = 0
          /\ s' = [s EXCEPT !.at[g] = "got", !.w[p] = g]
     ELSE /\ \A h \in Goroutines : ~Waiting(h, p, "w")
          /\ s' = [s EXCEPT !.at[g] = "got", !.r[p][g] = @ + 1]
  /\ ref' = [ref EXCEPT !.known[g] = {}]

\* DeadlockTimeout passes: a report, if somebody is known to hold the lock.
Timeout(g) ==
  LET p == s.p[g] IN
  /\ s.at[g] = "wait" /\ s.cur[p] # None
  /\ s' = [s EXCEPT !.at[g] = "timed", !.reports = @ \cup {<<"timeout", p, p>>}]
  /\ UNCHANGED ref

\* A lock that its holder got in a call that has returned.
Returned(h, p) == Holds(h, p) /\ (s.at[h] = "got" /\ s.p[h] = p => s.r[p][h] > 1)

postLock(g) ==
  LET p == s.p[g] IN
  /\ s.at[g] = "got"
  /\ s' = [s EXCEPT !.at[g] = "run", !.cur[p] = g]
  /\ ref' = [ref EXCEPT !.lost = (@ \ {<<g, p>>}) \cup {<<h, p>> : h \in {x \in Goroutines \ {g} : Returned(x, p)}}]

\* Unlock and RUnlock by g of what h locked, perhaps itself: the lock is free
\* before the detector knows it.
Unlock(g, h, p) ==
  /\ Running(g) /\ Returned(h, p)
  /\ s' = [s EXCEPT !.at[g] = "released", !.p[g] = p,
                    !.w[p] = None, !.r[p][h] = IF @ > 0 THEN @ - 1 ELSE 0]
  /\ ref' = [ref EXCEPT !.lost = IF s.r[p][h] > 1 THEN @ ELSE @ \ {<<h, p>>}]

Forgotten_keeps(cur, p) == cur
Forgotten(cur, p) == [cur EXCEPT ![p] = None]

postUnlock(g) ==
  LET p == s.p[g] IN
  /\ s.at[g] = "released"
  /\ s' = [s EXCEPT !.at[g] = "run", !.cur = Forgotten(@, p)]
  /\ ref' = [ref EXCEPT !.lost = @ \cup {<<h, p>> : h \in {x \in Goroutines : Returned(x, p)}}]

Next ==
  \E g \in Goroutines :
    \/ \E p \in Locks : (\E h \in Goroutines : Unlock(g, h, p)) \/ \E mode \in {"r", "w"} : preLock(g, p, mode)
    \/ lockFn(g) \/ Timeout(g) \/ postLock(g) \/ postUnlock(g)

-----------------------------------------------------------------------------
Blocks(g, h) == Waiting(g, s.p[g], s.mode[g]) /\ Holds(h, s.p[g])

Releasing(p) == \E g \in Goroutines : s.at[g] = "released" /\ s.p[g] = p

(***************************************************************************)
(* An entry of cur names a goroutine that holds the lock, or the lock is   *)
(* being released.  Every reported order, and every lock reported as taken *)
(* twice, happened, except that the detector can take a lock for held that *)
(* another goroutine has just unlocked.  A hold is missing from cur only   *)
(* while another reader, a late postUnlock or one RUnlock of several has   *)
(* displaced it.  Two goroutines that wait for each other's locks, or one  *)
(* for its own, were reported when the second call began, whenever the     *)
(* detector knew of both holds and no reset of the map took the order.     *)
(***************************************************************************)
ReportsTrueAndComplete ==
  /\ \A p \in Locks : s.cur[p] # None => Holds(s.cur[p], p) \/ Releasing(p)
  /\ \A x \in s.reports : x[1] # "timeout" => {<<x[2], x[3]>>, <<x[3], x[2]>>} \subseteq ref.taken \cup ref.passed
  /\ \A g \in Goroutines, p \in Locks : Returned(g, p) /\ s.cur[p] # g => <<g, p>> \in ref.lost
  /\ \A g, h \in Goroutines :
       Blocks(g, h) /\ Blocks(h, g) /\ s.p[h] \in ref.known[g] /\ s.p[g] \in ref.known[h] =>
       LET pair == <<s.p[g], s.p[h]>> IN
       IF g = h THEN <<"twice", s.p[g], s.p[g]>> \in s.reports
       ELSE \/ pair[1] = pair[2]
            \/ \E x \in s.reports : x[1] = "order" /\ {x[2], x[3]} = {pair[1], pair[2]}
            \/ {pair, <<pair[2], pair[1]>>} \cap ref.forgot # {}
=============================================================================
