----------------------------- MODULE TimerWheel -----------------------------
(* The hierarchical timer wheel of time/timer.go with the timers of          *)
(* time/sleep.go and time/ticker.go on top of it.  One goroutine owns the    *)
(* five sorted slot lists; it selects between the ticks of a time.Ticker and *)
(* the actions that clients put into the bounded channel timerQ.  Time is in *)
(* units of the nanosecond; the ratios between the levels are parameters.    *)
EXTENDS Integers, Sequences, FiniteSets, SequencesExt

CONSTANTS
    Ms,         \* time.Millisecond
    Limit,      \* limit: level -> how many units of the level make the next one
    Threshold,  \* minDiff*0.7: a shorter advance is not acted on
    QueueSize,  \* timerNodeQueueSize
    Periods,    \* the periods clients ask for
    Loops,      \* those of them that are asked for by tickers (eTimerLoop)
    MaxTimers,  \* bound on the number of timers created
    MaxResets,  \* bound on the calls of Timer.Reset
    LastStop,   \* bound on the time at which TimerWheel.Stop is called
    Jumps,      \* the times that may pass between two ticks
    MaxTime     \* bound on the time of a tick

Levels == 0 .. 4

(* Short levels for model checking: the units of the levels are 2, 2, 2, 4   *)
(* and 8, so that a timer passes several levels and the day hand wraps       *)
(* after 8.                                                                  *)
ShortLimit == [l \in Levels |-> IF l \in {2, 3} THEN 2 ELSE 1]

ASSUME WheelAssumption ==
    /\ {Ms, Threshold, QueueSize, MaxTimers} \subseteq Nat \ {0}
    /\ {MaxTime, MaxResets, LastStop} \subseteq Nat /\ Jumps \subseteq Nat
    /\ Limit \in [Levels -> Nat \ {0}]
    /\ Periods \subseteq Nat \ {0}

VARIABLES
    clock,      \* w.clock
    gxTime,     \* the global curGxTime
    number,     \* w.number
    hand,       \* w.hand
    slot,       \* w.slot: for each level its nodes
    timerQ,     \* the actions in the channel w.timerQ
    nextID,     \* the global nextID
    timer,      \* for each ID the state of the client's Timer
    resets,     \* how many times Timer.Reset has been called
    loop,       \* the goroutine of NewTimerWheel
    stop,       \* how far Stop has got
    leftTick,   \* a tick is left in the channel of the stopped ticker
    panicked,   \* a send on the closed timerQ has ended the program
    fired,      \* history: the nodes the tick that is being handled has run
    misses,     \* history: DEL_TIMER actions that found no node
    deleted     \* history: the IDs whose DEL_TIMER action has been handled

queueVars == <<timerQ, nextID, timer, resets>>
stopVars  == <<stop, leftTick, panicked>>
wheelVars == <<clock, hand, slot, number>>
histVars  == <<fired, misses, deleted>>
vars == <<wheelVars, gxTime, queueVars, loop, stopVars, histVars>>

IDs == 1 .. MaxTimers

(* The length of one unit of a level: msLimit.                               *)
msLimit == LET f[l \in Levels] == IF l = 0 THEN Ms ELSE f[l - 1] * Limit[l - 1]
           IN  f

(* secondNum, minuteNum, hourNum, dayNum; secondNum divides by the minute.   *)
Num(level, diff) == diff \div msLimit[IF level = 1 THEN 2 ELSE level]

-----------------------------------------------------------------------------
(* The operations on the slots, as functions of the slots.                   *)

(* insertTimerNode: the level for a node that is due in diff.                *)
LevelFor_upOne(diff) ==
    LET above == {l \in 1 .. 4 : diff > 0 /\ (l = 1 \/ Num(l - 1, diff) # 0)}
    IN  IF above = {} THEN 0 ELSE Max(above)
LevelFor(diff) ==
    LET above == {l \in 1 .. 4 : diff > 0 /\ Num(l, diff) # 0}
    IN  IF above = {} THEN 0 ELSE Max(above)

(* insertSlot: before the first node that is due later.                      *)
InsertSorted(s, node) ==
    LET pos == SelectInSeq(s, LAMBDA e : node.trig < e.trig)
    IN  InsertAt(s, IF pos = 0 THEN Len(s) + 1 ELSE pos, node)

InsertNode(slots, now, node) ==
    [slots EXCEPT ![LevelFor(node.trig - now)] = InsertSorted(@, node)]

InsertAll(slots, now, nodes) ==
    FoldLeft(LAMBDA acc, n : InsertNode(acc, now, n), slots, nodes)

(* The longest prefix of s whose elements satisfy Test.                      *)
PrefixLen(s, Test(_)) ==
    LET k == SelectInSeq(s, LAMBDA e : ~ Test(e)) IN IF k = 0 THEN Len(s) ELSE k - 1

(* timerCascade: nodes that have come within one unit move down.             *)
Stays(level, node, now) == node.trig > now /\ Num(level, node.trig - now) > 0

Cascade(slots, now, level) ==
    LET k     == PrefixLen(slots[level], LAMBDA n : ~ Stays(level, n, now))
        moved == SubSeq(slots[level], 1, k)
        rest  == SubSeq(slots[level], k + 1, Len(slots[level]))
    IN  InsertAll([slots EXCEPT ![level] = rest], now, moved)

(* timerUpdate: the hands after an advance of diff, and the highest level    *)
(* whose hand has moved, plus one.                                           *)
HandTime == FoldLeft(LAMBDA acc, l : acc + hand[l] * msLimit[l], 0, <<0, 1, 2, 3, 4>>)

Increment(diff) ==
    [l \in 0 .. 5 |-> CASE l = 4 -> diff \div msLimit[4]
                        [] l = 5 -> 0
                        [] OTHER -> (diff % msLimit[l + 1]) \div msLimit[l]]

CarryOne(acc, l) ==
    IF acc.inc[l] = 0 THEN acc
    ELSE LET h == acc.hand[l] + acc.inc[l]
         IN  [hand   |-> [acc.hand EXCEPT ![l] = h % Limit[l]],
              inc    |-> [acc.inc EXCEPT ![l + 1] = @ + h \div Limit[l]],
              maxIdx |-> l + 1]

Turned(diff) ==
    FoldLeft(CarryOne, [hand |-> hand, inc |-> Increment(diff), maxIdx |-> 0],
             <<0, 1, 2, 3, 4>>)

CascadeBelow(slots, now, maxIdx) ==
    FoldLeft(LAMBDA acc, l : IF l < maxIdx THEN Cascade(acc, now, l) ELSE acc,
             slots, <<1, 2, 3, 4>>)

-----------------------------------------------------------------------------
NoNode == [id |-> 0, trig |-> 0, loop |-> FALSE, period |-> 0]

Init ==
    /\ clock = 0 /\ gxTime = 0 /\ number = 0
    /\ hand = [l \in Levels |-> 0]
    /\ slot = [l \in Levels |-> <<>>]
    /\ timerQ = <<>> /\ nextID = 0 /\ resets = 0
    /\ timer = [i \in IDs |-> [st |-> "none", node |-> NoNode]]
    /\ loop = "top" /\ stop = "no" /\ leftTick = FALSE /\ panicked = FALSE
    /\ fired = <<>> /\ misses = 0 /\ deleted = {}

(* The loop enters its select: the channel operands are evaluated here.      *)
Select ==
    /\ loop = "top" /\ ~ panicked
    /\ loop' = IF stop = "done" THEN "selectNil" ELSE "select"
    /\ fired' = <<>>
    /\ UNCHANGED <<wheelVars, gxTime, queueVars, stopVars, misses, deleted>>

(* run: the due nodes of slot 0 are run and removed; the periodic ones whose *)
(* function returned nil are put back one period later.                      *)
Kept(due, failing) ==
    LET again == SelectSeq(due, LAMBDA n : n.loop /\ n.id \notin failing)
    IN  [i \in 1 .. Len(again) |-> [again[i] EXCEPT !.trig = @ + again[i].period]]

NumberAfterRun_errorsOnly(due, kept, failing) == number - Cardinality(failing)
NumberAfterRun(due, kept, failing) == number - (Len(due) - Len(kept))

Run(slots, now) ==
    LET k   == PrefixLen(slots[0], LAMBDA n : n.trig <= now)
        due == SubSeq(slots[0], 1, k)
    IN  \E failing \in SUBSET {due[i].id : i \in 1 .. k} :
            LET kept == Kept(due, failing)
            IN  /\ slot' = InsertAll([slots EXCEPT ![0] = SubSeq(@, k + 1, Len(@))],
                                     now, kept)
                /\ number' = NumberAfterRun(due, kept, failing)
                /\ fired' = due

(* A tick of time t: the wheel turns, nodes cascade, due nodes are run.      *)
TickActed(t) ==
    LET diff == t - HandTime
    IN  /\ diff >= Threshold
        /\ LET turned == Turned(diff)
           IN  /\ clock' = t
               /\ hand' = turned.hand
               /\ Run(CascadeBelow(slot, t, turned.maxIdx), t)
        /\ UNCHANGED <<misses, deleted>>

TickIgnored(t) ==
    /\ t - HandTime < Threshold
    /\ UNCHANGED <<wheelVars, histVars>>

(* The loop receives a tick; the wheel is left for good if it has no timer.  *)
Tick ==
    /\ loop \in {"select", "selectNil"} /\ ~ panicked
    /\ stop \in {"no", "closed"} \/ leftTick
    /\ leftTick' = FALSE
    /\ \E t \in {gxTime + d : d \in Jumps} :
           /\ t <= MaxTime
           /\ gxTime' = t
           /\ \/ number # 0 /\ (TickActed(t) \/ TickIgnored(t)) /\ loop' = "top"
              \/ number = 0 /\ loop' = "exited" /\ UNCHANGED <<wheelVars, histVars>>
    /\ UNCHANGED <<queueVars, stop, panicked>>

LevelOf(id) == {l \in Levels : \E n \in ToSet(slot[l]) : n.id = id}

Without(id) == [l \in Levels |-> SelectSeq(slot[l], LAMBDA n : n.id # id)]

(* deleteTimerNode, after the counter has been decremented.                  *)
DoDelete(id) ==
    /\ number' = number - 1
    /\ slot' = Without(id)
    /\ misses' = misses + (IF LevelOf(id) = {} THEN 1 ELSE 0)
    /\ deleted' = deleted \cup {id}
    /\ UNCHANGED <<clock, hand, fired>>

DoAdd(node) ==
    /\ number' = number + 1
    /\ slot' = InsertNode(slot, clock, node)
    /\ UNCHANGED <<clock, hand, histVars>>

(* resetTimerNode: as if the period had been the new one from the start.     *)
WithPeriod(n, period) == [n EXCEPT !.trig = @ - n.period + period, !.period = period]

DoReset(id, period) ==
    /\ slot' = IF LevelOf(id) = {} THEN slot
               ELSE LET n == CHOOSE m \in UNION {ToSet(slot[l]) : l \in Levels} : m.id = id
                    IN  InsertNode(Without(id), clock, WithPeriod(n, period))
    /\ UNCHANGED <<clock, hand, number, histVars>>

(* The loop receives an action from the channel it selected on.              *)
Receive ==
    /\ loop = "select" /\ timerQ # <<>> /\ ~ panicked
    /\ LET a == Head(timerQ)
       IN  \/ a.action = "ADD" /\ DoAdd(a.node)
           \/ a.action = "DEL" /\ DoDelete(a.node.id)
           \/ a.action = "RESET" /\ DoReset(a.node.id, a.node.period)
    /\ timerQ' = Tail(timerQ)
    /\ loop' = "top"
    /\ UNCHANGED <<gxTime, nextID, timer, resets, stopVars>>

ReceiveClosed ==
    /\ loop = "select" /\ timerQ = <<>> /\ stop # "no" /\ ~ panicked
    /\ loop' = "exited"
    /\ UNCHANGED <<wheelVars, gxTime, queueVars, stopVars, histVars>>

-----------------------------------------------------------------------------
(* The clients.                                                              *)

(* newTimerNode, in AddTimer: the trigger time is fixed before the send.     *)
NewTimerNode ==
    /\ nextID < MaxTimers /\ stop # "done" /\ ~ panicked
    /\ nextID' = nextID + 1
    /\ \E period \in Periods :
           timer' = [timer EXCEPT ![nextID + 1] =
               [st |-> "sending",
                node |-> [id |-> nextID + 1, trig |-> gxTime + period,
                          loop |-> period \in Loops, period |-> period]]]
    /\ UNCHANGED <<wheelVars, gxTime, timerQ, resets, loop, stopVars, histVars>>

(* A non-blocking send on timerQ: it panics on a closed channel, and finds   *)
(* no room in a full one or in the nil one that Stop leaves.                 *)
HasRoom == stop # "done" /\ Len(timerQ) < QueueSize

Enqueued_front(a) == <<a>> \o timerQ
Enqueued(a) == Append(timerQ, a)

TrySend(a) ==
    /\ panicked' = (stop \in {"closed", "tickerOff"})
    /\ timerQ' = IF HasRoom /\ ~ panicked' THEN Enqueued(a) ELSE timerQ

(* The rest of AddTimer: the caller gets a Timer or an error.                *)
AddTimer(i) ==
    /\ timer[i].st = "sending" /\ ~ panicked
    /\ TrySend([action |-> "ADD", node |-> timer[i].node])
    /\ timer' = [timer EXCEPT ![i] = [st |-> IF HasRoom THEN "live" ELSE "failed",
                                      node |-> NoNode]]
    /\ UNCHANGED <<wheelVars, gxTime, nextID, resets, loop, stop, leftTick, histVars>>

(* Timer.Stop: t.w is cleared also when the action could not be sent.        *)
StopTimer(i) ==
    /\ timer[i].st = "live" /\ ~ panicked
    /\ TrySend([action |-> "DEL", node |-> [NoNode EXCEPT !.id = i]])
    /\ timer' = [timer EXCEPT ![i].st = "stopped"]
    /\ UNCHANGED <<wheelVars, gxTime, nextID, resets, loop, stop, leftTick, histVars>>

ResetTimer(i) ==
    /\ timer[i].st = "live" /\ ~ panicked /\ resets < MaxResets
    /\ resets' = resets + 1
    /\ \E d \in Periods :
           TrySend([action |-> "RESET", node |-> [NoNode EXCEPT !.id = i, !.period = d]])
    /\ UNCHANGED <<wheelVars, gxTime, nextID, timer, loop, stop, leftTick, histVars>>

(* TimerWheel.Stop.                                                          *)
StopClose ==
    /\ stop = "no" /\ ~ panicked /\ gxTime <= LastStop
    /\ stop' = "closed"
    /\ UNCHANGED <<wheelVars, gxTime, queueVars, loop, leftTick, panicked, histVars>>

StopTicker ==
    /\ stop = "closed" /\ ~ panicked /\ stop' = "tickerOff"
    /\ leftTick' \in BOOLEAN
    /\ UNCHANGED <<wheelVars, gxTime, queueVars, loop, panicked, histVars>>

StopNil ==
    /\ stop = "tickerOff" /\ ~ panicked /\ stop' = "done"
    /\ UNCHANGED <<wheelVars, gxTime, queueVars, loop, leftTick, panicked, histVars>>

Next ==
    \/ Select \/ Tick \/ Receive \/ ReceiveClosed
    \/ NewTimerNode
    \/ \E i \in IDs : AddTimer(i) \/ StopTimer(i) \/ ResetTimer(i)
    \/ StopClose \/ StopTicker \/ StopNil

Spec == Init /\ [][Next]_vars

-----------------------------------------------------------------------------
Nodes == UNION {ToSet(slot[l]) : l \in Levels}

NodeType ==
    [id : IDs \cup {0}, trig : Int, loop : BOOLEAN, period : Periods \cup {0}]

(* The variables have the types the code declares, the queue keeps its bound *)
(* and the hands stay below the limits of their levels.                      *)
TypeOK ==
    /\ clock \in 0 .. gxTime /\ gxTime \in 0 .. MaxTime
    /\ number \in Int /\ misses \in Nat /\ deleted \subseteq IDs
    /\ \A l \in Levels : hand[l] \in 0 .. Limit[l] - 1
    /\ Nodes \cup ToSet(fired) \subseteq NodeType
    /\ Len(timerQ) <= QueueSize
    /\ nextID \in 0 .. MaxTimers
    /\ \A i \in IDs : timer[i].st \in {"none", "sending", "live", "failed", "stopped"}
    /\ loop \in {"top", "select", "selectNil", "exited"}
    /\ stop \in {"no", "closed", "tickerOff", "done"}

(* The wheel fires like one ordered set of timers: every tick that is acted  *)
(* on runs exactly the timers that are due, in the order of their trigger    *)
(* times, whichever slot list they were filed in and however many levels the *)
(* tick jumps over (timerUpdate, timerCascade, run).                         *)
TS == INSTANCE TimerSet WITH timers <- Nodes
ImplementsTimerSet == TS!Spec

(* w.number is the number of nodes in the slot lists, less the DEL_TIMER     *)
(* actions that found no node to delete: no other path loses count (ADD, run *)
(* with and without an error, re-arming, cascading, reset).  A loop that has  *)
(* ended on its own account leaves as many nodes behind as deletions missed, *)
(* and the hands stay below the limits of their levels.                      *)
NumberAccounts ==
    /\ TypeOK
    /\ number = Cardinality(Nodes) - misses
    /\ Cardinality(Nodes) = FoldLeft(LAMBDA n, l : n + Len(slot[l]), 0, <<0, 1, 2, 3, 4>>)
    /\ loop = "exited" /\ stop = "no" => Cardinality(Nodes) = misses

(* A timer whose Stop has been handled never fires again: no node of it is   *)
(* in a slot or still on its way in the queue, because all actions on one    *)
(* timer pass through one channel in the order they were issued.             *)
StoppedNeverFires ==
    \A i \in deleted :
        /\ \A n \in Nodes : n.id # i
        /\ \A k \in 1 .. Len(timerQ) :
               ~ (timerQ[k].action = "ADD" /\ timerQ[k].node.id = i)

(* "timer node number": the counter that decides whether the loop goes on is *)
(* the number of nodes in the slot lists.                                    *)
NumberIsTimerNodes == number = Cardinality(Nodes)
=============================================================================
