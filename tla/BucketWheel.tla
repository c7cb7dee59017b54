---------------------------- MODULE BucketWheel ----------------------------
(***************************************************************************)
(* time/wheel.go: a ring of channels, one of which is closed on each tick. *)
(* After hands out the channel of a later bucket; the wheel's goroutine    *)
(* takes a channel under the lock and closes it outside.                   *)
(*                                                                         *)
(* Timeouts are counted in parts of a span, Parts to a span.  The ticker's *)
(* channel has room for one tick (s.tick); further ticks are dropped.      *)
(*                                                                         *)
(* ref.due[c] are the ticks at which the callers expect channel c closed,  *)
(* ref.closed the tick at which it was; ref.ticks counts handled ticks.    *)
(***************************************************************************)
EXTENDS Integers, Sequences, FiniteSets

CONSTANTS Buckets, Parts, MaxTicks, MaxChannels

VARIABLES s, ref

None == 0

Init == /\ s = [ring |-> [i \in 0..(Buckets - 1) |-> None], index |-> 0, tick |-> FALSE, notify |-> None,
                made |-> 0, stopped |-> FALSE]
        /\ ref = [ticks |-> 0, due |-> [c \in 1..MaxChannels |-> {}], closed |-> [c \in 1..MaxChannels |-> 0]]

TimePasses == ~s.stopped /\ s' = [s EXCEPT !.tick = TRUE] /\ UNCHANGED ref

\* The goroutine's work under the lock.
NextIndex(i) == (i + 1) % Buckets
Tick ==
  /\ s.tick /\ s.notify = None /\ ref.ticks < MaxTicks
  /\ s' = [s EXCEPT !.tick = FALSE, !.notify = s.ring[s.index], !.ring[s.index] = None, !.index = NextIndex(@)]
  /\ ref' = [ref EXCEPT !.ticks = @ + 1]

\* Closing a channel twice would panic.
Close ==
  /\ s.notify # None
  /\ s' = [s EXCEPT !.notify = None]
  /\ ref' = [ref EXCEPT !.closed[s.notify] = IF @ = 0 THEN ref.ticks ELSE -1]

Offset(timeout) == LET pos == timeout \div Parts IN IF 0 < pos THEN pos - 1 ELSE pos

After(timeout) ==
  LET pos == (s.index + Offset(timeout)) % Buckets
      new == s.ring[pos] = None
      c == IF new THEN s.made + 1 ELSE s.ring[pos]
      spans == timeout \div Parts
  IN
  /\ timeout < Buckets * Parts
  /\ c <= MaxChannels
  /\ s' = [s EXCEPT !.ring[pos] = c, !.made = IF new THEN c ELSE @]
  /\ ref' = [ref EXCEPT !.due[c] = @ \cup {ref.ticks + (IF spans < 1 THEN 1 ELSE spans)}]

\* Stop ends the ticks; the goroutine waits for ever.
Stop == ~s.stopped /\ s' = [s EXCEPT !.stopped = TRUE] /\ UNCHANGED ref

Next ==
  \/ TimePasses \/ Tick \/ Close \/ Stop
  \/ \E timeout \in 0..(Buckets * Parts) : After(timeout)

-----------------------------------------------------------------------------
(***************************************************************************)
(* A channel is closed once, at the tick its callers are due: the first    *)
(* tick after After, or for a timeout of n >= 1 spans, rounded down, the   *)
(* n-th.  Until then it is in the ring, in the bucket of that tick, also   *)
(* when After comes between the taking and the closing of a channel.       *)
(***************************************************************************)
ClosedWhenDue ==
  \A c \in 1..s.made :
    /\ Cardinality(ref.due[c]) = 1
    /\ \A d \in ref.due[c] :
         \/ ref.closed[c] = d
         \/ ref.closed[c] = 0 /\ s.notify = c /\ d = ref.ticks
         \/ /\ ref.closed[c] = 0 /\ d > ref.ticks
            /\ s.ring[(s.index + (d - ref.ticks - 1)) % Buckets] = c
=============================================================================
