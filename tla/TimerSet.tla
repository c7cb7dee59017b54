------------------------------ MODULE TimerSet ------------------------------
(* What a timer service promises, with no wheels: a set of armed timers and  *)
(* a clock.  When the clock moves to t every timer whose trigger time has    *)
(* come fires, in the order of the trigger times, and no other timer does.   *)
(* A periodic timer whose function succeeded is armed again one period after *)
(* the time it was due; every other timer that fires is gone.                *)
EXTENDS Integers, Sequences, FiniteSets, SequencesExt

VARIABLES
    timers,     \* the armed timers: records with id, trig, loop, period
    clock,      \* the time of the last tick that was acted on
    fired       \* the timers that tick fired, in order, until all have returned

vars == <<timers, clock, fired>>

Due(t) == {n \in timers : n.trig <= t}

Rearmed(n) == [n EXCEPT !.trig = @ + n.period]

InTrigOrder(s) == \A i, j \in 1 .. Len(s) : i < j => s[i].trig <= s[j].trig

Init == timers = {} /\ clock \in Int /\ fired = <<>>

(* Time passes: exactly the due timers fire, the functions in `failing'      *)
(* return an error.                                                          *)
Fire(t) ==
    /\ t > clock
    /\ clock' = t
    /\ ToSet(fired') = Due(t) /\ Len(fired') = Cardinality(Due(t))
    /\ InTrigOrder(fired')
    /\ \E failing \in SUBSET Due(t) :
           timers' = (timers \ Due(t))
                       \cup {Rearmed(n) : n \in {m \in Due(t) \ failing : m.loop}}

Return == fired' = <<>> /\ UNCHANGED <<timers, clock>>

Arm ==
    /\ \E n \in timers' : timers' = timers \cup {n} /\ \A m \in timers : m.id # n.id
    /\ UNCHANGED <<clock, fired>>

Disarm ==
    /\ \E n \in timers : timers' = timers \ {n}
    /\ UNCHANGED <<clock, fired>>

(* The period is changed as if it had been the new one from the start.       *)
Reset ==
    /\ \E n \in timers, m \in timers' :
           /\ m = [n EXCEPT !.period = m.period, !.trig = @ - n.period + m.period]
           /\ timers' = (timers \ {n}) \cup {m}
    /\ UNCHANGED <<clock, fired>>

Next == (\E t \in {clock'} : Fire(t)) \/ Return \/ Arm \/ Disarm \/ Reset

Spec == Init /\ [][Next]_vars
=============================================================================
