------------------------------ MODULE RWLock ------------------------------
(***************************************************************************)
(* What a readers-writer lock promises: at most one writer is inside, and  *)
(* never together with a reader.  Any set of blocked readers may be let in *)
(* at once.                                                                *)
(***************************************************************************)
CONSTANTS Writers, Readers

VARIABLES writing, reading    \* who is inside

Init == writing = {} /\ reading = {}

Lock(w) == /\ writing = {} /\ reading = {}
           /\ writing' = {w}
           /\ UNCHANGED reading

Unlock(w) == /\ writing = {w}
             /\ writing' = {}
             /\ UNCHANGED reading

RLock(rs) == /\ writing = {}
             /\ reading' = reading \cup rs
             /\ UNCHANGED writing

RUnlock(r) == /\ r \in reading
              /\ reading' = reading \ {r}
              /\ UNCHANGED writing

Next == \/ \E w \in Writers : Lock(w) \/ Unlock(w)
        \/ \E rs \in SUBSET Readers : RLock(rs)
        \/ \E r \in Readers : RUnlock(r)

Spec == Init /\ [][Next]_<<writing, reading>>
=============================================================================
