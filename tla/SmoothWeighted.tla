--------------------------- MODULE SmoothWeighted ---------------------------
(***************************************************************************)
(* sort/selector/smooth_weighted.go: smooth weighted round robin.  An item *)
(* is a record with the fields of weightedItem; its index is its position  *)
(* in s.items, from 1.  A caller keeps the index of what Next returned, in *)
(* s.held, and gives it back with Release, perhaps after RemoveAll.        *)
(*                                                                         *)
(* ref counts since the last Reset or RemoveAll: ref.chosen[i] is how      *)
(* often item i was chosen, ref.total the number of choices, ref.short the *)
(* weight that failures withheld, and ref.mixed whether an item was added  *)
(* after the first choice.                                                 *)
(***************************************************************************)
EXTENDS Integers, Sequences, FiniteSets
LOCAL INSTANCE SequencesExt

CONSTANTS Weights, MaxFails, MaxItems, MaxFailures, MaxCycles

VARIABLES s, ref

NewSW == [items |-> <<>>, totalWeight |-> 0, held |-> 0]

Fresh(n, failures) == [chosen |-> [i \in 1..n |-> 0], total |-> 0, short |-> 0, failures |-> failures, mixed |-> FALSE]

Init == s = NewSW /\ ref = Fresh(0, 0)

Item(w) == [Weight |-> w, CurrentWeight |-> 0, EffectiveWeight |-> w, FailedNumber |-> 0]

Add(w) ==
  /\ Len(s.items) < MaxItems
  /\ s' = [s EXCEPT !.items = Append(@, Item(w)), !.totalWeight = @ + w]
  /\ ref' = [ref EXCEPT !.chosen = Append(@, 0), !.mixed = @ \/ ref.total > 0]

RemoveAll ==
  /\ s' = [s EXCEPT !.items = <<>>, !.totalWeight = 0]
  /\ ref' = Fresh(0, ref.failures)

\* Reset leaves the numbers of failures as they are.
Reset ==
  /\ s' = [s EXCEPT !.items = [i \in DOMAIN @ |->
             [s.items[i] EXCEPT !.EffectiveWeight = s.items[i].Weight, !.CurrentWeight = 0]]]
  /\ ref' = Fresh(Len(s.items), ref.failures)

Penalised(it) ==
  LET fails == it.FailedNumber + 1
      less == it.EffectiveWeight - (it.Weight \div MaxFails + 1)
      left == IF fails > MaxFails THEN less ELSE it.EffectiveWeight
  IN  [it EXCEPT !.FailedNumber = fails, !.EffectiveWeight = IF left < 0 THEN 0 ELSE left]

\* An index that is out of range by now is ignored; one that is in range may
\* be that of another item.
Release(index, success) ==
  /\ success \/ ref.failures < MaxFailures
  /\ s' = [s EXCEPT !.held = 0,
             !.items = IF index > Len(@) THEN @
                       ELSE [@ EXCEPT ![index] = IF success THEN [@ EXCEPT !.FailedNumber = 0]
                                                 ELSE Penalised(@)]]
  /\ ref' = IF success THEN ref ELSE [ref EXCEPT !.failures = @ + 1]


\* The first of the items that are heaviest after their effective weights
\* have been added.
Raised(it) == [it EXCEPT !.CurrentWeight = @ + it.EffectiveWeight,
                         !.EffectiveWeight = IF @ < it.Weight THEN @ + 1 ELSE @]

Best(items) ==
  CHOOSE i \in DOMAIN items :
    /\ \A j \in DOMAIN items : items[j].CurrentWeight <= items[i].CurrentWeight
    /\ \A j \in 1..i - 1 : items[j].CurrentWeight < items[i].CurrentWeight

nextSmoothWeighted(items, total) ==
  LET raised == [i \in DOMAIN items |-> Raised(items[i])]
      best == Best(raised)
  IN  [best |-> best, items |-> [raised EXCEPT ![best].CurrentWeight = @ - total]]

\* The weights that are missing from what this round distributes.
Withheld(items) == FoldLeft(LAMBDA n, it : n + it.Weight - it.EffectiveWeight, 0, items)

\* With one item there is nothing to weigh.
SWNext ==
  /\ s.items # <<>> /\ (Len(s.items) = 1 \/ ref.total < MaxCycles * s.totalWeight)
  /\ LET r == IF Len(s.items) = 1 THEN [best |-> 1, items |-> s.items]
              ELSE nextSmoothWeighted(s.items, s.totalWeight)
     IN  /\ s' = [s EXCEPT !.items = r.items, !.held = r.best]
         /\ ref' = IF Len(s.items) = 1 THEN ref
                   ELSE [ref EXCEPT !.chosen[r.best] = @ + 1, !.total = @ + 1,
                                    !.short = @ + Withheld(s.items)]

Next ==
  \/ \E w \in Weights : Add(w)
  \/ RemoveAll \/ Reset \/ SWNext
  \/ \E index \in {s.held} \ {0}, success \in BOOLEAN : Release(index, success)

Sum(f) == FoldLeft(+, 0, f)

(***************************************************************************)
(* While nothing has failed and no item was added late, an item's current  *)
(* weight is its share of the choices made so far less what it received,   *)
(* so that each cycle of totalWeight choices gives every item exactly its  *)
(* weight, and it is never a full round ahead or behind.  With failures,   *)
(* the current weights together fall short, for good, of exactly what the  *)
(* failures withheld: the code takes the fixed sum of the weights from the *)
(* chosen item, not the sum of the effective weights that were given out,  *)
(* as the comment on weightedItem has it.  An effective weight stays       *)
(* between 0 and the weight, whoever it is that releases a stale index.    *)
(***************************************************************************)
SharesExact ==
  LET n == Len(s.items)
      W == s.totalWeight
  IN  /\ W = Sum([i \in 1..n |-> s.items[i].Weight])
      /\ Sum([i \in 1..n |-> s.items[i].CurrentWeight]) = -ref.short
      /\ \A i \in 1..n : LET it == s.items[i] IN
           /\ it.EffectiveWeight \in 0..it.Weight
           /\ ref.short = 0 /\ ~ref.mixed =>
                /\ it.CurrentWeight = ref.total * it.Weight - ref.chosen[i] * W
                /\ it.CurrentWeight \in -W..W
                /\ W > 0 /\ ref.total % W = 0 => ref.chosen[i] = it.Weight * (ref.total \div W)
=============================================================================
