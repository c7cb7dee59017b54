----------------------------- MODULE DequeOps -----------------------------
(***************************************************************************)
(* Every sequence of calls on a gxdeque.Deque, next to the sequence of     *)
(* items a caller believes it holds.                                       *)
(***************************************************************************)
EXTENDS Deque, FiniteSets

CONSTANTS Values,      \* what callers push
          MaxLens,     \* the limits NewWithMaxLen is called with
          MaxItems     \* bound on the length of the deque

VARIABLES d, items

dequeVars == <<d, items>>

DequeInit == \E m \in MaxLens : d = NewWithMaxLen(m) /\ items = <<>>

CallPushBack(v) ==
  /\ Len(items) < MaxItems
  /\ d' = PushBack(d, v)
  /\ items' = IF Len(items) = d.maxLen /\ d.maxLen > 0
              THEN Append(Tail(items), v) ELSE Append(items, v)

CallPushFront(v) ==
  /\ Len(items) < MaxItems
  /\ d' = PushFront(d, v)
  /\ items' = IF Len(items) = d.maxLen /\ d.maxLen > 0
              THEN <<v>> \o Front(items) ELSE <<v>> \o items

CallPopBack ==
  /\ items # <<>> /\ items' = Front(items)
  /\ d' = PopBack(d)

CallPopFront ==
  /\ items # <<>> /\ items' = Tail(items)
  /\ d' = PopFront(d)

DequeNext == \/ \E v \in Values : CallPushBack(v) \/ CallPushFront(v)
        \/ CallPopBack \/ CallPopFront

DequeSpec == DequeInit /\ [][DequeNext]_dequeVars

DequeTypeOK ==
  /\ d.blocks \in Seq([0 .. BlockLen - 1 -> Values \cup {Nil}])
  /\ d.frontIdx \in 0 .. BlockLen /\ d.backIdx \in -1 .. BlockLen - 1
  /\ d.len = Len(items) /\ items \in Seq(Values)

\* The deque holds exactly the items pushed and not yet popped, in order, both
\* ends peek at the right one, and an overfull deque dropped "an item from the
\* opposing side" (deque.go, NewWithMaxLen).  "Edge blocks are removed when
\* blocks become empty", "only the front and back blocks may contain less than
\* blockLen items", and no cell outside the indexes keeps a popped item
\* reachable.
BehavesAsSequence ==
  /\ DequeTypeOK
  /\ Items(d) = items
  /\ items # <<>> => PeekFront(d) = Head(items) /\ PeekBack(d) = Last(items)
  /\ Len(d.blocks) > 1 =>
       /\ d.frontIdx < BlockLen /\ d.backIdx > -1
       /\ d.len >= (Len(d.blocks) - 2) * BlockLen + 2
  /\ Cardinality({i \in DOMAIN Cells(d) : Cells(d)[i] # Nil}) = d.len
=============================================================================
