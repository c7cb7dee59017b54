------------------------------ MODULE XorList ------------------------------
(***************************************************************************)
(* container/xorlist/xorlist.go: a doubly linked list whose elements store *)
(* the exclusive or of the addresses of their neighbours.                  *)
(*                                                                         *)
(* An address is an element of Nodes (or a sentinel), and an exclusive or  *)
(* of addresses is the set of those that occur an odd number of times, so  *)
(* ^ is the symmetric difference and nil is {}.  This holds for any        *)
(* addresses of which no few cancel by accident.                           *)
(*                                                                         *)
(* s.pn and s.val are the fields of the elements, s.len the length; ref is *)
(* the sequence of elements that the caller believes to be in the list.    *)
(***************************************************************************)
EXTENDS Integers, Sequences, FiniteSetsExt

LOCAL INSTANCE SequencesExt

CONSTANTS MaxNodes, Values

VARIABLES s, ref

Nodes == 1..MaxNodes
head == 0
tail == MaxNodes + 1
nil == -1

uptr(p) == IF p = nil THEN {} ELSE {p}
ptr(u) == IF u = {} THEN nil ELSE CHOOSE p \in u : u = {p}
Xor(a, b) == SymDiff(a, b)

\* XorElement.Next and Prev are the same walk: the neighbour of e that is not
\* from, or nil if that is a sentinel.
Beyond(l, e, from) ==
  LET n == ptr(Xor(uptr(from), l.pn[e])) IN
  IF l.pn[e] = {} \/ n = nil THEN nil
  ELSE IF l.pn[n] = uptr(e) THEN nil ELSE n

elNext(l, e, prev) == Beyond(l, e, prev)
elPrev(l, e, next) == Beyond(l, e, next)

NewList == [pn |-> [n \in head..tail |-> IF n = head THEN {tail} ELSE IF n = tail THEN {head} ELSE {}],
            val |-> [n \in Nodes |-> Min(Values)], len |-> 0]

FrontOf(l) == IF l.len = 0 THEN nil ELSE ptr(l.pn[head])
BackOf(l) == IF l.len = 0 THEN nil ELSE ptr(l.pn[tail])

insert(l, e, prev, next) ==
  [l EXCEPT !.pn[e] = Xor(uptr(prev), uptr(next)),
            !.pn[prev] = Xor(@, {next, e}),
            !.pn[next] = Xor(@, {prev, e}),
            !.len = @ + 1]

\* A new element; the ones that were removed are garbage.
Fresh(l) == {n \in Nodes : l.pn[n] = {}}
insertValue(l, v, prev, next) ==
  LET e == Min(Fresh(l)) IN insert([l EXCEPT !.val[e] = v], e, prev, next)

remove(l, e, prev, next) ==
  [l EXCEPT !.pn[prev] = Xor(@, {e, next}),
            !.pn[next] = Xor(@, {e, prev}),
            !.pn[e] = {},
            !.len = @ - 1]

\* prev and next look for e from one end of the list: the element before it on
\* that way, or nil.
Search(l, e, from) ==
  LET walk[k \in 0..MaxNodes + 1] ==
        IF k = 0 THEN [before |-> from, cur |-> Beyond(l, from, nil)]
        ELSE LET w == walk[k - 1] IN
             IF w.cur \in {nil, e} THEN w
             ELSE [before |-> w.cur, cur |-> Beyond(l, w.cur, w.before)]
      end == walk[MaxNodes + 1]
  IN  IF end.cur = e THEN end.before ELSE nil

prevOf(l, e) == Search(l, e, head)
nextOf(l, e) == Search(l, e, tail)

\* e.Next(prev), with the sentinel for nil.
NextOrTail_nil(l, e, prev) == LET n == elNext(l, e, prev) IN IF n = nil THEN head ELSE n
NextOrTail(l, e, prev) == LET n == elNext(l, e, prev) IN IF n = nil THEN tail ELSE n

\* The list without e.
Unlinked(l, e) == LET p == prevOf(l, e) IN remove(l, e, p, NextOrTail(l, e, p))

RemoveElement(l, e) == IF prevOf(l, e) = nil THEN l ELSE Unlinked(l, e)

PushFront(l, v) == insertValue(l, v, head, ptr(l.pn[head]))
PushBack(l, v) == insertValue(l, v, ptr(l.pn[tail]), tail)

InsertBefore(l, v, mark) ==
  LET prev == prevOf(l, mark) IN IF prev = nil THEN l ELSE insertValue(l, v, prev, mark)

InsertAfter(l, v, mark) ==
  LET next == nextOf(l, mark) IN IF next = nil THEN l ELSE insertValue(l, v, mark, next)

MoveToFront(l, e) ==
  IF prevOf(l, e) = nil THEN l
  ELSE LET u == Unlinked(l, e) IN insert(u, e, head, ptr(u.pn[head]))

MoveToBack(l, e) ==
  IF prevOf(l, e) = nil THEN l
  ELSE LET u == Unlinked(l, e) IN insert(u, e, ptr(u.pn[tail]), tail)

Movable(l, e, mark) == e # mark /\ prevOf(l, mark) # nil /\ prevOf(l, e) # nil

MoveBefore(l, e, mark) ==
  IF ~Movable(l, e, mark) THEN l
  ELSE LET u == Unlinked(l, e) IN insert(u, e, prevOf(u, mark), mark)

MoveAfter(l, e, mark) ==
  IF ~Movable(l, e, mark) THEN l
  ELSE LET u == Unlinked(l, e) IN insert(u, e, mark, nextOf(u, mark))

\* PushBackList and PushFrontList of the list itself: the walk is bounded by the
\* length at the beginning.
PushBackList(l) ==
  LET step(acc, i) == [l |-> PushBack(acc.l, acc.l.val[acc.e]),
                       e |-> elNext(PushBack(acc.l, acc.l.val[acc.e]), acc.e, acc.p), p |-> acc.e]
  IN  FoldLeft(step, [l |-> l, e |-> FrontOf(l), p |-> head], [i \in 1..l.len |-> i]).l

PushFrontList(l) ==
  LET step(acc, i) == [l |-> PushFront(acc.l, acc.l.val[acc.e]),
                       e |-> elPrev(PushFront(acc.l, acc.l.val[acc.e]), acc.e, acc.n), n |-> acc.e]
  IN  FoldLeft(step, [l |-> l, e |-> BackOf(l), n |-> tail], [i \in 1..l.len |-> i]).l

-----------------------------------------------------------------------------
Init == s = NewList /\ ref = <<>>

\* What the caller expects of its sequence of elements with their values: is e
\* there, where, the sequence without it, and the elements that are new in l.
In(q, e) == \E i \in 1..Len(q) : q[i][1] = e
At(q, e) == CHOOSE i \in 1..Len(q) : q[i][1] = e
Without(q, e) == SelectSeq(q, LAMBDA x : x[1] # e)
Valued(q, nodes) == [i \in 1..Len(q) |-> <<nodes[i], q[i][2]>>]
NewNodes(q, l) == SetToSortSeq({n \in Nodes : l.pn[n] # {} /\ ~In(q, n)}, LAMBDA a, b : a < b)

Next ==
  \/ \E v \in Values :
       LET x == <<Min(Fresh(s)), v>> IN
       /\ Fresh(s) # {}
       /\ \/ s' = PushFront(s, v) /\ ref' = <<x>> \o ref
          \/ s' = PushBack(s, v) /\ ref' = Append(ref, x)
          \/ \E m \in Nodes : \/ /\ s' = InsertBefore(s, v, m)
                                 /\ ref' = IF In(ref, m) THEN InsertAt(ref, At(ref, m), x) ELSE ref
                              \/ /\ s' = InsertAfter(s, v, m)
                                 /\ ref' = IF In(ref, m) THEN InsertAt(ref, At(ref, m) + 1, x) ELSE ref
  \/ \E e \in Nodes :
       \/ s' = RemoveElement(s, e) /\ ref' = Without(ref, e)
       \/ /\ s' = MoveToFront(s, e)
          /\ ref' = IF In(ref, e) THEN <<ref[At(ref, e)]>> \o Without(ref, e) ELSE ref
       \/ /\ s' = MoveToBack(s, e)
          /\ ref' = IF In(ref, e) THEN Append(Without(ref, e), ref[At(ref, e)]) ELSE ref
  \/ \E e, m \in Nodes :
       LET both == In(ref, e) /\ In(ref, m) /\ e # m
           rest == Without(ref, e)
           x == ref[At(ref, e)]
       IN  \/ s' = MoveBefore(s, e, m) /\ ref' = IF both THEN InsertAt(rest, At(rest, m), x) ELSE ref
           \/ s' = MoveAfter(s, e, m) /\ ref' = IF both THEN InsertAt(rest, At(rest, m) + 1, x) ELSE ref
  \/ /\ 2 * s.len <= MaxNodes
     /\ \/ s' = PushBackList(s) /\ ref' = ref \o Valued(ref, NewNodes(ref, s'))
        \/ s' = PushFrontList(s) /\ ref' = Valued(ref, Reverse(NewNodes(ref, s'))) \o ref

\* The elements along Next from the front, and along Prev from the back.
Walk(l, first, end) ==
  LET w[k \in 1..l.len] == IF k = 1 THEN <<first>>
                           ELSE Append(w[k - 1], Beyond(l, w[k - 1][k - 1], IF k = 2 THEN end ELSE w[k - 1][k - 2]))
  IN  IF l.len = 0 THEN <<>> ELSE w[l.len]

(***************************************************************************)
(* Walking the list from either end meets the elements that the caller     *)
(* inserted, in their order, and ends behind the last; an element that was *)
(* removed, or moved next to its own neighbour, leaves no link behind.     *)
(***************************************************************************)
BothWalksAgree ==
  LET q == [i \in 1..Len(ref) |-> ref[i][1]] IN
  /\ s.len = Len(ref)
  /\ Walk(s, FrontOf(s), head) = q
  /\ Walk(s, BackOf(s), tail) = Reverse(q)
  /\ \A i \in 1..Len(q) :
       /\ s.val[q[i]] = ref[i][2]
       /\ prevOf(s, q[i]) = IF i = 1 THEN head ELSE q[i - 1]
       /\ nextOf(s, q[i]) = IF i = Len(q) THEN tail ELSE q[i + 1]
=============================================================================
