---------------------------- MODULE Collections ----------------------------
(***************************************************************************)
(* The small collections of container/: the queue of queue/queue.go, a     *)
(* ring that doubles and halves; the bits of bitmap/bitmap.go; and the set *)
(* of set/internal/set/set.go, from which the typed sets are generated.    *)
(*                                                                         *)
(* A set of floats may get NaN, which no key of the map equals: every Add  *)
(* makes a new entry, which can be visited but not found or deleted.  A    *)
(* set is therefore its ordinary items and a number of entries NaN; for    *)
(* the other element types that number is always 0.                        *)
(***************************************************************************)
EXTENDS Integers, Sequences, FiniteSets

CONSTANTS minQueueLen, QueueSizes, MaxQueue, BitSizes, Positions, Items, MaxNaN

VARIABLES s, ref

\* Queue. The buffer is numbered from 0, as in the source.
NewQueueWithSize(size) == [buf |-> [i \in 0..(size - 1) |-> 0], head |-> 0, tail |-> 0, count |-> 0]
Size(q) == Cardinality(DOMAIN q.buf)
Wrap(q, i) == i % Size(q)

\* The cells that resize copies, in order: head to tail, or around the end.
Cells(q) ==
  IF q.tail > q.head THEN [i \in 0..(q.tail - q.head - 1) |-> q.buf[q.head + i]]
  ELSE LET n == Size(q) - q.head
       IN  [i \in 0..(n + q.tail - 1) |-> IF i < n THEN q.buf[q.head + i] ELSE q.buf[i - n]]

resize(q) ==
  [buf |-> [i \in 0..(2 * q.count - 1) |-> IF i \in DOMAIN Cells(q) THEN Cells(q)[i] ELSE 0],
   head |-> 0, tail |-> q.count, count |-> q.count]

Add(q, x) ==
  LET r == IF q.count = Size(q) THEN resize(q) ELSE q
  IN  [r EXCEPT !.buf[r.tail] = x, !.tail = Wrap(r, @ + 1), !.count = @ + 1]

Peek(q) == q.buf[q.head]
Get(q, i) == q.buf[Wrap(q, q.head + (IF i < 0 THEN i + q.count ELSE i))]

RemoveFirst(q) ==
  LET r == [q EXCEPT !.buf[q.head] = 0, !.head = Wrap(q, @ + 1), !.count = @ - 1]
  IN  IF Size(r) > minQueueLen /\ 4 * r.count = Size(r) THEN resize(r) ELSE r

QueueInit == \E n \in QueueSizes : s = NewQueueWithSize(n) /\ ref = <<>>
QueueNext ==
  \/ /\ Len(ref) < MaxQueue
     /\ \E x \in {1, 2} : s' = Add(s, x) /\ ref' = Append(ref, x)
  \/ ref # <<>> /\ s' = RemoveFirst(s) /\ ref' = Tail(ref)

(***************************************************************************)
(* Through doubling and halving, at any position of head and tail, the     *)
(* queue holds what was added, in order; Get counts from either end; the   *)
(* unused cells hold nothing; the size stays a power of two.               *)
(***************************************************************************)
QueueKeepsOrder ==
  /\ s.count = Len(ref) /\ s.count <= Size(s) /\ Size(s) \in {1, 2, 4, 8, 16}
  /\ ref # <<>> => Peek(s) = Head(ref)
  /\ \A i \in 1..Len(ref) : Get(s, i - 1) = ref[i] /\ Get(s, i - 1 - Len(ref)) = ref[i]
  /\ Cardinality({i \in DOMAIN s.buf : s.buf[i] # 0}) = s.count

-----------------------------------------------------------------------------
\* Bitmap. A byte is the set of its bits that are 1.
NewBitmap(size) ==
  LET n == (size \div 8) + (IF size % 8 # 0 THEN 1 ELSE 0)
  IN  [data |-> [i \in 0..(n - 1) |-> {}], size |-> 8 * n]
Rejected(b, pos) == pos > b.size \/ pos < 0
\* The index is beyond the data.
Panics(b, pos) == ~Rejected(b, pos) /\ (pos \div 8) \notin DOMAIN b.data
Set(b, pos) == IF Rejected(b, pos) THEN b ELSE [b EXCEPT !.data[pos \div 8] = @ \cup {pos % 8}]
Clear(b, pos) == IF Rejected(b, pos) THEN b ELSE [b EXCEPT !.data[pos \div 8] = @ \ {pos % 8}]
GetBit(b, pos) == IF Rejected(b, pos) THEN 0 ELSE IF (pos % 8) \in b.data[pos \div 8] THEN 1 ELSE 0

BitInit == \E n \in BitSizes : s = NewBitmap(n) /\ ref = {}
BitNext ==
  \E pos \in Positions :
    /\ ~Panics(s, pos)
    /\ \/ s' = Set(s, pos) /\ ref' = IF pos \in 0..(s.size - 1) THEN ref \cup {pos} ELSE ref
       \/ s' = Clear(s, pos) /\ ref' = ref \ {pos}

(***************************************************************************)
(* The bits are those set and not cleared since, each by itself, and the   *)
(* only position at which the bitmap panics instead of refusing is the one *)
(* just after its last bit.                                                *)
(***************************************************************************)
BitsAreASet ==
  /\ \A pos \in 0..(s.size - 1) : GetBit(s, pos) = 1 <=> pos \in ref
  /\ \A pos \in Positions : Panics(s, pos) <=> pos = s.size

-----------------------------------------------------------------------------
\* Set: s.a and s.b are two sets, NaN an item like others to their callers.
NaN == "NaN"
NewSet == [m |-> {}, nan |-> 0]
AddItem(t, x) == IF x = NaN THEN [t EXCEPT !.nan = @ + 1] ELSE [t EXCEPT !.m = @ \cup {x}]
RemoveItem(t, x) == [t EXCEPT !.m = @ \ {x}]
Has(t, x) == x \in t.m
SizeOf(t) == Cardinality(t.m) + t.nan
Each(t) == t.m \cup (IF t.nan > 0 THEN {NaN} ELSE {})
IsEqual(t, u) == SizeOf(t) = SizeOf(u) /\ \A x \in Each(u) : Has(t, x)
IsSubset(t, u) == SizeOf(u) <= SizeOf(t) /\ \A x \in Each(u) : Has(t, x)
IsSuperset(t, u) == IsSubset(u, t)
Copy(t) == t
Merge(t, u) == [m |-> t.m \cup u.m, nan |-> t.nan + u.nan]
Separate(t, u) == [t EXCEPT !.m = @ \ u.m]
Union(t, u) == Merge(Copy(t), u)
Difference(t, u) == Separate(Copy(t), u)
\* What is not in both is removed from the union, as far as it can be.
Intersection(t, u) == [Union(t, u) EXCEPT !.m = {x \in @ : Has(t, x) /\ Has(u, x)}]
SymmetricDifference(t, u) == Union(Difference(t, u), Difference(u, t))

SetInit == s = [a |-> NewSet, b |-> NewSet] /\ ref = [a |-> {}, b |-> {}]
SetNext ==
  \/ \E x \in Items :
       /\ x = NaN => s.a.nan < MaxNaN
       /\ s' = [s EXCEPT !.a = AddItem(@, x)] /\ ref' = [ref EXCEPT !.a = @ \cup {x}]
  \/ \E x \in Items : s' = [s EXCEPT !.a = RemoveItem(@, x)] /\ ref' = [ref EXCEPT !.a = @ \ ({x} \ {NaN})]
  \* Pop deletes the item it returns, if it can.
  \/ \E x \in Each(s.a) : s' = [s EXCEPT !.a = RemoveItem(@, x)] /\ ref' = [ref EXCEPT !.a = @ \ ({x} \ {NaN})]
  \/ s' = [s EXCEPT !.a = NewSet] /\ ref' = [ref EXCEPT !.a = {}]
  \/ s' = [s EXCEPT !.b = Copy(s.a)] /\ ref' = [ref EXCEPT !.b = ref.a]
  \/ /\ s.a.nan + s.b.nan <= MaxNaN
     /\ s' = [s EXCEPT !.a = Merge(@, s.b)] /\ ref' = [ref EXCEPT !.a = @ \cup ref.b]
  \/ s' = [s EXCEPT !.a = Separate(@, s.b)] /\ ref' = [ref EXCEPT !.a = @ \ (ref.b \ {NaN})]

(***************************************************************************)
(* Without NaN the sets are sets: equality, inclusion, union, difference   *)
(* and intersection as in mathematics.  With NaN they are so for the other *)
(* items, but no set with NaN equals its copy or is a subset of anything,  *)
(* difference keeps the entries of the first set, and intersection those   *)
(* of either, though its comment promises items that exist in all sets.    *)
(***************************************************************************)
SetsAreSets ==
  LET a == s.a
      b == s.b
      pure == a.nan + b.nan = 0
  IN
  /\ Each(a) = ref.a /\ Each(b) = ref.b
  /\ Union(a, b).m = (ref.a \cup ref.b) \ {NaN}
  /\ Intersection(a, b).m = (ref.a \cap ref.b) \ {NaN}
  /\ Difference(a, b).m = (ref.a \ ref.b) \ {NaN}
  /\ SymmetricDifference(a, b).m = ((ref.a \ ref.b) \cup (ref.b \ ref.a)) \ {NaN}
  /\ pure => /\ IsEqual(a, b) <=> ref.a = ref.b
             /\ IsSubset(a, b) <=> ref.b \subseteq ref.a
             /\ IsSuperset(a, b) <=> ref.a \subseteq ref.b
  /\ a.nan > 0 => ~IsEqual(a, Copy(a)) /\ ~IsSubset(b, a)
  /\ Difference(a, b).nan = a.nan /\ Intersection(a, b).nan = a.nan + b.nan
=============================================================================
