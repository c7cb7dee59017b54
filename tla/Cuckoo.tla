------------------------------- MODULE Cuckoo -------------------------------
(***************************************************************************)
(* container/hashtable/cuckoo.go: a table in which a key has two buckets   *)
(* of Slots slots, and in which Put moves keys to their other bucket to    *)
(* make room.  HashOf[k] is [i, tag]: the bits of the hash that give the   *)
(* first bucket and the tag.  MaxReach and MaxPathDepth are the code's     *)
(* MAX_REACH and MAX_PATH_DEPTH.  A slot is <<key, value>> or Free, and    *)
(* slots are numbered from 0 throughout the table.                         *)
(*                                                                         *)
(* ref.bag counts for each <<key, value>> how often it was put and not     *)
(* deleted; ref.stray says that a search ran past the end of its queue,    *)
(* and ref.open that the first one to do so had somewhere else to go.      *)
(***************************************************************************)
EXTENDS Integers, Sequences, FiniteSets, Bitwise
LOCAL INSTANCE SequencesExt

CONSTANTS Keys, Values, HashOf, Slots, HashPower, MaxReach, MaxPathDepth, MaxPuts

VARIABLES s, ref

Free == <<"free", 0>>
BucketNum == 2 ^ HashPower

NewTablePowerOfTwo == [storage |-> [x \in 0..BucketNum * Slots - 1 |-> Free], panic |-> FALSE]

Init == s = NewTablePowerOfTwo
        /\ ref = [bag |-> [p \in Keys \X Values |-> 0], puts |-> 0, stray |-> FALSE, open |-> FALSE]

\* tag * 0x5bd1e995, as far as the mask leaves it.
Offset(k) == ((HashOf[k].tag + 1) * (1540483477 % BucketNum)) % BucketNum
altIndex(bucket, k) == bucket ^^ Offset(k)
i1(k) == HashOf[k].i % BucketNum
i2(k) == altIndex(i1(k), k)

SlotsOf(bucket) == bucket * Slots..(bucket + 1) * Slots - 1
Lowest(S) == CHOOSE x \in S : \A y \in S : x <= y

\* The slot of the key, or -1.
tryBucketRead(k, bucket) ==
  LET at == {x \in SlotsOf(bucket) : s.storage[x][1] = k} IN IF at = {} THEN -1 ELSE Lowest(at)

\* The first free slot of the bucket, or -1.
hasSpace(bucket) ==
  LET at == {x \in SlotsOf(bucket) : s.storage[x] = Free} IN IF at = {} THEN -1 ELSE Lowest(at)

Place(k) == IF tryBucketRead(k, i1(k)) >= 0 THEN tryBucketRead(k, i1(k)) ELSE tryBucketRead(k, i2(k))

Get(k) == IF Place(k) < 0 THEN Free ELSE s.storage[Place(k)]

\* The queue of the search, of which only the first entries are filled in.
Entry(bucket, depth, parent, parentslot) ==
  [bucket |-> bucket, depth |-> depth, parent |-> parent, parentslot |-> parentslot]
Blank == Entry(0, 0, 1, 0)
At(queue, pos) == IF pos <= Len(queue) THEN queue[pos] ELSE Blank

SkipParent(ai, parentBucket) == ai = parentBucket

\* The children of the entry at pos, whose bucket is full.
Enqueued(queue, pos) ==
  LET e == At(queue, pos)
      parentBucket == At(queue, e.parent).bucket
      Child(q, i) ==
        LET ai == altIndex(e.bucket, s.storage[e.bucket * Slots + i][1])
        IN  IF Len(q) >= MaxReach \/ SkipParent(ai, parentBucket) THEN q
            ELSE Append(q, Entry(ai, e.depth + 1, pos, i))
  IN  FoldLeft(Child, queue, [i \in 1..Slots |-> i - 1])

\* The path from a root, at index 0, to the free slot where the search ended.
PathTo(queue, last, where) ==
  LET Up(st, i) ==
        LET e == At(queue, st.e.parent)
        IN  [e |-> e, path |-> [st.path EXCEPT ![e.depth] = e.bucket * Slots + st.e.parentslot]]
      start == [e |-> last, path |-> [d \in 0..MaxPathDepth - 1 |-> IF d = last.depth THEN where ELSE 0]]
  IN  FoldLeft(Up, start, [i \in 1..last.depth |-> i]).path

\* The result is the path and its depth, and whether the search had left the
\* queue.  A path longer than its array panics, and so does a failed search.
Failed == [depth |-> -1, stray |-> FALSE]

RECURSIVE slotSearchBFS(_, _, _)
slotSearchBFS(queue, pos, stray) ==
  IF pos > MaxReach THEN Failed
  ELSE LET e == At(queue, pos)
           where == hasSpace(e.bucket)
       IN  IF where < 0 THEN slotSearchBFS(Enqueued(queue, pos), pos + 1, stray \/ pos > Len(queue))
           ELSE IF e.depth >= MaxPathDepth THEN Failed
           ELSE [path |-> PathTo(queue, e, where), depth |-> e.depth,
                 stray |-> stray \/ pos > Len(queue)]

swap(storage, x, y) == [storage EXCEPT ![x] = storage[y], ![y] = storage[x]]

\* The swaps go from the end of the path to its beginning, which they free.
Shift(storage, path, depth) ==
  FoldLeft(LAMBDA st, i : swap(st, path[i], path[i - 1]), storage, [j \in 1..depth |-> depth - j + 1])

\* The key's buckets belong to full buckets whose pairs cannot leave them.
Closed(k) == \E B \in SUBSET (0..BucketNum - 1) :
  /\ {i1(k), i2(k)} \subseteq B
  /\ \A b \in B, x \in DOMAIN s.storage : x \in SlotsOf(b) =>
       LET j == s.storage[x][1] IN j \in Keys /\ {i1(j), i2(j)} \subseteq B

Counted(k, v) == ref' = [ref EXCEPT !.bag[<<k, v>>] = @ + 1, !.puts = @ + 1]

Put(k, v) ==
  /\ ~s.panic /\ ~ref.stray /\ ref.puts < MaxPuts
  /\ LET direct == IF hasSpace(i1(k)) >= 0 THEN hasSpace(i1(k)) ELSE hasSpace(i2(k)) IN
     IF direct >= 0
     THEN s' = [s EXCEPT !.storage[direct] = <<k, v>>] /\ Counted(k, v)
     ELSE \E r \in {slotSearchBFS(<<Entry(i1(k), 0, 1, 0), Entry(i2(k), 0, 1, 0)>>, 1, FALSE)} :
          IF r.depth < 0 THEN s' = [s EXCEPT !.panic = TRUE] /\ UNCHANGED ref
          ELSE /\ s' = [s EXCEPT !.storage = [Shift(@, r.path, r.depth) EXCEPT ![r.path[0]] = <<k, v>>]]
               /\ ref' = [ref EXCEPT !.bag[<<k, v>>] = @ + 1, !.puts = @ + 1,
                                     !.stray = @ \/ r.stray, !.open = @ \/ (~ref.stray /\ r.stray /\ ~Closed(k))]

Delete(k) ==
  /\ ~s.panic /\ ~ref.stray /\ Place(k) >= 0
  /\ s' = [s EXCEPT !.storage[Place(k)] = Free]
  /\ ref' = [ref EXCEPT !.bag[Get(k)] = @ - 1]

Next == \E k \in Keys : Delete(k) \/ \E v \in Values : Put(k, v)

(***************************************************************************)
(* What was put and not deleted is in the table as often as it was put,    *)
(* whatever the moves, and Get finds it: every pair stays in one of the    *)
(* two buckets of its key.  The exception is a search that ran past the    *)
(* end of its queue and took the blank entry there for bucket 0.  It only  *)
(* does where no move can make room; since Put stores a key again that is  *)
(* there already, putting one key often enough is such a case.             *)
(***************************************************************************)
KeysStayInTheirBuckets ==
  /\ ~ref.open
  /\ ~ref.stray =>
       /\ \A p \in Keys \X Values :
            ref.bag[p] = Cardinality({x \in DOMAIN s.storage : s.storage[x] = p})
       /\ \A x \in DOMAIN s.storage :
            LET k == s.storage[x][1] IN k \in Keys => x \div Slots \in {i1(k), i2(k)}
       /\ \A k \in Keys : (Get(k) = Free) = (\A v \in Values : ref.bag[<<k, v>>] = 0)
=============================================================================
