---------------------------- MODULE PointerRing ----------------------------
(***************************************************************************)
(* PointerRingBuf of container/ring/pbuf.go, the ring buffer of RingBuf    *)
(* with one array in place of two, and Ring of bounded_ring.go, the ring   *)
(* that keeps one cell free to tell full from empty.  A PointerRingBuf is  *)
(* a record like RingBuf's with a single array, always in use; a Ring has  *)
(* the fields of its own struct.                                           *)
(***************************************************************************)
EXTENDS Integers, Sequences

CONSTANTS Sizes, Inputs

VARIABLES s, ref

R == INSTANCE RingBuf

NewPointerRingBuf(n) ==
  [A |-> <<[i \in 1..n |-> 0]>>, Use |-> 0, N |-> n, Beg |-> 0, Readable |-> 0]

TwoContig(b) == R!BytesTwo(b)

ReadWithoutAdvance(b, n) == R!ReadWithoutAdvance(b, n)

Advance(b, n) == R!Advance(b, n)

readAndMaybeAdvance(b, n) == Advance(b, Len(ReadWithoutAdvance(b, n)))

WritePtrs(b, p) == R!Write(b, p)

Push(b, p) == R!Write(b, p)

PushAndMaybeOverwriteOldestData(b, p) ==
  LET room == Advance(b, Len(p) - (b.N - b.Readable))
      startPos == IF Len(p) > b.N THEN Len(p) - b.N ELSE 0
  IN  Push(room, SubSeq(p, startPos + 1, Len(p))).b

PtrReset(b) == [b EXCEPT !.Beg = 0, !.Readable = 0]

Adopt(b, me) ==
  LET n == Len(me)
      old == b.A[1]
      kept == IF n > b.N THEN me ELSE me \o SubSeq(old, n + 1, b.N)
  IN  [b EXCEPT !.A = <<kept>>, !.N = Len(kept), !.Beg = 0, !.Readable = n]

Init == \E n \in Sizes : s = NewPointerRingBuf(n) /\ ref = <<>>

Rest(n) == SubSeq(ref, n + 1, Len(ref))

Next ==
  \/ \E n \in 0..3 : \/ s' = Advance(s, n) /\ ref' = Rest(n)
                     \/ s' = readAndMaybeAdvance(s, n) /\ ref' = Rest(Len(ReadWithoutAdvance(s, n)))
  \/ \E p \in Inputs :
       \/ s' = WritePtrs(s, p).b /\ ref' = ref \o SubSeq(p, 1, WritePtrs(s, p).n)
       \/ s' = Push(s, p).b /\ ref' = ref \o SubSeq(p, 1, Push(s, p).n)
       \/ s' = PushAndMaybeOverwriteOldestData(s, p)
          /\ ref' = LET all == ref \o p IN SubSeq(all, Len(all) - R!intMin(Len(all), s.N) + 1, Len(all))
       \/ s' = Adopt(s, p) /\ ref' = p
  \/ s' = PtrReset(s) /\ ref' = <<>>

(***************************************************************************)
(* Reads of any length and the two slices of TwoContig show the pointers   *)
(* the caller expects.                                                     *)
(***************************************************************************)
ShowsContents ==
  /\ Len(ref) = s.Readable
  /\ TwoContig(s)[1] \o TwoContig(s)[2] = ref
  /\ \A n \in 0..3 : ReadWithoutAdvance(s, n) = SubSeq(ref, 1, R!intMin(n, Len(ref)))

-----------------------------------------------------------------------------
(* Ring of bounded_ring.go. *)

NewRing(capacity) == [buffer |-> [i \in 1..capacity |-> 0], capacity |-> capacity, begin |-> 0, end |-> 0]

Size(b) == (b.end + b.capacity - b.begin) % b.capacity
Empty(b) == Size(b) = 0
Full(b) == Size(b) + 1 = b.capacity
FreeSize(b) == b.capacity - Size(b) - 1

\* Go's copy(buffer[at:], data): what does not fit is dropped.
Copied(buffer, at, data) ==
  [i \in 1..Len(buffer) |-> IF i - at \in 1..Len(data) THEN data[i - at] ELSE buffer[i]]

Refused(b, data) == Size(b) + Len(data) >= b.capacity

Stored(b, data) ==
  LET size == Len(data)
      tail == Copied(b.buffer, b.end, data)
      rest == SubSeq(data, b.capacity - b.end + 1, size)
      wraps == b.end >= b.begin /\ b.capacity - b.end < size
  IN  [b EXCEPT !.buffer = IF wraps THEN Copied(tail, 0, rest) ELSE tail,
                !.end = (@ + size) % b.capacity]

RingWrite(b, data) == IF Refused(b, data) THEN b ELSE Stored(b, data)

\* The bytes Read copies out for a slice of the given length.
RingPeek(b, len) ==
  LET size == R!intMin(len, Size(b))
      size1 == b.capacity - b.begin
  IN  IF b.begin >= b.end /\ size1 < size
      THEN SubSeq(b.buffer, b.begin + 1, b.capacity) \o SubSeq(b.buffer, 1, size - size1)
      ELSE SubSeq(b.buffer, b.begin + 1, b.begin + size)

RingRead(b, len) == [b EXCEPT !.begin = (@ + Len(RingPeek(b, len))) % b.capacity]

Clear(b) == [b EXCEPT !.begin = 0, !.end = 0]

RingInit == \E n \in Sizes : s = NewRing(n) /\ ref = <<>>

RingNext ==
  \/ \E n \in 0..3 : s' = RingRead(s, n) /\ ref' = Rest(Len(RingPeek(s, n)))
  \/ \E p \in Inputs : /\ s' = RingWrite(s, p)
                       /\ ref' = IF Refused(s, p) THEN ref ELSE ref \o p
  \/ s' = Clear(s) /\ ref' = <<>>

(***************************************************************************)
(* A Ring that is written and read across its end holds what the caller    *)
(* expects, and Size, Full, Empty and FreeSize agree with it: a write that *)
(* was accepted never runs into unread bytes.                              *)
(***************************************************************************)
RingShowsContents ==
  /\ \A n \in 0..3 : RingPeek(s, n) = SubSeq(ref, 1, R!intMin(n, Len(ref)))
  /\ Size(s) = Len(ref) /\ (Empty(s) <=> ref = <<>>)
  /\ Full(s) <=> FreeSize(s) = 0
  /\ \A p \in Inputs : Refused(s, p) <=> Len(p) > FreeSize(s)
=============================================================================
