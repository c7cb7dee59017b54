----------------------------- MODULE AtomicRing -----------------------------
(***************************************************************************)
(* AtomicFixedSizeRingBuf of container/ring/atomic_rbuf.go: the buffer of  *)
(* RingBuf with every method under one mutex, so that a method is one      *)
(* step, and the protocol of BytesTwo and AdvanceBytesTwo, which is not:   *)
(* a consumer looks at slices of the live buffer and gives them up later,  *)
(* while producers write and others call Bytes.                            *)
(*                                                                         *)
(* s.b is the buffer, s.tb the TwoBuffers that the consumer holds: regions *)
(* of one of the two arrays, as Go slices are, not copies; s.panic says    *)
(* that the last call of the consumer panicked, which releases the mutex   *)
(* and changes nothing.  ref is what the consumer expects to be unread.    *)
(***************************************************************************)
EXTENDS Integers, Sequences

CONSTANTS Sizes, Inputs

VARIABLES s, ref

R == INSTANCE RingBuf

NoTb == [use |-> 0, lo |-> 0, first |-> 0, second |-> 0]

\* The bytes that the regions of tb show now.
Shown(b, tb) == SubSeq(b.A[tb.use + 1], tb.lo + 1, tb.lo + tb.first)
                \o SubSeq(b.A[tb.use + 1], 1, tb.second)

\* When the data wraps the first slice, taken up to Beg + readable, exceeds the
\* capacity of the array and the slice expression panics.
BytesTwoPanics(b) == R!Extent(b) > b.N

unatomic_BytesTwo(b) == [use |-> b.Use, lo |-> b.Beg, first |-> b.Readable, second |-> 0]

\* The checks of AdvanceBytesTwo against the present contents; if one fails the
\* method panics.
Unchanged(b, tb) ==
  LET now == unatomic_BytesTwo(b) IN
  /\ tb.first + tb.second <= b.Readable
  /\ ~BytesTwoPanics(b)
  /\ tb.first > 0 => Head(Shown(b, tb)) = Head(Shown(b, now))
  /\ tb.second > 0 => /\ tb.first <= now.first /\ now.second > 0
                      /\ Shown(b, tb)[tb.first + 1] = Shown(b, now)[now.first + 1]

unatomic_advance(b, n) == R!Advance(b, n)

Buffer(b) == s' = [s EXCEPT !.b = b, !.panic = FALSE]
Holding == s.tb # NoTb

Init == \E n \in Sizes : /\ s = [b |-> R!NewFixedSizeRingBuf(n), tb |-> NoTb, panic |-> FALSE]
                         /\ ref = <<>>

BytesTwo ==
  /\ ~Holding
  /\ s' = IF BytesTwoPanics(s.b) THEN [s EXCEPT !.panic = TRUE]
          ELSE [s EXCEPT !.tb = unatomic_BytesTwo(s.b), !.panic = FALSE]
  /\ UNCHANGED ref

AdvanceBytesTwo ==
  LET len == s.tb.first + s.tb.second IN
  /\ Holding
  /\ IF len = 0 \/ Unchanged(s.b, s.tb)
     THEN /\ s' = [b |-> unatomic_advance(s.b, len), tb |-> NoTb, panic |-> FALSE]
          /\ ref' = SubSeq(ref, len + 1, Len(ref))
     ELSE /\ s' = [s EXCEPT !.tb = NoTb, !.panic = TRUE]
          /\ UNCHANGED ref

\* Producers.
Write(p) == LET w == R!Write(s.b, p) IN Buffer(w.b) /\ ref' = ref \o SubSeq(p, 1, w.n)

ReadFrom(p, chunk) ==
  LET w == R!ReadFrom(s.b, p, chunk) IN Buffer(w.b) /\ ref' = ref \o SubSeq(p, 1, w.n)

\* Anyone: the contents move to the other array when they wrap.
Bytes == Buffer(R!Bytes(s.b)) /\ UNCHANGED ref

\* The consumer, while it holds nothing.
ReadAndMaybeAdvance(n) ==
  LET got == R!ReadWithoutAdvance(s.b, n) IN
  /\ ~Holding /\ Buffer(unatomic_advance(s.b, Len(got)))
  /\ ref' = SubSeq(ref, Len(got) + 1, Len(ref))

WriteTo(m) ==
  /\ ~Holding /\ Buffer(R!WriteTo(s.b, m))
  /\ ref' = SubSeq(ref, Len(ref) - s'.b.Readable + 1, Len(ref))

Advance(n) ==
  /\ ~Holding /\ Buffer(unatomic_advance(s.b, n))
  /\ ref' = SubSeq(ref, n + 1, Len(ref))

Adopt(me) == ~Holding /\ Buffer(R!Adopt(s.b, me)) /\ ref' = me

Reset == ~Holding /\ Buffer(R!Reset(s.b)) /\ ref' = <<>>

Next ==
  \/ BytesTwo \/ AdvanceBytesTwo \/ Bytes \/ Reset
  \/ \E n \in 1..2 : ReadAndMaybeAdvance(n) \/ WriteTo(n) \/ Advance(n)
  \/ \E p \in Inputs : Write(p) \/ Adopt(p) \/ (\E chunk \in 1..2 : ReadFrom(p, chunk))

(***************************************************************************)
(* The slices a single consumer holds between BytesTwo and AdvanceBytesTwo *)
(* keep showing the oldest unread bytes, whatever producers write and      *)
(* although Bytes may move the contents away, and the buffer holds what    *)
(* was not consumed.  Both methods panic exactly when the contents wrap    *)
(* around the end of the array, BytesTwo although "Second" is meant for    *)
(* that, and AdvanceBytesTwo although producers only appended.             *)
(***************************************************************************)
HeldIsOldest ==
  /\ R!BytesTwo(s.b)[1] \o R!BytesTwo(s.b)[2] = ref
  /\ s.panic => s.b.Beg + Len(ref) > s.b.N
  /\ Holding => /\ Shown(s.b, s.tb) = SubSeq(ref, 1, s.tb.first + s.tb.second)
                /\ Unchanged(s.b, s.tb) <=> s.b.Beg + Len(ref) <= s.b.N
=============================================================================
