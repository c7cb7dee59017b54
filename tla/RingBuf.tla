------------------------------ MODULE RingBuf ------------------------------
(***************************************************************************)
(* FixedSizeRingBuf of container/ring/rbuf.go.  A buffer is a record with  *)
(* the fields of the struct; A is the pair of ping/pong buffers, each a    *)
(* sequence of N bytes, and positions count from 0 as in the code.         *)
(* Operations that only read are functions of the record; operations that  *)
(* change it return the new record, with n and err where the code does.    *)
(*                                                                         *)
(* The state is the buffer s and the bytes ref that a caller who added up  *)
(* the results of its calls expects to be in it.                           *)
(***************************************************************************)
EXTENDS Integers, Sequences, SequencesExt

CONSTANTS Sizes,     \* sizes given to NewFixedSizeRingBuf
          Inputs     \* byte slices given to Write, Adopt and to the reader

VARIABLES s, ref

vars == <<s, ref>>

intMin(a, b) == IF a < b THEN a ELSE b

NewFixedSizeRingBuf(n) ==
  LET zeroed == [i \in 1..n |-> 0]
  IN  [A |-> <<zeroed, zeroed>>, Use |-> 0, N |-> n, Beg |-> 0, Readable |-> 0]

\* The Go slice A[Use][lo:hi]; slicing beyond N panics, as A has capacity N.
Slice(b, lo, hi) == SubSeq(b.A[b.Use + 1], lo + 1, hi)

Extent(b) == b.Beg + b.Readable

\* The length of the second part of data that wraps, extent % N.
Wrapped(b) == Extent(b) % b.N

ContigLen(b) == intMin(Extent(b), b.N) - b.Beg

\* The two slices of BytesTwo.
BytesTwo(b) ==
  IF Extent(b) <= b.N THEN <<Slice(b, b.Beg, Extent(b)), <<>>>>
  ELSE <<Slice(b, b.Beg, b.N), Slice(b, 0, Wrapped(b))>>

\* Bytes linearises data that wraps into the other buffer and goes on with it.
Bytes(b) ==
  IF Extent(b) <= b.N THEN b
  ELSE LET two == BytesTwo(b)[1] \o BytesTwo(b)[2]
           dest == 1 - b.Use
       IN  [b EXCEPT !.A[dest + 1] = two \o SubSeq(@, Len(two) + 1, b.N),
                     !.Use = dest, !.Beg = 0]

Advance(b, n) ==
  IF n <= 0 THEN b
  ELSE LET k == intMin(n, b.Readable)
       IN  [b EXCEPT !.Readable = @ - k, !.Beg = (@ + k) % b.N]

\* What copy puts into p, of length len.
ReadWithoutAdvance(b, len) ==
  LET two == BytesTwo(b)
      first == SubSeq(two[1], 1, intMin(len, Len(two[1])))
  IN  IF len = 0 \/ b.Readable = 0 THEN <<>>
      ELSE first \o SubSeq(two[2], 1, intMin(len - Len(first), Len(two[2])))

Read(b, len) == Advance(b, Len(ReadWithoutAdvance(b, len)))

\* One round of the loops of Write and ReadFrom: copy what fits before the end
\* of the array, at most chunk bytes.
WriteRound(acc, p, chunk) ==
  LET b == acc.b
      writeCapacity == b.N - b.Readable
      writeStart == Extent(b) % b.N
      upperLim == intMin(writeStart + writeCapacity, b.N)
      k == intMin(intMin(chunk, Len(p) - acc.n), upperLim - writeStart)
  IN  IF acc.n = Len(p) \/ writeCapacity <= 0 THEN acc
      ELSE [n |-> acc.n + k,
            b |-> [b EXCEPT
              !.Readable = @ + k,
              !.A[b.Use + 1] = [i \in 1..b.N |->
                 IF i - writeStart \in 1..k THEN p[acc.n + i - writeStart] ELSE @[i]]]]

\* Every round copies a byte, so Len(p) rounds are enough.
Write(b, p) ==
  FoldLeft(LAMBDA acc, byte : WriteRound(acc, p, Len(p)), [b |-> b, n |-> 0], p)

ReadFrom(b, p, chunk) ==
  FoldLeft(LAMBDA acc, byte : WriteRound(acc, p, chunk), [b |-> b, n |-> 0], p)

\* The oldest bytes make room, and of p only the last N are written.
WriteAndMaybeOverwriteOldestData(b, p) ==
  LET room == Advance(b, Len(p) - (b.N - b.Readable))
      startPos == IF Len(p) > b.N THEN Len(p) - b.N ELSE 0
  IN  Write(room, SubSeq(p, startPos + 1, Len(p))).b

\* WriteTo to a writer that takes at most m bytes a call: the second slice is
\* written only when the first one went out whole.
WriteTo(b, m) ==
  LET first == ContigLen(b)
      second == b.Readable - first
      k == intMin(m, first)
  IN  IF b.Readable = 0 THEN b
      ELSE IF k < first \/ second = 0 THEN Advance(b, k)
      ELSE Advance(Advance(b, k), intMin(m, second))

Reset(b) == [b EXCEPT !.Beg = 0, !.Readable = 0, !.Use = 0]

Adopt(b, me) ==
  LET n == Len(me) IN
  IF n > b.N
  THEN [NewFixedSizeRingBuf(n) EXCEPT !.A[1] = me, !.Readable = n]
  ELSE [b EXCEPT !.A[1] = me \o SubSeq(@, n + 1, b.N),
                 !.Use = 0, !.Beg = 0, !.Readable = n]

DeleteMostRecentBytes(b, n) ==
  IF n <= 0 THEN b
  ELSE [b EXCEPT !.Readable = IF n >= @ THEN 0 ELSE @ - n]

First(b) == IF b.Readable = 0 THEN -1 ELSE b.Beg

LastPos(b) ==
  LET last == b.Beg + b.Readable - 1
  IN  IF b.Readable = 0 THEN -1 ELSE IF last < b.N THEN last ELSE last % b.N

Kth(b, k) ==
  IF b.Readable = 0 \/ k < 0 \/ k >= b.Readable THEN -1 ELSE (b.Beg + k) % b.N

\* The positions in use: <<a0, aLast, b0, bLast>>.
LegalPos(b) ==
  LET last == b.Beg + b.Readable - 1
  IN  IF b.Readable = 0 THEN <<-1, -1, -1, -1>>
      ELSE IF last < b.N THEN <<b.Beg, last, -1, -1>>
      ELSE <<b.Beg, b.N - 1, 0, last % b.N>>

Nextpos(b, from) ==
  LET p == LegalPos(b) IN
  CASE from >= b.N \/ from < 0 -> -2
    [] b.Readable = 0 \/ from = LastPos(b) -> -1
    [] from >= p[1] /\ from < p[2] -> from + 1
    [] from = p[2] -> p[3]
    [] from >= p[3] /\ from < p[4] -> from + 1
    [] OTHER -> -1

Prevpos(b, from) ==
  LET p == LegalPos(b) IN
  CASE from >= b.N \/ from < 0 -> -2
    [] b.Readable = 0 \/ from = b.Beg -> -1
    [] from > p[1] /\ from <= p[2] -> from - 1
    [] from = p[3] -> p[2]
    [] from > p[3] /\ from <= p[4] -> from - 1
    [] OTHER -> -1

-----------------------------------------------------------------------------
Init == /\ \E n \in Sizes : s = NewFixedSizeRingBuf(n)
        /\ ref = <<>>

Lengths == 0..3

Next ==
  \/ s' = Bytes(s) /\ ref' = ref
  \/ \E n \in Lengths :
       \/ s' = Advance(s, n) /\ ref' = SubSeq(ref, n + 1, Len(ref))
       \/ s' = Read(s, n) /\ ref' = SubSeq(ref, Len(ReadWithoutAdvance(s, n)) + 1, Len(ref))
       \/ s' = WriteTo(s, n) /\ ref' = SubSeq(ref, Len(ref) - s'.Readable + 1, Len(ref))
       \/ s' = DeleteMostRecentBytes(s, n)
          /\ ref' = SubSeq(ref, 1, Len(ref) - intMin(n, Len(ref)))
  \/ \E p \in Inputs :
       \/ s' = Write(s, p).b /\ ref' = ref \o SubSeq(p, 1, Write(s, p).n)
       \/ \E chunk \in 1..2 : LET r == ReadFrom(s, p, chunk) IN
            s' = r.b /\ ref' = ref \o SubSeq(p, 1, r.n)
       \/ s' = WriteAndMaybeOverwriteOldestData(s, p)
          /\ ref' = LET all == ref \o p IN SubSeq(all, Len(all) - intMin(Len(all), s.N) + 1, Len(all))
       \/ s' = Adopt(s, p) /\ ref' = p
  \/ s' = Reset(s) /\ ref' = <<>>

\* The byte at a position of the active buffer.
ByteAt(b, i) == b.A[b.Use + 1][i + 1]

(***************************************************************************)
(* However the data wraps, every view of the buffer shows the bytes the    *)
(* caller expects: Bytes, the two slices of BytesTwo, reads of any length, *)
(* positions by number, and the walks along Nextpos and Prevpos.  A write  *)
(* is short only when the buffer is then full.                             *)
(***************************************************************************)
ShowsContents ==
  /\ Len(ref) = s.Readable
  /\ LET b == Bytes(s) IN Slice(b, b.Beg, Extent(b)) = ref
  /\ BytesTwo(s)[1] \o BytesTwo(s)[2] = ref /\ ContigLen(s) = Len(BytesTwo(s)[1])
  /\ \A n \in Lengths : ReadWithoutAdvance(s, n) = SubSeq(ref, 1, intMin(n, Len(ref)))
  /\ \A k \in 1..Len(ref) :
       LET pos == Kth(s, k - 1) IN
       /\ ByteAt(s, pos) = ref[k]
       /\ Nextpos(s, pos) = IF k = Len(ref) THEN -1 ELSE Kth(s, k)
       /\ Prevpos(s, pos) = IF k = 1 THEN -1 ELSE Kth(s, k - 2)
  /\ First(s) = Kth(s, 0) /\ LastPos(s) = Kth(s, Len(ref) - 1)
  /\ \A p \in Inputs : LET w == Write(s, p) IN w.n < Len(p) => w.b.Readable = s.N
=============================================================================
