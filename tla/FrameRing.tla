------------------------------ MODULE FrameRing ------------------------------
(***************************************************************************)
(* Buffer of io/ring/buffer.go: a memory-mapped file of records, in which  *)
(* a new record ejects the oldest ones, and cursors from which readers     *)
(* continue although records may have been ejected.                        *)
(*                                                                         *)
(* A cell stands for the bytes of one field: the header of a frame is two  *)
(* cells, its size and its sequence number (total), and a record is        *)
(* Payload cells, which no reader can take for a small number.  Offsets    *)
(* are absolute, as in the code.  s.b is the Buffer, s.meta what           *)
(* updateMeta wrote behind the data, s.c the cursor of a reader, and       *)
(* s.cut tells of a kill in an Insert that left the file neither as it was *)
(* before nor as it is after.  ref.log holds the length of every record    *)
(* that was inserted, in the order of the sequence numbers (from 0),       *)
(* ref.read the number of the record the reader got last, and ref.skipped  *)
(* that records it had not read were ejected before it read again.         *)
(***************************************************************************)
EXTENDS Integers, Sequences, SequencesExt, FiniteSets, FiniteSetsExt

CONSTANTS Capacity, Lengths, MaxInserts

VARIABLES s, ref

Payload == 99
total == 2

New == [capacity |-> Capacity, data |-> [i \in 1..Capacity |-> 0],
        first |-> 0, last |-> 0, nextSeq |-> 0, biggest |-> 0, length |-> 0]

updateMeta(b) == [first |-> b.first, last |-> b.last, nextSeq |-> b.nextSeq,
                  biggest |-> b.biggest, length |-> b.length]

\* The five words are stored one after the other; a kill leaves the first k.
StoredMeta(meta, b, k) ==
  LET word(i, w) == IF i <= k THEN b[w] ELSE meta[w]
  IN  [first |-> word(1, "first"), last |-> word(2, "last"), nextSeq |-> word(3, "nextSeq"),
       biggest |-> word(4, "biggest"), length |-> word(5, "length")]

reload(data, meta) ==
  [capacity |-> Len(data), data |-> data, first |-> meta.first, last |-> meta.last,
   nextSeq |-> meta.nextSeq, biggest |-> meta.biggest, length |-> meta.length]

newFrame(seq, len) == <<len + total, seq>> \o [i \in 1..len |-> Payload]

sizeOf(f) == IF f = <<>> THEN 0 ELSE f[1]
seqOf(f) == IF Len(f) < total THEN 0 ELSE f[2]
dataOf(f) == SubSeq(f, total + 1, Len(f))

frameOfLen(b, offset, length) ==
  IF length > b.biggest THEN <<>>
  ELSE [i \in 1..length |-> b.data[((offset + i - 1) % b.capacity) + 1]]

frameSize(b, offset) == sizeOf(frameOfLen(b, offset, 1))
frame(b, offset) == frameOfLen(b, offset, frameSize(b, offset))
nextFrameOffset(b, offset) == offset + frameSize(b, offset)

Remaining(b, c) ==
  IF c.offset > b.last THEN 0
  ELSE b.last - (IF c.offset < b.first THEN b.first ELSE c.offset) + frameSize(b, b.last)

\* Whether the oldest frame is out of the way of a frame that is written to
\* the cells from start to end.
Clear_inclusive(fw, start, end) ==
  IF end <= start THEN end <= fw /\ fw < start ELSE end <= fw \/ start >= fw
Clear(fw, start, end) ==
  IF end <= start THEN end <= fw /\ fw < start ELSE end <= fw \/ start > fw

\* One round of the loop of updateFirst.
Eject(b, start, end) ==
  IF b.first = b.last \/ Clear(b.first % b.capacity, start, end) THEN b
  ELSE LET second == nextFrameOffset(b, b.first)
       IN  [b EXCEPT !.length = @ - (second - b.first - total), !.first = second]

updateFirst(b, fsize) ==
  LET start == b.last % b.capacity
      end == (start + fsize) % b.capacity
  IN  IF b.biggest = 0 THEN b
      ELSE IF start = end THEN [b EXCEPT !.length = 0, !.first = b.last]
      ELSE FoldLeft(LAMBDA acc, i : Eject(acc, start, end), b, b.data)

\* The buffer with the offsets moved, before the frame is copied.
Placed(b, fsize) == updateFirst([b EXCEPT !.last = nextFrameOffset(b, b.last)], fsize)

\* The first n cells of the frame, copied around the end of the data.
Copied(b, f, n) ==
  [b EXCEPT !.data = [i \in 1..b.capacity |->
     LET k == (i - 1 - b.last) % b.capacity IN IF k < n THEN f[k + 1] ELSE @[i]]]

Fits(b, len) == len > 0 /\ len + total <= b.capacity
Insert(b, len) ==
  LET f == newFrame(b.nextSeq, len)
      c == Copied(Placed(b, Len(f)), f, Len(f))
  IN  IF ~Fits(b, len) THEN b
      ELSE [c EXCEPT !.biggest = IF Len(f) > @ THEN Len(f) ELSE @,
                     !.nextSeq = @ + 1, !.length = @ + len]

\* The frame at offset and the cursor behind it.
readOffset(b, offset) ==
  LET next == nextFrameOffset(b, offset)
      only == next - offset = b.capacity \/ offset = b.last
  IN  [f |-> frame(b, offset),
       next |-> [offset |-> next, seq |-> IF only THEN b.nextSeq ELSE seqOf(frame(b, next))]]

NotArrived(b, c) == c.seq >= b.nextSeq \/ c.offset > b.last

Read(b, c) ==
  LET f == frame(b, c.offset)
  IN  readOffset(b, IF sizeOf(f) = 0 \/ seqOf(f) # c.seq THEN b.first ELSE c.offset)

-----------------------------------------------------------------------------
NoCursor == [offset |-> 0, seq |-> -1]
Whole == [at |-> "none"]

Init == /\ s = [b |-> New, meta |-> updateMeta(New), c |-> NoCursor, cut |-> Whole]
        /\ ref = [log |-> <<>>, read |-> -1, skipped |-> FALSE]

\* The sequence number of the oldest record, and the records there are.
FirstSeq(b) == seqOf(frame(b, b.first))

DoInsert(len) ==
  LET b == Insert(s.b, len) IN
  /\ Len(ref.log) < MaxInserts
  /\ s' = [s EXCEPT !.b = b, !.meta = updateMeta(b)]
  /\ ref' = IF b = s.b THEN ref
            ELSE [ref EXCEPT !.log = Append(@, len),
                             !.skipped = @ \/ ref.read + 1 < FirstSeq(b)]

\* The process is killed in Insert, when n cells of the frame are copied, or all
\* of them and k words of updateMeta stored; the mapping keeps the data.  Load
\* starts from what the file holds.  It holds what it held before when the new
\* offsets are not stored and the oldest record has not been overwritten.
Cuts(len) == {<<n, 0>> : n \in {1, len + total}} \cup {<<len + total, k>> : k \in 1..4}
InsertCut(len, n, k) ==
  LET f == newFrame(s.b.nextSeq, len)
      b == Insert(s.b, len)
      data == Copied(Placed(s.b, Len(f)), f, n).data
      meta == StoredMeta(s.meta, b, k)
      reached == b.first # s.meta.first /\ n > (s.meta.first - b.last) % b.capacity
  IN
  /\ Len(ref.log) < MaxInserts /\ Fits(s.b, len)
  /\ s' = [b |-> reload(data, meta), meta |-> meta, c |-> NoCursor,
           cut |-> IF meta = s.meta /\ ~reached THEN Whole
                   ELSE [at |-> IF meta = s.meta THEN "copy" ELSE "meta",
                         kept |-> {q \in 0 .. s.b.nextSeq - 1 : s.b.biggest > 0 /\ q >= FirstSeq(b)},
                         again |-> Len(f) > s.b.biggest /\ k \in {2, 3}]]
  /\ ref' = [ref EXCEPT !.read = -1, !.skipped = FALSE]

\* ReadFirst, and Read at the cursor of the read before.
DoRead ==
  LET r == IF s.c = NoCursor THEN readOffset(s.b, s.b.first) ELSE Read(s.b, s.c) IN
  /\ s.b.biggest > 0 /\ ~NotArrived(s.b, s.c)
  /\ s' = [s EXCEPT !.c = r.next]
  /\ ref' = [ref EXCEPT !.read = seqOf(r.f), !.skipped = FALSE]

Next == /\ s.cut = Whole
        /\ \/ \E len \in Lengths :
                DoInsert(len) \/ \E c \in Cuts(len) : InsertCut(len, c[1], c[2])
           \/ DoRead

Frames == [i \in 1..(s.b.nextSeq - FirstSeq(s.b)) |-> FirstSeq(s.b) + i - 1]

\* The offset of each record, following the sizes in the headers.
OffsetOf(seq) ==
  FoldLeft(LAMBDA o, i : nextFrameOffset(s.b, o), s.b.first,
           [i \in 1..(seq - FirstSeq(s.b)) |-> i])

(***************************************************************************)
(* The file holds the latest records, unbroken from first to last, and the *)
(* lengths add up; a record is ejected only when its room was needed.  A   *)
(* reader that continues at its cursor gets every record that is still     *)
(* there, in order, and after an ejection goes on with the oldest.         *)
(***************************************************************************)
ReadsInOrder ==
  (s.cut = Whole /\ s.b.biggest > 0) =>
  LET b == s.b
      kept == Frames
      sum == FoldLeft(LAMBDA acc, q : acc + ref.log[q + 1], 0, kept)
      next == Read(b, s.c)
  IN  /\ \A k \in DOMAIN kept :
           LET f == frame(b, OffsetOf(kept[k]))
           IN  seqOf(f) = kept[k] /\ Len(dataOf(f)) = ref.log[kept[k] + 1]
      /\ Last(kept) = Len(ref.log) - 1 /\ OffsetOf(Last(kept)) = b.last
      /\ b.length = sum
      /\ Remaining(b, [offset |-> 0]) = sum + total * Len(kept)
      /\ sum + total * Len(kept) <= b.capacity
      /\ kept[1] > 0 => sum + ref.log[kept[1]] + total * (Len(kept) + 1) > b.capacity
      /\ s.c # NoCursor => \/ NotArrived(b, s.c) /\ ref.read = Last(kept)
                           \/ seqOf(next.f) = IF ref.skipped THEN kept[1] ELSE ref.read + 1

\* What a reader gets that starts at the oldest record, m times.
ReadAll(m) ==
  FoldLeft(LAMBDA acc, i :
             IF i > 1 /\ NotArrived(s.b, acc.c) THEN acc
             ELSE LET r == IF i = 1 THEN readOffset(s.b, s.b.first) ELSE Read(s.b, acc.c)
                  IN  [c |-> r.next, got |-> Append(acc.got, seqOf(r.f))],
           [c |-> NoCursor, got |-> <<>>], [i \in 1..m |-> i]).got

(***************************************************************************)
(* A kill in Insert leaves the file as it was unless the copy had reached  *)
(* the oldest record or a word of updateMeta was stored.  From the first   *)
(* word on, the records that Insert did not eject are read in order, with  *)
(* no damaged record among them.  The cut one may follow, once, or not;    *)
(* when it is the biggest so far and last is stored without biggest, the   *)
(* reader cannot see it and starts over with the oldest.                   *)
(***************************************************************************)
CutKeepsRecords ==
  s.cut.at = "meta" =>
  LET kept == [i \in 1..Cardinality(s.cut.kept) |-> Min(s.cut.kept) + i - 1]
      got == ReadAll(Len(kept) + 1)
  IN  kept # <<>> => got \in {kept, Append(kept, Len(ref.log))} \cup (IF s.cut.again THEN {Append(kept, kept[1])} ELSE {})
=============================================================================
