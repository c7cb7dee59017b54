----------------------------- MODULE ByteBuffer -----------------------------
(***************************************************************************)
(* Buffer of bytes/buffer/buffer.go.  buf is the slice up to its length,   *)
(* cap its capacity and isnil tells the nil slice of New, whose first      *)
(* memory is the array bootstrap; off and lastRead are as in the code.     *)
(* The sizes of the code are constants, to be small: Bootstrap is 64,      *)
(* MinRead 512, UTFMax 4.  A rune is a byte below RuneSelf or a lead byte  *)
(* and a byte behind it; a lead byte alone is the rune error of width 1.   *)
(*                                                                         *)
(* ref.unread is what the caller expects to read, ref.last what the latest *)
(* read returned, <<>> after a write or a read of nothing.  ref.after says *)
(* what else bears on an Unread: the read met the end of the buffer        *)
(* ("eof"), or Grow has since moved the bytes ("moved") or reset the       *)
(* buffer ("reset").                                                       *)
(***************************************************************************)
EXTENDS Integers, Sequences, SequencesExt

CONSTANTS Bootstrap, MinRead, UTFMax, RuneSelf, Inputs, MaxLen, MaxCap

VARIABLES s, ref

opRead == -1
opInvalid == 0

New == [buf |-> <<>>, cap |-> 0, isnil |-> TRUE, off |-> 0, lastRead |-> opInvalid]
NewBuffer(p) == [New EXCEPT !.buf = p, !.cap = Len(p), !.isnil = FALSE]

Bytes(b) == SubSeq(b.buf, b.off + 1, Len(b.buf))
Length(b) == Len(b.buf) - b.off
empty(b) == Len(b.buf) <= b.off

Reset(b) == [b EXCEPT !.buf = <<>>, !.off = 0, !.lastRead = opInvalid]

\* Truncate panics beyond the length, which callers do not ask for.
Truncate(b, n) ==
  IF n = 0 THEN Reset(b)
  ELSE [b EXCEPT !.lastRead = opInvalid, !.buf = SubSeq(@, 1, b.off + n)]

\* n cells that the caller of grow fills.
Cells(n) == [i \in 1..n |-> 0]
CanReslice(b, n) == n <= b.cap - Len(b.buf)
tryGrowByReslice(b, n) == [b EXCEPT !.buf = @ \o Cells(n)]

Slid(b, n) == n <= (b.cap \div 2) - Length(b)

grow(b0, n) ==
  LET b == IF Length(b0) = 0 /\ b0.off # 0 THEN Reset(b0) ELSE b0
      moved == [b EXCEPT !.buf = Bytes(b) \o Cells(n), !.off = 0]
  IN  IF CanReslice(b, n) THEN tryGrowByReslice(b, n)
      ELSE IF b.isnil /\ n <= Bootstrap
           THEN [b EXCEPT !.buf = Cells(n), !.cap = Bootstrap, !.isnil = FALSE]
      ELSE IF Slid(b, n) THEN moved
      ELSE [moved EXCEPT !.cap = 2 * b.cap + n, !.isnil = FALSE]

Grow(b, n) == LET g == grow(b, n) IN [g EXCEPT !.buf = SubSeq(@, 1, Len(@) - n)]

\* Write, WriteString and WriteByte: grow unless the capacity is enough, and
\* copy over the new cells.
Extended(b, n) == IF CanReslice(b, n) THEN tryGrowByReslice(b, n) ELSE grow(b, n)

Write(b, p) ==
  LET g == Extended([b EXCEPT !.lastRead = opInvalid], Len(p))
  IN  [g EXCEPT !.buf = SubSeq(@, 1, Len(@) - Len(p)) \o p]

WriteByte(b, c) == Write(b, <<c>>)

\* Room for UTFMax bytes is made, of which n are kept.
WriteRune(b, r) ==
  IF Len(r) = 1 THEN WriteByte(b, r[1])
  ELSE LET g == Extended([b EXCEPT !.lastRead = opInvalid], UTFMax)
       IN  [g EXCEPT !.buf = SubSeq(@, 1, Len(@) - UTFMax) \o r]

\* One round of ReadFrom: make room for MinRead bytes, and take from the reader
\* what fits in the capacity of what it has left.
ReadRound(acc, p) ==
  LET g == Grow(acc.b, MinRead)
      room == g.cap - Len(g.buf)
      n == IF Len(p) - acc.n < room THEN Len(p) - acc.n ELSE room
  IN  IF acc.eof THEN acc
      ELSE [b |-> [g EXCEPT !.buf = @ \o SubSeq(p, acc.n + 1, acc.n + n)],
            n |-> acc.n + n, eof |-> acc.n = Len(p)]

ReadFrom(b, p) ==
  FoldLeft(LAMBDA acc, i : ReadRound(acc, p),
           [b |-> [b EXCEPT !.lastRead = opInvalid], n |-> 0, eof |-> FALSE],
           [i \in 1..(Len(p) + 1) |-> i]).b

\* WriteTo a writer that takes m bytes, with an error if these are not all.
WriteTo(b, m) ==
  IF m < Length(b) THEN [b EXCEPT !.lastRead = opInvalid, !.off = @ + m] ELSE Reset(b)

\* What Read or Next of n bytes returns.
Taken(b, n) == SubSeq(Bytes(b), 1, IF n < Length(b) THEN n ELSE Length(b))
Passed(b, taken) ==
  [b EXCEPT !.off = @ + Len(taken), !.lastRead = IF taken = <<>> THEN opInvalid ELSE opRead]

Read(b, n) == IF empty(b) THEN Reset(b) ELSE Passed(b, Taken(b, n))
NextBytes(b, n) == Passed(b, Taken(b, n))
ReadByte(b) == IF empty(b) THEN Reset(b) ELSE [b EXCEPT !.off = @ + 1, !.lastRead = opRead]

RuneSize(b) == IF Bytes(b)[1] < RuneSelf \/ Length(b) = 1 THEN 1 ELSE 2
ReadRune(b) ==
  IF empty(b) THEN Reset(b) ELSE [b EXCEPT !.off = @ + RuneSize(b), !.lastRead = RuneSize(b)]

UnreadRune(b) ==
  IF b.lastRead <= opInvalid THEN b
  ELSE [b EXCEPT !.off = IF @ >= b.lastRead THEN @ - b.lastRead ELSE @, !.lastRead = opInvalid]

UnreadByte(b) ==
  IF b.lastRead = opInvalid THEN b
  ELSE [b EXCEPT !.off = IF @ > 0 THEN @ - 1 ELSE @, !.lastRead = opInvalid]

\* ReadBytes and ReadString: up to and with the delimiter, or to the end.
Line(b, delim) ==
  LET here == {i \in 1..Length(b) : Bytes(b)[i] = delim}
  IN  SubSeq(Bytes(b), 1, IF here = {} THEN Length(b) ELSE CHOOSE i \in here : \A j \in here : i <= j)
readSlice(b, delim) == [b EXCEPT !.off = @ + Len(Line(b, delim)), !.lastRead = opRead]

-----------------------------------------------------------------------------
Init == /\ \E p \in Inputs : s \in {New, NewBuffer(p)}
        /\ ref = [unread |-> Bytes(s), last |-> <<>>, after |-> "none"]

\* The caller's view after a read that returned taken, and after a write.
Got(taken) ==
  [unread |-> SubSeq(ref.unread, Len(taken) + 1, Len(ref.unread)), last |-> taken, after |-> "none"]
Upto(n) == SubSeq(ref.unread, 1, IF n < Len(ref.unread) THEN n ELSE Len(ref.unread))
Now(unread) == [unread |-> unread, last |-> <<>>, after |-> "none"]

Fits(p) == Length(s) + Len(p) <= MaxLen /\ s.cap <= MaxCap

Next ==
  \/ \E p \in Inputs :
       /\ Fits(p)
       /\ \/ s' = Write(s, p) /\ ref' = Now(ref.unread \o p)
          \/ s' = ReadFrom(s, p) /\ ref' = Now(ref.unread \o p)
          \/ Len(p) <= 2 /\ (Len(p) = 2 <=> p[1] >= RuneSelf)
             /\ s' = WriteRune(s, p) /\ ref' = Now(ref.unread \o p)
  \/ \E n \in 0..2 :
       \/ s' = Read(s, n) /\ ref' = Got(Upto(n))
       \/ s' = NextBytes(s, n) /\ ref' = Got(Upto(n))
       \/ s' = WriteTo(s, n) /\ ref' = Now(SubSeq(ref.unread, n + 1, Len(ref.unread)))
       \/ n <= Length(s) /\ s' = Truncate(s, n) /\ ref' = Now(SubSeq(ref.unread, 1, n))
       \/ s.cap <= MaxCap /\ s' = Grow(s, n)
          /\ ref' = [ref EXCEPT !.after = IF s'.lastRead # s.lastRead THEN "reset"
                                          ELSE IF s.lastRead # opInvalid /\ s'.off # s.off THEN "moved" ELSE @]
  \/ s' = ReadByte(s) /\ ref' = Got(Upto(1))
  \/ s' = ReadRune(s) /\ ref' = Got(Upto(IF empty(s) THEN 0 ELSE RuneSize(s)))
  \/ \E delim \in {1, 2} :
       /\ s' = readSlice(s, delim)
       /\ ref' = [Got(Line(s, delim)) EXCEPT !.after = IF Contains(Bytes(s), delim) THEN "none" ELSE "eof"]
  \/ s' = UnreadByte(s) /\ ref' = Now(Bytes(s'))
  \/ s' = UnreadRune(s) /\ ref' = IF s' = s THEN ref ELSE Now(Bytes(s'))

(***************************************************************************)
(* The buffer shows the unread bytes through every way of growing          *)
(* (reslicing, bootstrap, sliding down, reallocating), never beyond its    *)
(* capacity.  UnreadByte brings back exactly the byte that the read before *)
(* returned last and UnreadRune the rune, with two exceptions that their   *)
(* comments do not make: after a Grow that moved the bytes they succeed    *)
(* and bring back nothing, and after one that reset an emptied buffer they *)
(* fail.  UnreadByte fails after a write and after a read of nothing, but  *)
(* not when ReadBytes met the end: it then brings back the byte before,    *)
(* also when ReadBytes returned nothing.                                   *)
(***************************************************************************)
UnreadRestores ==
  LET back == Bytes(UnreadByte(s)) IN
  /\ Bytes(s) = ref.unread /\ Len(s.buf) <= s.cap
  /\ s.lastRead = opInvalid <=> ref.after = "reset" \/ (ref.last = <<>> /\ ref.after = "none")
  /\ s.lastRead # opInvalid =>
       IF ref.after = "moved" THEN back = ref.unread
       ELSE IF ref.last # <<>> THEN back = <<Last(ref.last)>> \o ref.unread
       ELSE back = IF s.off = 0 THEN ref.unread ELSE <<s.buf[s.off]>> \o ref.unread
  /\ s.lastRead > opInvalid =>
       Bytes(UnreadRune(s)) = IF ref.after = "moved" THEN ref.unread ELSE ref.last \o ref.unread
=============================================================================
