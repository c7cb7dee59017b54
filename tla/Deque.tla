------------------------------ MODULE Deque ------------------------------
(***************************************************************************)
(* container/deque/deque.go: a double-ended queue as a list of blocks of   *)
(* BlockLen cells.  A deque is a record and every method an operator that  *)
(* returns the new one.                                                    *)
(***************************************************************************)
EXTENDS Integers, Sequences, SequencesExt

CONSTANTS BlockLen,   \* blockLen, 64 in the code; "any value above 1"
          Nil         \* the nil interface of an empty cell

ASSUME DequeAssumption == BlockLen \in Nat \ {0, 1}

blockCenter == (BlockLen - 1) \div 2

newBlock == [i \in 0 .. BlockLen - 1 |-> Nil]

recenter(d) == [d EXCEPT !.frontIdx = blockCenter + 1, !.backIdx = blockCenter]

NewWithMaxLen(maxLen) ==
  recenter([maxLen |-> maxLen, blocks |-> <<newBlock>>,
            frontIdx |-> 0, backIdx |-> 0, len |-> 0])

-----------------------------------------------------------------------------

PeekFront(d) == IF d.len < 1 THEN Nil ELSE Head(d.blocks)[d.frontIdx]
PeekBack(d) == IF d.len < 1 THEN Nil ELSE Last(d.blocks)[d.backIdx]

\* What PopBack and PopFront do with an edge block that became empty.
DropBackBlock(d) ==
  IF d.len = 0 THEN recenter(d)
  ELSE [d EXCEPT !.blocks = Front(@), !.backIdx = BlockLen - 1]

DropFrontBlock_keepsIdx(d) ==
  IF d.len = 0 THEN recenter(d) ELSE [d EXCEPT !.blocks = Tail(@)]
DropFrontBlock(d) ==
  IF d.len = 0 THEN recenter(d)
  ELSE [d EXCEPT !.blocks = Tail(@), !.frontIdx = 0]

PopBack(d) ==
  LET e == [d EXCEPT !.blocks[Len(d.blocks)][d.backIdx] = Nil,
                     !.backIdx = @ - 1, !.len = @ - 1]
  IN IF d.len < 1 THEN d
     ELSE IF e.backIdx = -1 THEN DropBackBlock(e) ELSE e

PopFront(d) ==
  LET e == [d EXCEPT !.blocks[1][d.frontIdx] = Nil,
                     !.frontIdx = @ + 1, !.len = @ - 1]
  IN IF d.len < 1 THEN d
     ELSE IF e.frontIdx = BlockLen THEN DropFrontBlock(e) ELSE e

OverLimit(d) == d.maxLen > 0 /\ d.len > d.maxLen

PushBack(d, item) ==
  LET e == IF d.backIdx = BlockLen - 1
           THEN [d EXCEPT !.blocks = Append(@, newBlock), !.backIdx = -1]
           ELSE d
      f == [e EXCEPT !.blocks[Len(e.blocks)][e.backIdx + 1] = item,
                     !.backIdx = @ + 1, !.len = @ + 1]
  IN IF OverLimit(f) THEN PopFront(f) ELSE f

PushFront(d, item) ==
  LET e == IF d.frontIdx = 0
           THEN [d EXCEPT !.blocks = <<newBlock>> \o @, !.frontIdx = BlockLen]
           ELSE d
      f == [e EXCEPT !.blocks[1][e.frontIdx - 1] = item,
                     !.frontIdx = @ - 1, !.len = @ + 1]
  IN IF OverLimit(f) THEN PopBack(f) ELSE f

-----------------------------------------------------------------------------

\* The cells of all blocks in order, and the items between the two indexes.
Cells(d) == FlattenSeq([b \in DOMAIN d.blocks |->
                          [i \in 1 .. BlockLen |-> d.blocks[b][i - 1]]])
Items(d) == SubSeq(Cells(d), d.frontIdx + 1,
                   (Len(d.blocks) - 1) * BlockLen + d.backIdx + 1)
=============================================================================
