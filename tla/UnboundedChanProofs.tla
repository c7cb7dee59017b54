------------------------ MODULE UnboundedChanProofs ------------------------
(***************************************************************************)
(* For any number of goroutines, pushes and block length, the unbounded    *)
(* channel loses no wake-up (sync/unbounded_chan.go).                      *)
(***************************************************************************)
EXTENDS UnboundedChan, SequenceTheorems, FiniteSetTheorems, TLAPS

\* What the proof needs of a deque: its fields and its length.
Fields == {"maxLen", "blocks", "frontIdx", "backIdx", "len"}
IsDeque(d) == DOMAIN d = Fields /\ d.maxLen = 0 /\ d.len \in Nat

LEMMA NewIsDeque == IsDeque(NewWithMaxLen(0)) /\ NewWithMaxLen(0).len = 0
BY DEF NewWithMaxLen, recenter, IsDeque, Fields

\* PopFront takes one item, whatever it does with the edge block.
LEMMA PopFrontLen ==
  ASSUME NEW d, IsDeque(d), d.len > 0
  PROVE  IsDeque(PopFront(d)) /\ PopFront(d).len = d.len - 1
<1> DEFINE e == [d EXCEPT !.blocks[1][d.frontIdx] = Nil,
                          !.frontIdx = @ + 1, !.len = @ - 1]
<1>1. IsDeque(e) /\ e.len = d.len - 1
  <2>1. DOMAIN e = Fields
    BY DEF IsDeque
  <2>2. e.maxLen = d.maxLen /\ e.len = d.len - 1
    BY DEF IsDeque, Fields
  <2> QED  BY <2>1, <2>2 DEF IsDeque
<1> HIDE DEF e
<1>2. IsDeque(DropFrontBlock(e)) /\ DropFrontBlock(e).len = e.len
  BY <1>1 DEF DropFrontBlock, recenter, IsDeque, Fields
<1>3. PopFront(d) = IF e.frontIdx = BlockLen THEN DropFrontBlock(e) ELSE e
  BY DEF PopFront, e, IsDeque
<1> QED  BY <1>1, <1>2, <1>3

\* PushBack adds one item to a deque without limit.
LEMMA PushBackLen ==
  ASSUME NEW d, NEW v, IsDeque(d)
  PROVE  IsDeque(PushBack(d, v)) /\ PushBack(d, v).len = d.len + 1
<1> DEFINE e == IF d.backIdx = BlockLen - 1
                THEN [d EXCEPT !.blocks = Append(@, newBlock), !.backIdx = -1]
                ELSE d
           f == [e EXCEPT !.blocks[Len(e.blocks)][e.backIdx + 1] = v,
                          !.backIdx = @ + 1, !.len = @ + 1]
<1>1. IsDeque(e) /\ e.len = d.len
  BY DEF IsDeque, Fields
<1> HIDE DEF e
<1>2. IsDeque(f) /\ f.len = e.len + 1
  <2>1. DOMAIN f = Fields
    BY <1>1 DEF IsDeque
  <2>2. f.maxLen = e.maxLen /\ f.len = e.len + 1
    BY <1>1 DEF IsDeque, Fields
  <2> QED  BY <1>1, <2>1, <2>2 DEF IsDeque
<1> HIDE DEF f
<1>3. ~OverLimit(f)
  BY <1>2 DEF OverLimit, IsDeque
<1>4. PushBack(d, v) = IF OverLimit(f) THEN PopFront(f) ELSE f
  BY DEF PushBack, e, f
<1> QED  BY <1>1, <1>2, <1>3, <1>4

-----------------------------------------------------------------------------

\* The inductive invariant.  The sleepers are not among the woken, or Signal
\* might wake nobody new, and the deque has no limit, or Push might drop items.
WakeInv ==
  /\ IsDeque(Q) /\ closed \in BOOLEAN
  /\ waiters \in Seq(Poppers) /\ IsInjective(waiters)
  /\ IsFiniteSet(woken) /\ woken \subseteq Poppers /\ woken \cap Range(waiters) = {}
  /\ NoLostWakeup

LEMMA WakeInvInit == ChanInit => WakeInv
<1> SUFFICES ASSUME ChanInit PROVE WakeInv
  OBVIOUS
<1>1. IsDeque(Q)
  BY NewIsDeque DEF ChanInit
<1>2. IsFiniteSet(woken)
  BY FS_EmptySet DEF ChanInit
<1>3. waiters \in Seq(Poppers) /\ IsInjective(waiters)
  BY DEF ChanInit, IsInjective
<1> QED  BY <1>1, <1>2, <1>3 DEF ChanInit, WakeInv, NoLostWakeup

\* Pop and the return of cond.Wait: the loop with mu held.
LEMMA PopLoopStep ==
  ASSUME WakeInv, NEW p \in Poppers, p \notin Range(waiters), PopLoop(p), closed' = closed
  PROVE  WakeInv'
<1> USE DEF WakeInv
<1>1. Cardinality(woken) \in Nat
  BY FS_CardinalityType
<1>2. /\ woken' = woken \ {p} /\ IsFiniteSet(woken') /\ woken' \subseteq Poppers
      /\ Cardinality(woken') = IF p \in woken THEN Cardinality(woken) - 1 ELSE Cardinality(woken)
  BY FS_RemoveElement DEF PopLoop
<1>3. Cardinality(woken') \in Nat /\ Cardinality(woken') >= Cardinality(woken) - 1
  BY <1>1, <1>2, FS_CardinalityType
<1>4. CASE MustWait
  <2>1. waiters' = Append(waiters, p) /\ Q' = Q /\ Q.len = 0 /\ ~closed
    BY <1>4 DEF PopLoop, MustWait
  <2>2. waiters' \in Seq(Poppers)
    BY <2>1, AppendProperties
  <2>3. /\ Len(waiters) \in Nat /\ DOMAIN waiters = 1 .. Len(waiters)
        /\ DOMAIN waiters' = 1 .. Len(waiters) + 1
        /\ \A i \in 1 .. Len(waiters) : waiters'[i] = waiters[i] /\ waiters[i] # p
        /\ waiters'[Len(waiters) + 1] = p
    BY <2>1 DEF Range
  <2>4. IsInjective(waiters')
    BY <2>3 DEF IsInjective
  <2>5. woken' \cap Range(waiters') = {}
    BY <1>2, <2>3 DEF Range
  <2>6. NoLostWakeup'
    BY <1>3, <2>1 DEF NoLostWakeup
  <2> QED  BY <1>2, <2>1, <2>2, <2>4, <2>5, <2>6
<1>5. CASE ~MustWait /\ Q.len > 0
  <2>1. waiters' = waiters /\ IsDeque(Q') /\ Q'.len = Q.len - 1
    BY <1>5, PopFrontLen DEF PopLoop, Take
  <2>2. NoLostWakeup'
    BY <1>1, <1>3, <2>1 DEF NoLostWakeup, IsDeque
  <2> QED  BY <1>2, <2>1, <2>2
<1>6. CASE ~MustWait /\ ~(Q.len > 0)
  <2>1. waiters' = waiters /\ Q' = Q /\ Q.len = 0
    BY <1>6 DEF PopLoop, IsDeque
  <2>2. NoLostWakeup'
    BY <1>3, <2>1 DEF NoLostWakeup
  <2> QED  BY <1>2, <2>1, <2>2
<1> QED  BY <1>4, <1>5, <1>6

LEMMA PushStep ==
  ASSUME WakeInv, Push
  PROVE  WakeInv'
<1> USE DEF WakeInv
<1>1. IsDeque(Q') /\ Q'.len = Q.len + 1 /\ closed' = closed /\ ~closed
  BY PushBackLen DEF Push
<1>2. CASE waiters = <<>>
  BY <1>1, <1>2 DEF Push, Signal, NoLostWakeup
<1>3. CASE waiters # <<>>
  <2>1. waiters' = Tail(waiters) /\ woken' = woken \cup {Head(waiters)}
    BY <1>3 DEF Push, Signal
  <2>2. /\ waiters' \in Seq(Poppers) /\ Head(waiters) \in Poppers
        /\ Len(waiters') = Len(waiters) - 1
        /\ \A i \in 1 .. Len(waiters') : waiters'[i] = waiters[i + 1]
    BY <1>3, <2>1, HeadTailProperties
  <2>3. /\ Len(waiters) \in Nat \ {0} /\ DOMAIN waiters = 1 .. Len(waiters)
        /\ DOMAIN waiters' = 1 .. Len(waiters) - 1 /\ Head(waiters) = waiters[1]
    BY <1>3, <2>2
  <2>4. IsInjective(waiters')
    <3> SUFFICES ASSUME NEW i \in DOMAIN waiters', NEW j \in DOMAIN waiters',
                        waiters'[i] = waiters'[j]
                 PROVE  i = j
      BY DEF IsInjective
    <3>1. i + 1 \in DOMAIN waiters /\ j + 1 \in DOMAIN waiters
      BY <2>3
    <3>2. waiters[i + 1] = waiters[j + 1]
      BY <2>2, <2>3
    <3>3. i + 1 = j + 1
      BY <3>1, <3>2 DEF IsInjective
    <3> QED  BY <2>3, <3>3
  <2>5. Head(waiters) \notin woken
    BY <2>3 DEF Range
  <2>6. \A i \in DOMAIN waiters' : waiters'[i] \in Range(waiters) /\ waiters'[i] # Head(waiters)
    BY <2>2, <2>3 DEF Range, IsInjective
  <2>7. woken' \cap Range(waiters') = {}
    BY <2>1, <2>6 DEF Range
  <2>8. IsFiniteSet(woken') /\ Cardinality(woken') = Cardinality(woken) + 1
    BY <2>1, <2>5, FS_AddElement
  <2>9. NoLostWakeup'
    BY <1>1, <1>3, <2>8, FS_CardinalityType DEF NoLostWakeup, IsDeque
  <2> QED  BY <1>1, <2>1, <2>2, <2>4, <2>7, <2>8, <2>9
<1> QED  BY <1>2, <1>3

LEMMA CloseStep ==
  ASSUME WakeInv, Close
  PROVE  WakeInv'
<1> USE DEF WakeInv
<1>1. waiters' = <<>> /\ woken' = woken \cup Range(waiters) /\ Q' = Q /\ closed' = TRUE
  BY DEF Close, Broadcast
<1>2. Range(waiters) \subseteq Poppers /\ IsFiniteSet(Range(waiters))
  <2>1. waiters \in Surjection(1 .. Len(waiters), Range(waiters))
    BY DEF Range, Surjection
  <2>2. IsFiniteSet(1 .. Len(waiters))
    BY FS_Interval
  <2>3. IsFiniteSet(Range(waiters))
    BY <2>1, <2>2, FS_Surjection
  <2>4. Range(waiters) \subseteq Poppers
    BY DEF Range
  <2> QED  BY <2>3, <2>4
<1>3. IsFiniteSet(woken')
  BY <1>1, <1>2, FS_Union
<1>4. waiters' \in Seq(Poppers) /\ IsInjective(waiters') /\ Range(waiters') = {}
  BY <1>1 DEF IsInjective, Range
<1> QED  BY <1>1, <1>2, <1>3, <1>4 DEF NoLostWakeup

LEMMA WakeInvStep == WakeInv /\ [ChanNext]_chanVars => WakeInv'
<1> SUFFICES ASSUME WakeInv, [ChanNext]_chanVars PROVE WakeInv'
  OBVIOUS
<1>1. ASSUME NEW p \in Poppers, Pop(p) \/ Resume(p) PROVE WakeInv'
  BY <1>1, PopLoopStep DEF Pop, Resume, WakeInv
<1>2. ASSUME NEW b \in BOOLEAN, SetWaitOption(b) PROVE WakeInv'
  BY <1>2 DEF SetWaitOption, WakeInv, NoLostWakeup
<1>3. CASE TryPop
  <2>1. IsDeque(Q') /\ Q'.len = Q.len - 1
    BY <1>3, PopFrontLen DEF TryPop, Take, WakeInv
  <2>2. waiters' = waiters /\ woken' = woken /\ closed' = closed
    BY <1>3 DEF TryPop
  <2>3. NoLostWakeup'
    BY <2>1, <2>2, FS_CardinalityType DEF WakeInv, NoLostWakeup, IsDeque
  <2> QED  BY <2>1, <2>2, <2>3 DEF WakeInv
<1>4. CASE UNCHANGED chanVars
  BY <1>4 DEF chanVars, WakeInv, NoLostWakeup
<1> QED  BY <1>1, <1>2, <1>3, <1>4, PushStep, CloseStep DEF ChanNext

\* While goroutines sleep in Pop there is a woken one for every item and the
\* channel is open: Push, Pop, TryPop, SetWaitOption and Close, for any number
\* of goroutines and pushes.
THEOREM WakeupsKept == ChanSpec => []NoLostWakeup
<1>1. WakeInv => NoLostWakeup
  BY DEF WakeInv
<1> QED
  BY <1>1, WakeInvInit, WakeInvStep, PTL DEF ChanSpec
=============================================================================
