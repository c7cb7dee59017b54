------------------------------ MODULE BigQueue ------------------------------
(***************************************************************************)
(* container/queue/bigqueue: a persistent queue in arenas, memory mapped   *)
(* files of one size, with head and tail in an index that is mapped too.   *)
(* A length is LenSize bytes in one arena; the bytes of a message go on    *)
(* from arena to arena.  The arena manager keeps at most MaxInMemArenas    *)
(* arenas mapped (0: any number) and deletes those before the head.        *)
(*                                                                         *)
(* s.files[aid] is an arena's file, None if there is none; the mapping is  *)
(* shared, so a written arena is its file.  s.list are the arenas from     *)
(* s.base on, TRUE where one is mapped.  The m-th message consists of the  *)
(* byte m, length times.  The queue has no lock: one caller at a time.     *)
(*                                                                         *)
(* s.doom is an arena in whose creation the process is to die, between the *)
(* creation of the file and its truncation to the size; s.dead that it     *)
(* died there, or by touching mapped memory behind the end of the file.    *)
(*                                                                         *)
(* ref.q are the messages that should be in the queue, ref.torn whether a  *)
(* crash between the two words left a wrong "head" or "tail", ref.at where *)
(* a torn head should be, ref.odd the arenas of another size: left empty   *)
(* by a death, or created by an opening with another size.  ref.bus is     *)
(* that an Enqueue died of such an arena.                                  *)
(***************************************************************************)
EXTENDS Integers, Sequences, FiniteSets

CONSTANTS ArenaSize, OtherSizes, LenSize, MaxInMemArenas, MaxLength, MaxMessages, MaxStarts

VARIABLES s, ref

None == <<-1>>
RECURSIVE Fill(_, _)
Fill(n, x) == IF n = 0 THEN <<>> ELSE Append(Fill(n - 1, x), x)
Aids == 0..(MaxMessages * (LenSize + MaxLength))
\* openOrCreateFile: a file that is there is opened as it is; a new one is
\* created empty and then truncated to its size, that is full of zeros.
newArena(t, aid, size) ==
  IF t.dead \/ t.files[aid] # None THEN t
  ELSE IF aid = t.doom THEN [t EXCEPT !.files[aid] = <<>>, !.dead = TRUE]
  ELSE [t EXCEPT !.files[aid] = Fill(size, 0)]

\* Bytes i of an arena become x; behind the end of the file there is no memory.
Stored(t, aid, i, x) ==
  IF t.dead THEN t
  ELSE IF ~(i \subseteq DOMAIN t.files[aid]) THEN [t EXCEPT !.dead = TRUE]
  ELSE [t EXCEPT !.files[aid] = [j \in DOMAIN @ |-> IF j \in i THEN x ELSE @[j]]]

Loaded(t, aid) == t.list[aid - t.base + 1]
loadArenaIntoMemory(t, aid, size) ==
  IF Loaded(t, aid) THEN t
  ELSE [newArena(t, aid, size) EXCEPT !.list[aid - t.base + 1] = TRUE, !.mem = @ + 1]
unloadArenaFromMemory(t, aid) ==
  IF ~Loaded(t, aid) THEN t ELSE [t EXCEPT !.list[aid - t.base + 1] = FALSE, !.mem = @ - 1]
deleteArenaBackedFile(t, aid) == [t EXCEPT !.files[aid] = None]

newArenaManager(t, size) ==
  LET u == [t EXCEPT !.base = t.head[1], !.mem = 0, !.list = Fill(t.tail[1] + 1 - t.head[1], FALSE)]
  IN  loadArenaIntoMemory(loadArenaIntoMemory(u, t.head[1], size), t.tail[1], size)

NewBigQueue(t) ==
  [newArenaManager([t EXCEPT !.doom = -1, !.dead = FALSE], ArenaSize) EXCEPT !.size = ArenaSize]

Init ==
  /\ s = NewBigQueue([head |-> <<0, 0>>, tail |-> <<0, 0>>, size |-> 0, files |-> [a \in Aids |-> None],
                      base |-> 0, list |-> <<>>, mem |-> 0, err |-> FALSE, doom |-> -1, dead |-> FALSE])
  /\ ref = [q |-> <<>>, sent |-> 0, starts |-> 0, torn |-> "no", at |-> <<0, 0>>, odd |-> {},
            bus |-> FALSE, wrong |-> FALSE]

\* ensureEnoughMem: arenas before the head are unmapped and deleted; others are
\* unmapped from the last on, the head's and the tail's excepted.
Passed_inclusive(t, aid) == aid <= t.head[1]
Passed(t, aid) == aid < t.head[1]

RECURSIVE DropBefore(_, _)
DropBefore(t, aid) ==
  IF ~Passed(t, aid) THEN t ELSE DropBefore(deleteArenaBackedFile(unloadArenaFromMemory(t, aid), aid), aid + 1)

Pinned(t, aid) == aid \in {t.head[1], t.tail[1]}

RECURSIVE EvictBelow(_, _)
EvictBelow(t, aid) ==
  IF t.mem < MaxInMemArenas THEN t
  ELSE IF aid <= t.base THEN [t EXCEPT !.err = TRUE]
  ELSE EvictBelow(IF Pinned(t, aid - 1) THEN t ELSE unloadArenaFromMemory(t, aid - 1), aid - 1)

ensureEnoughMem(t) ==
  LET u == DropBefore(t, t.base)
  IN  IF MaxInMemArenas = 0 \/ u.mem < MaxInMemArenas THEN u ELSE EvictBelow(u, u.base + Len(u.list))

getArena(t, aid) ==
  LET rel == aid - t.base
      u == IF rel = Len(t.list) THEN [t EXCEPT !.list = Append(@, FALSE)] ELSE t
  IN  IF rel > Len(t.list) \/ rel < 0 THEN [t EXCEPT !.err = TRUE]
      ELSE IF Loaded(u, aid) THEN u
      ELSE loadArenaIntoMemory(ensureEnoughMem(u), aid, ArenaSize)

\* A position at the end of an arena is the beginning of the next one.
Carry(aid, pos) == IF pos = ArenaSize THEN <<aid + 1, 0>> ELSE <<aid, pos>>
\* Where a length that should be at p is: never across two arenas.
LengthAt(p) == IF p[2] + LenSize > ArenaSize THEN <<p[1] + 1, 0>> ELSE p

\* The next functions return the state and the position after the bytes.
writeLength(t, p, n) ==
  LET a == LengthAt(p)
  IN  <<Stored(Stored(getArena(t, a[1]), a[1], {a[2] + 1}, n), a[1], (a[2] + 2)..(a[2] + LenSize), 0),
        Carry(a[1], a[2] + LenSize)>>

RECURSIVE writeBytes(_, _, _, _)
writeBytes(t, p, m, n) ==
  LET u == getArena(t, p[1])
      k == IF n < ArenaSize - p[2] THEN n ELSE ArenaSize - p[2]
      v == Stored(u, p[1], (p[2] + 1)..(p[2] + k), m)
      next == Carry(p[1], p[2] + k)
  IN  IF k = n THEN <<v, next>> ELSE writeBytes(v, next, m, n - k)

Written(m, n, doom) ==
  LET l == writeLength([s EXCEPT !.doom = doom], s.tail, n) IN writeBytes(l[1], l[2], m, n)

IsEmpty == s.head = s.tail

readLength(t, p) ==
  LET a == LengthAt(p)
      u == getArena(t, a[1])
  IN  [t |-> u, p |-> Carry(a[1], a[2] + LenSize), n |-> u.files[a[1]][a[2] + 1]]

RECURSIVE readBytes(_, _, _, _)
readBytes(t, p, n, got) ==
  LET u == getArena(t, p[1])
      k == IF n < ArenaSize - p[2] THEN n ELSE ArenaSize - p[2]
      now == got \o SubSeq(u.files[p[1]], p[2] + 1, p[2] + k)
  IN  IF k = n THEN [t |-> u, got |-> now] ELSE readBytes(u, Carry(p[1], p[2] + k), n - k, now)

\* The position after a message whose bytes begin at p.
After(p, n) == <<p[1] + ((p[2] + n) \div ArenaSize), (p[2] + n) % ArenaSize>>

Usable == ~s.err /\ ref.torn = "no"

Enqueue(n) ==
  /\ Usable /\ ref.sent < MaxMessages
  /\ LET m == ref.sent + 1 IN
     \E w \in {Written(m, n, -1)} :
       /\ ~w[1].dead
       /\ s' = [w[1] EXCEPT !.tail = w[2]]
       /\ ref' = [ref EXCEPT !.sent = m, !.q = Append(@, Fill(n, m))]

\* Enqueue reaches behind the end of an arena's file; the signal ends the
\* process, and the queue is opened again.
EnqueueKilled(n) ==
  /\ Usable /\ ref.sent < MaxMessages
  /\ \E w \in {Written(ref.sent + 1, n, -1)} :
       /\ w[1].dead
       /\ s' = NewBigQueue(w[1])
       /\ ref' = [ref EXCEPT !.sent = @ + 1, !.bus = TRUE]

Peek ==
  /\ Usable /\ ~IsEmpty
  /\ \E l \in {readLength(s, s.head)} : \E r \in {readBytes(l.t, l.p, l.n, <<>>)} :
       s' = r.t /\ ref' = [ref EXCEPT !.wrong = @ \/ r.got # Head(ref.q)]

Dequeue ==
  /\ Usable /\ ~IsEmpty
  /\ \E l \in {readLength(s, s.head)} : s' = [l.t EXCEPT !.head = After(l.p, l.n)]
  /\ ref' = [ref EXCEPT !.q = Tail(@)]

\* The process ends, by Close or not, and the queue is opened again.
Reopen ==
  /\ Usable /\ ref.starts < MaxStarts
  /\ s' = NewBigQueue(s)
  /\ ref' = [ref EXCEPT !.starts = @ + 1]

Dying == Usable /\ ref.starts < MaxStarts

\* The process dies in Enqueue or in Dequeue: before the index is written, or
\* between the two words of putTail or putHead.
DieInEnqueue(n, word) ==
  /\ Dying /\ ref.sent < MaxMessages
  /\ \E w \in {Written(ref.sent + 1, n, -1)} :
     LET tail == IF word THEN <<w[2][1], s.tail[2]>> ELSE s.tail IN
     /\ ~w[1].dead
     /\ s' = NewBigQueue([w[1] EXCEPT !.tail = tail])
     /\ ref' = [ref EXCEPT !.starts = @ + 1, !.sent = @ + 1,
                           !.q = IF tail = s.tail THEN @ ELSE Append(@, Fill(n, ref.sent + 1)),
                           !.torn = IF tail \in {s.tail, w[2]} THEN "no" ELSE "tail"]

DieInDequeue ==
  /\ Dying /\ ~IsEmpty
  /\ \E l \in {readLength(s, s.head)} :
     LET p == After(l.p, l.n)
         head == <<p[1], s.head[2]>>
     IN
     /\ s' = NewBigQueue([l.t EXCEPT !.head = head])
     /\ ref' = [ref EXCEPT !.starts = @ + 1, !.q = IF head = s.head THEN @ ELSE Tail(@),
                           !.torn = IF head \in {s.head, p} THEN "no" ELSE "head", !.at = p]

\* The process dies in newArena, when the file of an arena that Enqueue needs
\* has been created and not yet been truncated.
DieCreating(n) ==
  /\ Dying /\ ref.sent < MaxMessages
  /\ \E w \in {Written(ref.sent + 1, n, -1)} : \E aid \in {a \in Aids : s.files[a] # w[1].files[a]} :
     /\ s.files[aid] = None
     /\ s' = NewBigQueue(Written(ref.sent + 1, n, aid)[1])
     /\ ref' = [ref EXCEPT !.starts = @ + 1, !.sent = @ + 1, !.odd = @ \cup {aid}]

\* The same when the queue is opened, for the tail's arena.
DieOpening ==
  /\ Dying /\ s.files[s.tail[1]] = None
  /\ s' = NewBigQueue([s EXCEPT !.files[s.tail[1]] = <<>>])
  /\ ref' = [ref EXCEPT !.starts = @ + 1, !.odd = @ \cup {s.tail[1]}]

\* Opening with another arena size is refused, after the arenas of the head and
\* of the tail were opened or created with that size.
OpenOther(size) ==
  /\ Dying
  /\ \E u \in {newArenaManager(s, size)} :
     /\ s' = NewBigQueue([u EXCEPT !.list = <<>>])
     /\ ref' = [ref EXCEPT !.starts = @ + 1, !.odd = @ \cup {a \in Aids : u.files[a] # s.files[a]}]

Next ==
  \/ \E n \in 0..MaxLength :
       Enqueue(n) \/ EnqueueKilled(n) \/ DieCreating(n) \/ \E word \in BOOLEAN : DieInEnqueue(n, word)
  \/ Peek \/ Dequeue \/ Reopen \/ DieInDequeue \/ DieOpening \/ \E size \in OtherSizes : OpenOther(size)

-----------------------------------------------------------------------------
RECURSIVE ReadAll(_, _)
ReadAll(t, n) ==
  IF n = 0 THEN IF t.head = t.tail THEN <<>> ELSE <<"rest">>
  ELSE LET l == readLength(t, t.head)
       IN  <<readBytes(l.t, l.p, l.n, <<>>).got>> \o ReadAll([l.t EXCEPT !.head = After(l.p, l.n)], n - 1)

(***************************************************************************)
(* What was enqueued is in the queue, in order, whatever the lengths and   *)
(* the arenas, and through ends of the process at any point but one.  When *)
(* it ends between the two words of a tail that moves to another arena,    *)
(* the messages and the new one are read first, and then others that       *)
(* nobody enqueued; between the two words of such a head, the rest of the  *)
(* messages is still in the files, at the head that was to be written.     *)
(* Every arena has its size, except one whose file was created when the    *)
(* process died before the truncation, or when the queue was opened with   *)
(* another size: no later opening mends it, and only such an arena can     *)
(* kill an Enqueue.  An empty one is never before the tail.  The manager   *)
(* counts the mapped arenas exactly, stays within its limit and always     *)
(* finds one to unmap.                                                     *)
(***************************************************************************)
QueueSurvives ==
  /\ ~s.err /\ ~s.dead /\ ~ref.wrong
  /\ CASE ref.torn = "no" -> ReadAll(s, Len(ref.q)) = ref.q
       [] ref.torn = "tail" -> ReadAll(s, Len(ref.q)) = Append(ref.q, "rest")
       [] ref.torn = "head" -> s.head # ref.at /\ ReadAll([s EXCEPT !.head = ref.at], Len(ref.q)) = ref.q
  /\ \A a \in Aids : s.files[a] # None =>
       /\ Len(s.files[a]) = ArenaSize <=> a \notin ref.odd
       /\ s.files[a] = <<>> => a >= s.tail[1]
  /\ ref.bus => ref.odd # {}
  /\ s.mem = Cardinality({i \in DOMAIN s.list : s.list[i]})
  /\ MaxInMemArenas > 0 => s.mem <= MaxInMemArenas
  /\ \A i \in DOMAIN s.list : s.list[i] => s.files[s.base + i - 1] # None
=============================================================================
