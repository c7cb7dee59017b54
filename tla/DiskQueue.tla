----------------------------- MODULE DiskQueue -----------------------------
(***************************************************************************)
(* container/queue/disk/diskqueue.go: a FIFO queue in numbered data files  *)
(* and a metadata file.  One goroutine, ioLoop, does all the work; between *)
(* any two of its steps the process may be killed, which keeps the files   *)
(* and forgets the rest.                                                   *)
(*                                                                         *)
(* A data file is a sequence of cells.  Message m takes Size[m] cells,     *)
(* <<m, 1>> with its length prefix to <<m, Size[m]>>.  Messages are        *)
(* numbered in the order of the calls of Put.                              *)
(***************************************************************************)
EXTENDS Integers, Sequences, SequencesExt, FiniteSets

CONSTANTS
  MaxPut,            \* bound on messages
  Long,              \* messages of two cells, the others have one
  MaxBytesPerFile,   \* maxBytesPerFile, in cells
  SyncEvery,         \* syncEvery
  BufLen,            \* what one fill of the bufio.Reader takes, in cells
  MaxFile,           \* bound on file numbers
  MaxCrash,          \* bound on crashes
  MaxFault,          \* bound on failing writes and syncs
  Empties            \* bound on calls of Empty

Msgs == 1 .. MaxPut
Size == [m \in Msgs |-> IF m \in Long THEN 2 ELSE 1]
NoMsg == 0
Garbage == -1                   \* bytes that are no message that was put
Files == 0 .. MaxFile
NoFile == << <<-1, -1>> >>      \* no cell of a file is like this
NoMeta == [depth |-> 0, readFileNum |-> 0, readPos |-> 0, writeFileNum |-> 0, writePos |-> 0]

VARIABLES
  file,      \* the data files
  meta,      \* the metadata file; NoMeta reads like a missing one
  pos,       \* depth, readFileNum, readPos, writeFileNum, writePos
  next,      \* nextReadFileNum, nextReadPos
  needSync, count,
  readFile,  \* readFile # nil
  reader,    \* cells in the buffer of the bufio.Reader
  dataRead,  \* message read ahead
  pc,        \* where ioLoop, Close and New are
  putting,   \* the message of the Put that writeOne serves
  nput,      \* history: messages given to Put so far
  got,       \* history: the last delivery
  durable,   \* history: the queue when the metadata was last written
  since,     \* history: deliveries after that
  recovered, \* history: what a restart found and is not delivered yet
  stale,     \* history: the reader buffered bytes that writeOne may overwrite
  budget     \* remaining crashes, faults and calls of Empty

disk == <<file, meta>>
mem == <<pos, next, needSync, count, readFile, reader, dataRead, putting>>
saved == <<durable, since>>
hist == <<nput, got, saved, recovered, budget>>
vars == <<disk, mem, pc, hist, stale>>

Cell == (Msgs \X (1 .. 3)) \cup {<<NoMsg, 0>>}
Hole == <<NoMsg, 0>>

TypeOK ==
  /\ \A n \in Files : file[n] = NoFile \/ Range(file[n]) \subseteq Cell
  /\ pos.depth \in -MaxPut .. MaxPut
  /\ {pos.readFileNum, pos.writeFileNum, next.fileNum} \subseteq Files
  /\ {pos.readPos, pos.writePos, next.pos} \subseteq 0 .. MaxBytesPerFile + 3
  /\ needSync \in BOOLEAN /\ count \in 0 .. SyncEvery
  /\ readFile \in BOOLEAN /\ Range(reader) \subseteq Cell
  /\ dataRead \in Msgs \cup {NoMsg, Garbage}
  /\ pc \in {"top", "read", "select", "roll", "empty", "close", "down"}

-----------------------------------------------------------------------------

\* The messages of a file from a position on, as a reader that meets no stale
\* byte would find them, up to the position where writeOne left the file.
Walk(n, from, to) ==
  LET f == file[n]
      w[p \in 0 .. Len(f) + 1] ==
        IF p >= to \/ p >= Len(f) \/ p > MaxBytesPerFile \/ f[p + 1][2] # 1 THEN <<>>
        ELSE <<f[p + 1][1]>> \o w[p + Size[f[p + 1][1]]]
  IN IF f = NoFile \/ from > Len(f) THEN <<>> ELSE w[from]

\* The queue the files hold between the positions of p.
Contents(p) ==
  FlattenSeq([i \in 1 .. p.writeFileNum - p.readFileNum + 1 |->
    LET n == p.readFileNum + i - 1
    IN Walk(n, IF n = p.readFileNum THEN p.readPos ELSE 0,
            IF n = p.writeFileNum THEN p.writePos ELSE MaxBytesPerFile + 1)])

\* persistMetaData stores the read position of what was delivered, not of what
\* was read ahead.
MetaData_readAhead(p) == [p EXCEPT !.readFileNum = next.fileNum, !.readPos = next.pos]
MetaData(p) == p

Persisted(p) == meta' = MetaData(p) /\ durable' = Contents(p) /\ since' = {}

-----------------------------------------------------------------------------
(* retrieveMetaData *)

NextAfterLoad_zero(m) == [fileNum |-> 0, pos |-> 0]
NextAfterLoad(m) == [fileNum |-> m.readFileNum, pos |-> m.readPos]

Loaded(m) ==
  /\ pos' = m
  /\ next' = NextAfterLoad(m)
  /\ needSync' = FALSE /\ count' = 0
  /\ readFile' = FALSE /\ reader' = <<>> /\ dataRead' = NoMsg /\ putting' = NoMsg
  /\ stale' = FALSE

Init ==
  /\ file = [n \in Files |-> NoFile] /\ meta = NoMeta
  /\ pos = NoMeta /\ next = [fileNum |-> 0, pos |-> 0]
  /\ needSync = FALSE /\ count = 0
  /\ readFile = FALSE /\ reader = <<>> /\ dataRead = NoMsg /\ putting = NoMsg
  /\ pc = "top"
  /\ nput = 0 /\ got = NoMsg
  /\ durable = <<>> /\ since = {} /\ recovered = <<>>
  /\ stale = FALSE
  /\ budget = [crash |-> MaxCrash, fault |-> MaxFault, empty |-> Empties]

New ==
  /\ pc = "down"
  /\ Loaded(meta)
  /\ pc' = "top"
  /\ UNCHANGED <<disk, hist>>

-----------------------------------------------------------------------------
(* The top of the loop: sync, then read ahead. *)

SyncDue == needSync \/ count = SyncEvery

\* sync: fsync of the data file, then the metadata is replaced by a rename.
Sync ==
  /\ pc = "top"
  /\ pc' = "read"
  /\ IF SyncDue THEN Persisted(pos) /\ needSync' = FALSE /\ count' = 0
     ELSE UNCHANGED <<meta, saved, needSync, count>>
  /\ UNCHANGED <<file, pos, next, readFile, reader, dataRead, putting, nput, got, recovered, budget, stale>>

\* An fsync or the write of the metadata fails: needSync stays for the next turn.
SyncFails ==
  /\ pc = "top" /\ SyncDue /\ budget.fault > 0
  /\ pc' = "read"
  /\ needSync' = TRUE /\ count' = 0
  /\ budget' = [budget EXCEPT !.fault = @ - 1]
  /\ UNCHANGED <<disk, pos, next, readFile, reader, dataRead, putting, nput, got, saved, recovered, stale>>

HasData == pos.readFileNum < pos.writeFileNum \/ pos.readPos < pos.writePos

\* The bytes the reader sees: what it buffered, then the file as it is now.
FileRest(n, from) == IF file[n] = NoFile THEN <<>> ELSE SubSeq(file[n], from + 1, Len(file[n]))
Offset == pos.readPos + (IF readFile THEN Len(reader) ELSE 0)
Stream == (IF readFile THEN reader ELSE <<>>) \o FileRest(pos.readFileNum, Offset)

\* The buffer after n cells were read: it is filled, in one go, when empty.
Buffered(n) ==
  LET b == IF readFile THEN Len(reader) ELSE 0
      fills == IF n <= b THEN 0 ELSE ((n - b) + BufLen - 1) \div BufLen
      end == b + fills * BufLen
  IN SubSeq(Stream, n + 1, IF end < Len(Stream) THEN end ELSE Len(Stream))

\* readOne of a message of n cells that makes msg.  The file is closed when the
\* message ends beyond maxBytesPerFile, as writeOne closed it.
Rolls(p) == p > MaxBytesPerFile

ReadMsg(msg, n) ==
  LET p == pos.readPos + n IN
  /\ dataRead' = msg
  /\ IF Rolls(p)
     THEN /\ next' = [fileNum |-> pos.readFileNum + 1, pos |-> 0]
          /\ readFile' = FALSE /\ reader' = <<>>
     ELSE /\ next' = [fileNum |-> pos.readFileNum, pos |-> p]
          /\ readFile' = TRUE /\ reader' = Buffered(n)
  /\ stale' = (stale \/ (/\ ~Rolls(p) /\ pos.readFileNum = pos.writeFileNum
                        /\ p + Len(Buffered(n)) > pos.writePos))
  /\ pc' = "select"
  /\ UNCHANGED <<pos, needSync>>

\* handleReadError: keep the bad file under another name and go on with the
\* next file, which writeOne then starts if it wrote to the bad one.
handleReadError ==
  LET n == pos.readFileNum + 1 IN
  /\ n <= MaxFile
  /\ pos' = [pos EXCEPT !.readFileNum = n, !.readPos = 0,
                        !.writeFileNum = IF @ = n - 1 THEN n ELSE @,
                        !.writePos = IF pos.writeFileNum = n - 1 THEN 0 ELSE @]
  /\ file' = [file EXCEPT ![n - 1] = NoFile]
  /\ next' = [fileNum |-> n, pos |-> 0]
  /\ readFile' = FALSE /\ reader' = <<>>
  /\ needSync' = TRUE
  /\ pc' = "top"
  /\ UNCHANGED <<dataRead, stale>>

\* What readOne makes of the bytes at readPos.  A length prefix that is not one
\* is out of range, or else in range by chance.
readOne ==
  IF Stream = <<>> THEN handleReadError /\ UNCHANGED meta
  ELSE LET m == Stream[1][1]
           n == IF m = NoMsg THEN 0 ELSE Size[m]
           msg == IF \A i \in 1 .. n : Stream[i] = <<m, i>> THEN m ELSE Garbage
       IN IF Stream[1][2] # 1
          THEN \/ handleReadError /\ UNCHANGED meta
               \/ m # NoMsg /\ ReadMsg(Garbage, 1) /\ UNCHANGED disk
          ELSE IF n > Len(Stream) THEN handleReadError /\ UNCHANGED meta
          ELSE ReadMsg(msg, n) /\ UNCHANGED disk

ReadAhead ==
  /\ pc = "read"
  /\ IF HasData /\ next.pos = pos.readPos THEN readOne
     ELSE pc' = "select" /\ UNCHANGED <<disk, pos, next, needSync, readFile, reader, dataRead, stale>>
  /\ UNCHANGED <<count, putting, hist>>

-----------------------------------------------------------------------------
(* The select *)

\* skipToNextRWFile, once the files are gone.
SkippedPos ==
  LET n == pos.writeFileNum + 1
  IN [depth |-> 0, readFileNum |-> n, readPos |-> 0, writeFileNum |-> n, writePos |-> 0]

AtTail(p) == ~(p.readFileNum < p.writeFileNum \/ p.readPos < p.writePos)

\* case r <- dataRead: moveForward with checkTailCorruption.
MovedPos ==
  [pos EXCEPT !.readFileNum = next.fileNum, !.readPos = next.pos, !.depth = @ - 1]

Deliver ==
  LET p == MovedPos
      torn == AtTail(p) /\ (p.readFileNum # p.writeFileNum \/ p.readPos # p.writePos)
      removed == (IF p.readFileNum # pos.readFileNum THEN {pos.readFileNum} ELSE {})
                 \cup (IF torn THEN p.readFileNum .. p.writeFileNum ELSE {})
  IN
  /\ pc = "select" /\ HasData
  /\ torn => pos.writeFileNum < MaxFile
  /\ got' = dataRead
  /\ since' = since \cup {dataRead}
  /\ recovered' = IF recovered = <<>> THEN <<>> ELSE Tail(recovered)
  /\ file' = [n \in Files |-> IF n \in removed THEN NoFile ELSE file[n]]
  /\ pos' = IF torn THEN SkippedPos
            ELSE IF AtTail(p) THEN [p EXCEPT !.depth = 0] ELSE p
  /\ next' = IF torn THEN [fileNum |-> pos.writeFileNum + 1, pos |-> 0] ELSE next
  /\ needSync' = (needSync \/ torn \/ removed # {} \/ (AtTail(p) /\ p.depth # 0))
  /\ IF torn THEN readFile' = FALSE /\ reader' = <<>> ELSE UNCHANGED <<readFile, reader>>
  /\ count' = count + 1
  /\ pc' = "top"
  /\ UNCHANGED <<meta, dataRead, putting, nput, durable, budget, stale>>

\* The cells of a message written over a file at a position.
Overwrite(f, at, cells) ==
  LET old == IF f = NoFile THEN <<>> ELSE f
      len == IF at + Len(cells) > Len(old) THEN at + Len(cells) ELSE Len(old)
  IN [i \in 1 .. len |-> IF i \in at + 1 .. at + Len(cells) THEN cells[i - at]
                         ELSE IF i <= Len(old) THEN old[i] ELSE Hole]

CellsOf(m) == [i \in 1 .. Size[m] |-> <<m, i>>]

\* case dataWrite := <-d.writeChan: writeOne up to the roll of the file.
Put ==
  LET m == nput + 1
      n == pos.writeFileNum
  IN
  /\ pc = "select" /\ m <= MaxPut
  /\ file' = [file EXCEPT ![n] = Overwrite(@, pos.writePos, CellsOf(m))]
  /\ pos' = [pos EXCEPT !.writePos = @ + Size[m], !.depth = @ + 1]
  /\ nput' = m
  /\ count' = count + 1
  /\ IF Rolls(pos.writePos + Size[m])
     THEN n < MaxFile /\ pc' = "roll" /\ putting' = m
     ELSE pc' = "top" /\ UNCHANGED putting
  /\ UNCHANGED <<meta, next, needSync, readFile, reader, dataRead, got, saved, recovered, budget, stale>>

\* A write that fails may have written a part; writePos stays.
PutFails ==
  LET m == nput + 1 IN
  /\ pc = "select" /\ m <= MaxPut /\ budget.fault > 0
  /\ \E k \in 0 .. Size[m] :
       file' = [file EXCEPT ![pos.writeFileNum] =
                  Overwrite(@, pos.writePos, SubSeq(CellsOf(m), 1, k))]
  /\ nput' = m
  /\ count' = count + 1 /\ pc' = "top"
  /\ budget' = [budget EXCEPT !.fault = @ - 1]
  /\ UNCHANGED <<meta, pos, next, needSync, readFile, reader, dataRead, putting, got, saved, recovered, stale>>

\* writeOne starts a new file: sync, and the response to Put.
RolledPos_keepsPos == [pos EXCEPT !.writeFileNum = @ + 1]
RolledPos == [pos EXCEPT !.writeFileNum = @ + 1, !.writePos = 0]

Roll ==
  /\ pc = "roll"
  /\ pos' = RolledPos
  /\ Persisted(RolledPos) /\ needSync' = FALSE
  /\ putting' = NoMsg
  /\ pc' = "top"
  /\ UNCHANGED <<file, next, count, readFile, reader, dataRead, nput, got, recovered, budget, stale>>

\* The sync fails: Put returns its error although the message is in the queue.
RollSyncFails ==
  /\ pc = "roll" /\ budget.fault > 0
  /\ pos' = RolledPos
  /\ putting' = NoMsg
  /\ budget' = [budget EXCEPT !.fault = @ - 1]
  /\ pc' = "top"
  /\ UNCHANGED <<disk, next, needSync, count, readFile, reader, dataRead, nput, got, saved, recovered, stale>>

\* case <-syncTicker.C
Tick ==
  /\ pc = "select" /\ count > 0
  /\ needSync' = TRUE /\ pc' = "top"
  /\ UNCHANGED <<disk, pos, next, count, readFile, reader, dataRead, putting, hist, stale>>

\* case <-d.emptyChan: deleteAllFiles closes and removes the data files one by
\* one ...
Empty ==
  /\ pc = "select" /\ budget.empty > 0 /\ pos.writeFileNum < MaxFile
  /\ budget' = [budget EXCEPT !.empty = @ - 1]
  /\ readFile' = FALSE /\ reader' = <<>>
  /\ durable' = <<>> /\ recovered' = <<>>
  /\ pc' = "empty"
  /\ UNCHANGED <<disk, pos, next, needSync, count, dataRead, putting, nput, got, since, stale>>

EmptyFile ==
  /\ pc = "empty"
  /\ \E n \in pos.readFileNum .. pos.writeFileNum :
       /\ file[n] # NoFile
       /\ \A k \in pos.readFileNum .. n - 1 : file[k] = NoFile
       /\ file' = [file EXCEPT ![n] = NoFile]
  /\ UNCHANGED <<meta, mem, pc, hist, stale>>

\* ... then moves the positions on and removes the metadata file.
EmptyMeta ==
  /\ pc = "empty"
  /\ \A n \in pos.readFileNum .. pos.writeFileNum : file[n] = NoFile
  /\ pos' = SkippedPos
  /\ next' = [fileNum |-> pos.writeFileNum + 1, pos |-> 0]
  /\ meta' = NoMeta
  /\ count' = 0
  /\ pc' = "top"
  /\ UNCHANGED <<file, needSync, readFile, reader, dataRead, putting, hist, stale>>

\* case <-d.exitChan, then the sync of Close.
Exit ==
  /\ pc = "select"
  /\ readFile' = FALSE /\ reader' = <<>>
  /\ pc' = "close"
  /\ UNCHANGED <<disk, pos, next, needSync, count, dataRead, putting, hist, stale>>

CloseSync ==
  /\ pc = "close"
  /\ Persisted(pos)
  /\ pc' = "down"
  /\ UNCHANGED <<file, mem, nput, got, recovered, budget, stale>>

\* The process is killed.
Crash ==
  /\ pc # "down" /\ budget.crash > 0
  /\ pc' = "down"
  /\ budget' = [budget EXCEPT !.crash = @ - 1]
  /\ recovered' = Contents(meta)
  /\ durable' = Contents(meta) /\ since' = {}
  /\ UNCHANGED <<disk, mem, nput, got, stale>>

ioLoop ==
  \/ Sync \/ SyncFails \/ ReadAhead \/ Deliver \/ Put \/ PutFails \/ Roll
  \/ RollSyncFails \/ Tick \/ Empty \/ EmptyFile \/ EmptyMeta

Next == ioLoop \/ Exit \/ CloseSync \/ New \/ Crash

Spec == Init /\ [][Next]_vars

-----------------------------------------------------------------------------

\* The queue as callers know it; a restart starts from the metadata.
Queue == IF pc = "empty" THEN <<>>
         ELSE IF pc = "down" THEN Contents(meta) ELSE Contents(pos)

\* "diskQueue implements a filesystem backed FIFO queue".  Files that fill up,
\* are rolled over and removed behind the reader, emptied, closed and opened
\* again, writes and syncs that fail, are one queue to the callers: only Put
\* adds, at the end; a delivery takes the oldest message; nothing else but a
\* crash or Empty changes it.  All this as long as the bufio.Reader has not
\* buffered bytes that a crash or a failed write left beyond writePos.
QueueSteps ==
  [][~stale => IF Deliver
               THEN Queue # <<>> /\ dataRead = Head(Queue) /\ Queue' = Tail(Queue)
               ELSE \/ Put /\ Queue' = Append(Queue, nput')
                    \/ Queue' = Queue
                    \/ Empty \/ Crash]_vars

\* "diskQueue implements a filesystem backed FIFO queue", whatever the reader
\* has buffered: what is delivered is the oldest message the queue holds.
DeliversOldest ==
  [][Deliver => Queue # <<>> /\ dataRead = Head(Queue)]_vars

\* Whenever the process is killed, the metadata on disk leads to every message
\* the queue held when it was written, but for those delivered since then: the
\* read file is removed before the metadata says so, and the files go on to be
\* written.  Until something fails, Depth is the length of the queue.
Recoverable ==
  /\ TypeOK
  /\ pc # "empty" /\ ~stale =>
       \E k \in 0 .. Len(durable) :
         /\ Contents(meta) = SubSeq(durable, k + 1, Len(durable))
         /\ \A i \in 1 .. k : durable[i] \in since
  /\ budget.crash = MaxCrash /\ budget.fault = MaxFault /\ pc # "empty" => pos.depth = Len(Queue)

\* After a restart the messages it found are delivered first, all of them and
\* in their order, whatever is put, fails or is read ahead meanwhile.
RecoveredInOrder ==
  [][Deliver /\ recovered # <<>> => dataRead = Head(recovered)]_vars
=============================================================================
