------------------------------- MODULE Rsync -------------------------------
(***************************************************************************)
(* src/io/rsync: Signatures and LookUpTable read the old copy of a file,   *)
(* Sync walks the new one and sends, over an unbuffered channel, tokens    *)
(* for blocks the old copy has and the bytes in between, and Apply         *)
(* rebuilds the file.  All of them borrow blocks from one global pool.     *)
(*                                                                         *)
(* Bytes are numbers below Mod, the strong checksum of a block is the      *)
(* block.  Each behaviour has at most one fault of Faults.                 *)
(***************************************************************************)
EXTENDS Integers, Sequences, FiniteSets, SequencesExt

CONSTANTS Bytes, BlockSize, Mod, MaxSrc, MaxCache, Faults

VARIABLES s, ref

None == MaxCache + 1
Files(n) == BoundedSeq(Bytes, n)
Block(file, offset) == SubSeq(file, offset + 1, IF offset + BlockSize < Len(file) THEN offset + BlockSize ELSE Len(file))
NoOp == [kind |-> "none", buf |-> 0, n |-> 0, index |-> 0, due |-> <<>>]
DataOp(b, data) == [kind |-> "data", buf |-> b, n |-> Len(data), index |-> 0, due |-> data]
TokenOp(index, data) == [kind |-> "token", buf |-> 0, n |-> 0, index |-> index, due |-> data]
Signature(kind, block, index) == [kind |-> kind, block |-> block, index |-> index]

Init ==
  \E src \in Files(MaxSrc), cache \in Files(MaxCache), fault \in Faults :
    /\ s = [src |-> src, cache |-> cache, pool |-> {1}, bufs |-> <<<<>>>>, cancelled |-> FALSE,
            sig |-> [at |-> "read", index |-> 0, offset |-> 0, n |-> 0], table |-> {},
            look |-> [at |-> "range", got |-> Signature("none", <<>>, 0)],
            sync |-> [at |-> "loop", offset |-> 0, r1 |-> 0, r2 |-> 0, old |-> 0, rolling |-> FALSE,
                      delta |-> <<>>, out |-> <<>>, mine |-> {}, held |-> {}],
            apply |-> "idle", op |-> NoOp, dst |-> <<>>]
    /\ ref = [fault |-> fault, at |-> None, first |-> <<>>, shift |-> 0, lent |-> FALSE, ended |-> FALSE,
              due |-> <<>>, wrong |-> {}, sent |-> 0, rolled |-> TRUE]

-----------------------------------------------------------------------------
(* The checksums of a block and of the block one byte on. *)
SumTo[b \in Seq(Bytes), weighted \in BOOLEAN] ==
  IF b = <<>> THEN 0 ELSE (IF weighted THEN Len(b) ELSE 1) * b[1] + SumTo[Tail(b), weighted]
rollingHash(block) == <<SumTo[block, FALSE] % Mod, SumTo[block, TRUE] % Mod>>

Outgoing(l, out) == l * out
rollingHash2(l, r1, r2, out, new) ==
  LET q1 == (r1 - out + new) % Mod IN <<q1, (r2 - Outgoing(l, out) + q1) % Mod>>

(* sync.Pool gives any block it has, or makes one. *)
Free == IF s.pool = {} THEN {Len(s.bufs) + 1} ELSE s.pool
Store(b, v) == IF b > Len(s.bufs) THEN Append(s.bufs, v) ELSE [s.bufs EXCEPT ![b] = v]

-----------------------------------------------------------------------------
(* Signatures puts its block 1 back when it returns, its goroutine goes on  *)
(* reading into it.  A read may come short before the end of the file, or   *)
(* fail, and then the reader may or may not have passed the block.  The     *)
(* error goes to LookUpTable, and it advances the index.                    *)
Left == Len(s.cache) - s.sig.offset
Full == IF Left < BlockSize THEN Left ELSE BlockSize
Reading == s.sig.at = "read" /\ ~s.cancelled
SigRead(n) ==
  /\ Reading /\ Left > 0 /\ n \in 1..Full
  /\ n < Full => ref.fault = "short"
  /\ LET block == SubSeq(s.cache, s.sig.offset + 1, s.sig.offset + n)
     IN  /\ s' = [s EXCEPT !.sig = [@ EXCEPT !.at = "block", !.n = n, !.offset = @ + n], !.bufs = Store(1, block)]
         /\ ref' = IF n = Full THEN ref
                   ELSE [ref EXCEPT !.fault = "none", !.at = s.sig.index, !.first = block, !.shift = BlockSize - n]
SigReadFails ==
  /\ Reading /\ ref.fault = "error" /\ Left > 0
  /\ \E passed \in {0, Full} :
       /\ s' = [s EXCEPT !.sig = [@ EXCEPT !.at = "error", !.offset = @ + passed]]
       /\ ref' = [ref EXCEPT !.fault = "none", !.at = s.sig.index, !.shift = BlockSize - passed]
SigCancelled ==
  /\ s.sig.at = "read" /\ s.cancelled
  /\ s' = [s EXCEPT !.sig.at = "report"]
  /\ UNCHANGED ref
SigEnds ==
  /\ Reading /\ Left = 0
  /\ s' = [s EXCEPT !.sig.at = "done"]
  /\ ref' = [ref EXCEPT !.ended = TRUE]

(* The unbuffered channel passes what Signatures sends; LookUpTable looks   *)
(* whether it was cancelled when it has a signature, and returns.           *)
SigSends ==
  /\ s.sig.at \in {"block", "error", "report"} /\ s.look.at = "range"
  /\ s' = [s EXCEPT !.look = [at |-> "check", got |-> Signature(s.sig.at, SubSeq(s.bufs[1], 1, s.sig.n), s.sig.index)],
                    !.sig = IF @.at = "report" THEN [@ EXCEPT !.at = "done"] ELSE [@ EXCEPT !.at = "read", !.index = @ + 1]]
  /\ UNCHANGED ref
LookUpTable ==
  LET got == s.look.got IN
  /\ \/ /\ s.look.at = "check"
        /\ s' = IF s.cancelled THEN [s EXCEPT !.look.at = "failed"]
                ELSE [s EXCEPT !.look.at = "range",
                               !.table = IF got.kind = "error" THEN @
                                         ELSE @ \cup {[weak |-> rollingHash(got.block), strong |-> got.block, index |-> got.index]}]
     \/ /\ s.look.at = "range" /\ s.sig.at = "done"
        /\ s' = [s EXCEPT !.look.at = "done", !.apply = "recv"]
  /\ UNCHANGED ref

-----------------------------------------------------------------------------
(* What a round of Sync's loop has to do: send blocks, whose read to the    *)
(* end puts them back, send a token, and end.                               *)
Item(kind, data, at) == [kind |-> kind, data |-> data, at |-> at]
Chunks(d) == [i \in 1 .. (Len(d) + BlockSize - 1) \div BlockSize |-> Item("data", Block(d, (i - 1) * BlockSize), 0)]
send(d) == IF d = <<>> THEN <<>> ELSE Append(Chunks(d), Item("eof", <<>>, 0))

Matches(h, block) == {e.index : e \in {e \in s.table : e.weak = h /\ e.strong = block}}
Running == s.look.at = "done" /\ s.sync.at = "loop" /\ s.sync.out = <<>>

Sync ==
  LET y == s.sync
      block == Block(s.src, y.offset)
      n == Len(block)
      eof == n < BlockSize
      h == IF y.rolling THEN rollingHash2(n, y.r1, y.r2, y.old, block[n]) ELSE rollingHash(block)
      found == Matches(h, block)
      End == <<Item(IF eof THEN "done" ELSE "next", <<>>, 0)>>
      Past(mine, out) == [y EXCEPT !.offset = @ + n, !.rolling = FALSE, !.delta = <<>>, !.mine = mine, !.out = out \o End]
  IN  /\ Running /\ ~s.cancelled
      /\ \E b \in Free :
           s' = [s EXCEPT !.bufs = Store(b, block), !.pool = @ \ {b},
                          !.sync = IF s.table = {}
                                   THEN Past(IF eof THEN {b} ELSE {}, IF n > 0 THEN <<Item("block", block, b)>> ELSE <<>>)
                                   ELSE IF found # {} THEN Past({b}, Append(send(y.delta), Item("token", block, Min(found))))
                                   ELSE IF eof THEN Past({b}, send(y.delta \o block))
                                   ELSE [y EXCEPT !.rolling = TRUE, !.r1 = h[1], !.r2 = h[2], !.old = block[1], !.mine = {b},
                                                  !.delta = Append(@, block[1]), !.offset = @ + 1, !.out = End]]
      /\ ref' = [ref EXCEPT !.rolled = eof \/ h = rollingHash(block)]

(* The block goes back; the end of the goroutine closes the channel. *)
RoundEnds ==
  /\ s.sync.out # <<>> /\ Head(s.sync.out).kind \in {"next", "done"}
  /\ s' = [s EXCEPT !.pool = @ \cup s.sync.mine,
                    !.sync = [@ EXCEPT !.mine = {}, !.out = <<>>, !.at = IF Head(s.sync.out).kind = "done" THEN "done" ELSE @]]
  /\ UNCHANGED ref

(* An operation passes from Sync or send to Apply.  With the context done   *)
(* Apply returns; what passes may be the error of send, which returns too.  *)
Operation(o) ==
  \/ /\ o.kind = "data"
     /\ \E b \in Free : s' = [s EXCEPT !.sync.out = Tail(@), !.apply = "write", !.pool = @ \ {b}, !.bufs = Store(b, o.data),
                                       !.sync.held = @ \cup {b}, !.op = DataOp(b, o.data)]
  \/ o.kind = "block" /\ s' = [s EXCEPT !.sync.out = Tail(@), !.apply = "write", !.op = DataOp(o.at, o.data)]
  \/ o.kind = "token" /\ s' = [s EXCEPT !.sync.out = Tail(@), !.apply = "write", !.op = TokenOp(o.at, o.data)]
AfterSend(out) == SelectSeq(out, LAMBDA o : o.kind \notin {"data", "eof"})
Transfer ==
  /\ s.sync.out # <<>> /\ s.apply = "recv"
  /\ LET o == Head(s.sync.out) IN
     \/ ~s.cancelled /\ Operation(o)
     \/ s.cancelled /\ o.kind \in {"data", "block", "token"} /\ s' = [s EXCEPT !.sync.out = Tail(@), !.apply = "failed"]
     \/ /\ s.cancelled /\ o.kind \in {"data", "eof"}
        /\ s' = [s EXCEPT !.sync.out = AfterSend(@), !.sync.held = {}, !.pool = @ \cup s.sync.held, !.apply = "failed"]
  /\ ref' = [ref EXCEPT !.sent = @ + s'.op.n]
SyncError ==
  /\ Running /\ s.apply = "recv" /\ (s.cancelled \/ ref.fault = "readAt")
  /\ s' = [s EXCEPT !.sync.at = "done", !.apply = "failed"]
  /\ UNCHANGED ref

(* send puts its blocks back, which Apply may not have written yet. *)
SendReturns ==
  /\ s.sync.out # <<>> /\ Head(s.sync.out).kind = "eof"
  /\ s' = [s EXCEPT !.sync.out = Tail(@), !.sync.held = {}, !.pool = @ \cup s.sync.held]
  /\ UNCHANGED ref

(* Apply writes what it was sent, or reads the block of the old copy. *)
Apply ==
  LET o == s.op
      block == IF o.kind = "data" THEN SubSeq(s.bufs[o.buf], 1, o.n) ELSE Block(s.cache, o.index * BlockSize)
  IN  \/ /\ s.apply = "write"
         /\ s' = [s EXCEPT !.apply = "recv", !.op = NoOp, !.dst = @ \o block]
         /\ ref' = [ref EXCEPT !.due = @ \o o.due,
                               !.wrong = IF block = o.due THEN @ ELSE @ \cup {[kind |-> o.kind, index |-> o.index]}]
      \/ s.apply = "recv" /\ s.sync.at = "done" /\ s' = [s EXCEPT !.apply = "ok"] /\ UNCHANGED ref
ApplyFails ==
  /\ s.apply = "write" /\ (ref.fault = "write" \/ (ref.fault = "cached" /\ s.op.kind = "token"))
  /\ s' = [s EXCEPT !.apply = "failed"]
  /\ UNCHANGED ref

Cancel ==
  /\ ref.fault = "cancel" /\ ~s.cancelled
  /\ s' = [s EXCEPT !.cancelled = TRUE]
  /\ UNCHANGED ref

(* Another transfer borrows a block of the pool.  One that Signatures read  *)
(* and has not summed up yet, or that Apply has not written yet, is spoilt. *)
Elsewhere(b, v) ==
  /\ ref.fault = "elsewhere" /\ b \in s.pool
  /\ s' = [s EXCEPT !.bufs = Store(b, v)]
  /\ ref' = LET sums == b = 1 /\ s.sig.at = "block"
            IN  [ref EXCEPT !.fault = "none", !.lent = s.op.kind = "data" /\ s.op.buf = b,
                            !.at = IF sums THEN s.sig.index ELSE @, !.first = IF sums THEN SubSeq(v, 1, s.sig.n) ELSE @]

Next ==
  \/ \E n \in 1..BlockSize : SigRead(n)
  \/ SigReadFails \/ SigCancelled \/ SigEnds \/ SigSends \/ LookUpTable
  \/ Sync \/ RoundEnds \/ Transfer \/ SyncError \/ SendReturns \/ Apply \/ ApplyFails \/ Cancel
  \/ \E b \in s.pool : Elsewhere(b, [i \in 1..BlockSize |-> CHOOSE v \in Bytes : v # 0])

-----------------------------------------------------------------------------
(***************************************************************************)
(* The signature of index i is that of block i of the old copy.  Behind a  *)
(* read that came short or failed, at index ref.at, it is that of a block  *)
(* ref.shift bytes earlier, and a block that another transfer borrowed     *)
(* while Signatures used it, which it has put back too early, gives the    *)
(* signature of the other's bytes.  What Sync means Apply to write is      *)
(* always a beginning of the new file and, when Apply returns without an   *)
(* error, all of it.  What Apply writes is that, but for tokens of such a  *)
(* signature, and for one block of data that send or Sync put back before  *)
(* it was written and another transfer borrowed.  The checksum rolled on   *)
(* over a full block is the block's own.  A file that has not changed is   *)
(* sent without data, if its signatures are its own.                       *)
(*                                                                         *)
(* Sync's goroutine is left blocked only when the context was cancelled or *)
(* Apply could not read or write a block.  Signatures' goroutine is left   *)
(* blocked, and its channel open, whenever LookUpTable has returned over a *)
(* signature that is not the report of the cancellation, unless the end of *)
(* the file came before; its comment has the channel closed when the       *)
(* context is cancelled.                                                   *)
(***************************************************************************)
Signed(i) ==
  IF i < ref.at THEN Block(s.cache, i * BlockSize)
  ELSE IF i = ref.at THEN ref.first ELSE Block(s.cache, i * BlockSize - ref.shift)

RebuildsSource ==
  /\ \A e \in s.table : e.strong = Signed(e.index)
  /\ IsPrefix(ref.due, s.src) /\ (s.apply = "ok" => ref.due = s.src)
  /\ IF ref.wrong = {} THEN s.dst = ref.due
     ELSE \A w \in ref.wrong : IF w.kind = "token" THEN w.index >= ref.at ELSE ref.lent
  /\ ref.rolled
  /\ s.src = s.cache /\ ref.sent > 0 => ref.at # None
  /\ s.apply \in {"ok", "failed"} /\ s.sync.at # "done" => s.cancelled \/ ref.fault \in {"write", "cached"}
  /\ s.look.at = "failed" => s.cancelled /\ (s.sig.at = "done" <=> ref.ended \/ s.look.got.kind = "report")
=============================================================================
