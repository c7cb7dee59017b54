---------------------------- MODULE KafkaClient ----------------------------
(***************************************************************************)
(* log/kafka: the asynchronous producer, whose Stop compares three         *)
(* counters that senders and the callback goroutine change one by one, and *)
(* the consumer's loop.  sarama is external: a message sent on Input is    *)
(* answered on Successes or on Errors, in any order, and sarama's Close    *)
(* throws away the answers that nobody received.                           *)
(*                                                                         *)
(* Producer: s.at[c] is where sender c is; s.flying are the messages with  *)
(* the brokers; s.loop is where the goroutine of Start is, and s.answer    *)
(* what it holds; s.stop is where Stop or Terminate is, with what Stop     *)
(* loaded.  ref.before are the messages that SendBytes had returned from   *)
(* when Stop began, ref.all those it had returned from when Stop last      *)
(* loaded their number.                                                    *)
(***************************************************************************)
EXTENDS Integers, Sequences, FiniteSets, SequencesExt

CONSTANTS Senders, MaxSent, ChannelSize, Offsets, MaxConsumed

VARIABLES s, ref

NoAnswer == [kind |-> "none", m |-> 0]
NotStopping == [at |-> "no", all |-> 0, suc |-> 0, fail |-> 0]

NewAsyncProducer ==
  /\ s = [at |-> [c \in Senders |-> "idle"], m |-> [c \in Senders |-> 0], flying |-> {},
          answers |-> [suc |-> <<>>, fail |-> <<>>], msgNum |-> 0, num |-> [suc |-> 0, fail |-> 0],
          loop |-> "off", answer |-> NoAnswer, done |-> FALSE, stop |-> NotStopping, closed |-> FALSE,
          panic |-> FALSE]
  /\ ref = [sent |-> 0, returned |-> {}, before |-> {}, all |-> {}, called |-> <<>>, late |-> FALSE]

Stopping == s.stop.at # "no"

\* The message first, the counter afterwards.
SendBytes(c) ==
  /\ s.at[c] = "idle" /\ ref.sent < MaxSent
  /\ s' = IF s.closed THEN [s EXCEPT !.panic = TRUE]
          ELSE [s EXCEPT !.at[c] = "sent", !.m[c] = ref.sent + 1, !.flying = @ \cup {ref.sent + 1}]
  /\ ref' = [ref EXCEPT !.sent = @ + 1, !.late = @ \/ s.closed]

\* A message that cannot be marshalled is neither sent nor counted.
SendMessage(c) == SendBytes(c)

SendCounts(c) ==
  /\ s.at[c] = "sent"
  /\ s' = [s EXCEPT !.at[c] = "idle", !.msgNum = @ + 1]
  /\ ref' = [ref EXCEPT !.returned = @ \cup {s.m[c]}]

\* The brokers answer, as long as the channel of the answers has room.
Answer(m, kind) ==
  /\ m \in s.flying /\ Len(s.answers[kind]) < ChannelSize /\ ~s.closed
  /\ s' = [s EXCEPT !.flying = @ \ {m}, !.answers[kind] = Append(@, m)]
  /\ UNCHANGED ref

Start ==
  /\ s.loop = "off" /\ ~Stopping
  /\ s' = [s EXCEPT !.loop = "select"]
  /\ UNCHANGED ref

\* The select takes any case that is ready.
Receive(kind) ==
  /\ s.loop = "select" /\ s.answers[kind] # <<>>
  /\ s' = [s EXCEPT !.loop = "callback", !.answer = [kind |-> kind, m |-> Head(s.answers[kind])],
                    !.answers[kind] = Tail(@)]
  /\ UNCHANGED ref

Callback ==
  /\ s.loop = "callback"
  /\ s' = [s EXCEPT !.loop = "count"]
  /\ ref' = [ref EXCEPT !.called = Append(@, s.answer.m), !.late = @ \/ s.closed]

Count ==
  /\ s.loop = "count"
  /\ s' = [s EXCEPT !.loop = "select", !.num[s.answer.kind] = @ + 1, !.answer = NoAnswer]
  /\ UNCHANGED ref

LoopEnds ==
  /\ s.loop = "select" /\ s.done
  /\ s' = [s EXCEPT !.loop = "ended"]
  /\ UNCHANGED ref

\* Stop: three loads and a comparison, again and again.
Stop ==
  /\ ~Stopping
  /\ s' = [s EXCEPT !.stop.at = "all"]
  /\ ref' = [ref EXCEPT !.before = ref.returned]

LoadAll == /\ s.stop.at = "all"
           /\ s' = [s EXCEPT !.stop = [@ EXCEPT !.at = "suc", !.all = s.msgNum]]
           /\ ref' = [ref EXCEPT !.all = ref.returned]
LoadSuc == /\ s.stop.at = "suc"
           /\ s' = [s EXCEPT !.stop = [@ EXCEPT !.at = "fail", !.suc = s.num.suc]]
           /\ UNCHANGED ref
LoadFail == /\ s.stop.at = "fail"
            /\ s' = [s EXCEPT !.stop = [@ EXCEPT !.at = "compare", !.fail = s.num.fail]]
            /\ UNCHANGED ref

AllAnswered(stop) == stop.all = stop.suc + stop.fail

Compare ==
  /\ s.stop.at = "compare"
  /\ s' = IF AllAnswered(s.stop) THEN [s EXCEPT !.done = TRUE, !.stop.at = "wait"]
          ELSE [s EXCEPT !.stop.at = "all"]
  /\ UNCHANGED ref

Terminate ==
  /\ ~Stopping
  /\ s' = [s EXCEPT !.done = TRUE, !.stop.at = "wait"]
  /\ UNCHANGED ref

\* wg.Wait, and sarama's Close.
LoopGone == s.loop \in {"off", "ended"}
Close ==
  /\ s.stop.at = "wait" /\ LoopGone
  /\ s' = [s EXCEPT !.stop.at = "returned", !.closed = TRUE, !.flying = {},
                    !.answers = [suc |-> <<>>, fail |-> <<>>]]
  /\ UNCHANGED ref

ProducerNext ==
  /\ ~s.panic
  /\ \/ \E c \in Senders : SendBytes(c) \/ SendMessage(c) \/ SendCounts(c)
     \/ \E m \in s.flying, kind \in {"suc", "fail"} : Answer(m, kind)
     \/ \E kind \in {"suc", "fail"} : Receive(kind)
     \/ Start \/ Callback \/ Count \/ LoopEnds
     \/ Stop \/ LoadAll \/ LoadSuc \/ LoadFail \/ Compare \/ Terminate \/ Close

(***************************************************************************)
(* A message gets at most one callback, and none while or after Stop or    *)
(* Terminate returned.  A message whose SendBytes had returned before Stop *)
(* began lacks its callback when Stop returns only if another one has had  *)
(* its callback that Stop's load of msgNum did not include: SendBytes      *)
(* counts behind the send, and Stop loads the counters one after the       *)
(* other, so each such answer hides one that is outstanding.  Without a    *)
(* sender active during Stop nothing is lost.  Only a SendBytes on the     *)
(* closed producer panics.                                                 *)
(***************************************************************************)
StopWaitsForAnswers ==
  /\ IsInjective(ref.called)
  /\ s.stop.at = "returned" => s.loop \notin {"select", "callback", "count"}
  /\ s.stop.at = "returned" => /\ ref.before \subseteq ref.all
                              /\ Cardinality(ref.all \ ToSet(ref.called)) <= Cardinality(ToSet(ref.called) \ ref.all)
  /\ ref.late <=> s.panic
  /\ s.panic => s.closed
-----------------------------------------------------------------------------
(***************************************************************************)
(* The consumer of one partition.  s.offset is run's entry for it, 0 if    *)
(* there is none; s.committed what Commit marked.  Messages come in the    *)
(* order of their offsets, and a rebalance goes back to the mark or leaves *)
(* some out.  ref.last is the offset of the last message handed over, -1   *)
(* if there was none, ref.warned and ref.gap whether run warned about the  *)
(* latest message, and whether it should have.                             *)
(***************************************************************************)
NewConsumer ==
  /\ s = [loop |-> "off", offset |-> 0, done |-> FALSE, closed |-> FALSE, next |-> 0, committed |-> 0,
          stop |-> "no"]
  /\ ref = [last |-> -1, warned |-> FALSE, gap |-> FALSE, handed |-> 0, prev |-> 0, expect |-> -1,
            late |-> FALSE, after |-> FALSE]

ConsumerStart ==
  /\ s.loop = "off"
  /\ s' = [s EXCEPT !.loop = "run"]
  /\ ref' = [ref EXCEPT !.late = s.done]

StartFails == s.loop = "off" /\ s' = [s EXCEPT !.loop = "failed"] /\ UNCHANGED ref

\* The partition moves to another consumer and comes back.
Rebalance(o) ==
  /\ s.loop = "run" /\ o >= s.committed /\ o # s.next
  /\ s' = [s EXCEPT !.next = o]
  /\ UNCHANGED ref

Unexpected(seen, o) == seen # 0 /\ seen # o - 1

Message ==
  /\ s.loop = "run" /\ s.next \in Offsets /\ ref.handed < MaxConsumed
  /\ s' = [s EXCEPT !.offset = s.next, !.next = @ + 1]
  /\ ref' = [last |-> s.next, warned |-> Unexpected(s.offset, s.next),
             gap |-> ref.last # -1 /\ ref.last + 1 # s.next, handed |-> ref.handed + 1,
             prev |-> s.offset, expect |-> ref.last, late |-> ref.late, after |-> ref.after \/ s.stop = "returned"]

Commit(o) ==
  /\ o < s.next /\ o \in s.committed .. ref.last
  /\ s' = [s EXCEPT !.committed = o + 1]
  /\ UNCHANGED ref

RunEnds ==
  /\ s.loop = "run" /\ s.done
  /\ s' = [s EXCEPT !.loop = "ended", !.closed = TRUE]
  /\ UNCHANGED ref

ConsumerStop ==
  /\ s.stop = "no"
  /\ s' = [s EXCEPT !.done = TRUE, !.stop = "wait"]
  /\ UNCHANGED ref

StopReturns ==
  /\ s.stop = "wait" /\ s.loop # "run"
  /\ s' = [s EXCEPT !.stop = "returned"]
  /\ UNCHANGED ref

ConsumerNext ==
  \/ ConsumerStart \/ StartFails \/ Message \/ RunEnds \/ ConsumerStop \/ StopReturns
  \/ \E o \in Offsets : Rebalance(o) \/ Commit(o)

(***************************************************************************)
(* run warns about a message exactly if it does not follow the one before, *)
(* except behind offset 0, which it takes for no message at all; and the   *)
(* callback learns the offset before, or 0.  After Stop no message is      *)
(* handed over, unless Start came after it; the consumer is then closed.   *)
(***************************************************************************)
GapsWarned ==
  /\ ref.warned => ref.gap
  /\ ref.gap /\ ~ref.warned => ref.prev = 0
  /\ ref.expect \in {-1, ref.prev} /\ (ref.expect = -1 => ref.prev = 0)
  /\ ref.after => ref.late
  /\ s.stop = "returned" /\ ~ref.late => s.loop # "run" /\ (s.loop = "ended" => s.closed)
=============================================================================
