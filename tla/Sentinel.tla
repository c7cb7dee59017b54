----------------------------- MODULE Sentinel -----------------------------
(***************************************************************************)
(* src/database/redis: the client of the Redis sentinels, its list of      *)
(* their addresses and its connection pools, and SentinelWatcher.          *)
(*                                                                         *)
(* A call walks through the addresses; c.at is where it is:                *)
(*   "lookup", "store"  the two lock sections of poolForAddr               *)
(*   "take"             Pool.Get, which waits for a free connection        *)
(*   "do"               the command, with the connection out               *)
(*   "fail"             the lock section after an error                    *)
(*   "top", "write"     putToTop, which reads and writes the list          *)
(*   "merge"            the lock section of Discover                       *)
(* Pool 0 is no pool.  An address list is read and written in one step.    *)
(***************************************************************************)
EXTENDS Integers, Sequences, FiniteSets, SequencesExt

CONSTANTS
  Callers, First,   \* First: the configured addresses
  Others,           \* addresses that sentinels know of
  Ops,              \* the calls that are made
  MaxActive,        \* connections of a pool
  MaxCalls, MaxFails,
  InfoCap, MaxMsgs  \* the watcher's channel, and what is published to it

VARIABLES s, ref

Addrs == ToSet(First) \cup Others
NoPools == [a \in Addrs |-> 0]
NoCall == [op |-> "none", at |-> "idle", todo |-> <<>>, pool |-> 0, list |-> <<>>, pass |-> <<>>, seen |-> {}]

NewSentinel == [addrs |-> First, nilPools |-> TRUE, pools |-> NoPools, pool |-> <<>>,
                call |-> [c \in Callers |-> NoCall], monitored |-> {}, panic |-> FALSE]
Init == /\ s = NewSentinel
        /\ ref = [calls |-> 0, fails |-> 0, lost |-> {}, known |-> ToSet(First), closedBetween |-> FALSE,
                  leaked |-> <<>>, subs |-> <<>>, mixed |-> FALSE, done |-> "none", pass |-> {}]

At(c, at) == s.call[c].at = at /\ ~s.panic
Addr(c) == Head(s.call[c].todo)
Goto(t, c, at) == [t EXCEPT !.call[c].at = at]
Return(t, c) == [t EXCEPT !.call[c] = NoCall]
ForAll(op) == op \in {"add", "remove"}

(* A call begins with the list as it is. *)
Begin(c, op) ==
  /\ At(c, "idle") /\ ref.calls < MaxCalls /\ op \in Ops \ {"close"}
  /\ \E todo \in IF op = "role" THEN {<<a>> : a \in ToSet(s.addrs)} ELSE {s.addrs} :
       s' = [s EXCEPT !.call[c] = [NoCall EXCEPT !.op = op, !.at = "lookup", !.todo = todo, !.pass = todo]]
  /\ ref' = [ref EXCEPT !.calls = @ + 1,
                        !.mixed = @ \/ (ForAll(op) /\ \E d \in Callers \ {c} : ForAll(s.call[d].op)),
                        !.done = IF ForAll(op) THEN "none" ELSE @]

-----------------------------------------------------------------------------
(* poolForAddr *)
Lookup(c) ==
  /\ At(c, "lookup")
  /\ s' = [s EXCEPT !.nilPools = FALSE,
                    !.call[c] = [@ EXCEPT !.pool = s.pools[Addr(c)], !.at = IF s.pools[Addr(c)] # 0 THEN "take" ELSE "store"]]
  /\ UNCHANGED ref
StorePool(c) ==
  /\ At(c, "store")
  /\ LET p == s.pools[Addr(c)]
         new == Len(s.pool) + 1
     IN  s' = IF p # 0 THEN [s EXCEPT !.call[c] = [@ EXCEPT !.pool = p, !.at = "take"]]
              ELSE IF s.nilPools THEN [s EXCEPT !.panic = TRUE]
              ELSE [s EXCEPT !.pools[Addr(c)] = new, !.pool = Append(@, [closed |-> FALSE, out |-> 0]),
                             !.call[c] = [@ EXCEPT !.pool = new, !.at = "take"]]
  /\ ref' = IF s'.pool = s.pool THEN ref ELSE [ref EXCEPT !.leaked = Append(@, 0), !.subs = Append(@, 0)]

(* A closed pool gives a connection on which every command fails. *)
Take(c) ==
  LET p == s.call[c].pool
  IN  /\ At(c, "take")
      /\ \/ s.pool[p].closed /\ s' = [Goto(s, c, "do") EXCEPT !.call[c].pool = 0]
         \/ ~s.pool[p].closed /\ s.pool[p].out < MaxActive /\ s' = [Goto(s, c, "do") EXCEPT !.pool[p].out = @ + 1]
      /\ UNCHANGED ref
Released(t, p) == IF p = 0 THEN t ELSE [t EXCEPT !.pool[p].out = @ - 1]

-----------------------------------------------------------------------------
(* doUntilSuccess and the two subscript methods.  MasterAddr asks with      *)
(* "GetConn-master-addr-by-name", which no sentinel understands.            *)
Search == {"query", "master", "discover", "subscribe"}
Understood(op) == op # "master"
DoSucceeds(c) ==
  LET p == s.call[c].pool
  IN  /\ At(c, "do") /\ p # 0 /\ s.call[c].op \in Search /\ Understood(s.call[c].op)
      /\ IF s.call[c].op = "subscribe"
         THEN s' = Goto(s, c, "top") /\ ref' = [ref EXCEPT !.subs[p] = @ + 1]
         ELSE s' = Goto(Released(s, p), c, "top") /\ UNCHANGED ref
DoFails(c) ==
  LET p == s.call[c].pool
      fault == p # 0 /\ Understood(s.call[c].op)
  IN  /\ At(c, "do") /\ s.call[c].op \in Search
      /\ fault => ref.fails < MaxFails
      /\ s' = Goto(IF s.call[c].op = "subscribe" THEN s ELSE Released(s, p), c, "fail")
      /\ ref' = LET r == IF fault THEN [ref EXCEPT !.fails = @ + 1] ELSE ref
                IN  IF s.call[c].op = "subscribe" /\ p # 0 THEN [r EXCEPT !.leaked[p] = @ + 1] ELSE r

putToTop(addrs, a) == <<a>> \o SelectSeq(addrs, LAMBDA b : b # a)
putToBottom(addrs, a) == Append(SelectSeq(addrs, LAMBDA b : b # a), a)

Dropped(t, a) == IF t.pools[a] = 0 THEN t ELSE [t EXCEPT !.pool[t.pools[a]].closed = TRUE, !.pools[a] = 0]
OnError(c) ==
  LET rest == Tail(s.call[c].todo)
      t == [Dropped(s, Addr(c)) EXCEPT !.addrs = putToBottom(@, Addr(c))]
  IN  /\ At(c, "fail")
      /\ s' = IF rest = <<>> THEN Return(t, c) ELSE [Goto(t, c, "lookup") EXCEPT !.call[c].todo = rest]
      /\ ref' = [ref EXCEPT !.lost = @ \ {Addr(c)}]

(* putToTop is called without the lock: the list is read and written apart. *)
After(c) == IF s.call[c].op = "discover" THEN Goto(s, c, "merge") ELSE Return(s, c)
TopRead(c) ==
  /\ At(c, "top")
  /\ s' = IF s.addrs[1] = Addr(c) THEN After(c)
          ELSE [Goto(s, c, "write") EXCEPT !.call[c].list = putToTop(s.addrs, Addr(c)), !.call[c].seen = ToSet(s.addrs)]
  /\ UNCHANGED ref
TopWrite(c) ==
  /\ At(c, "write")
  /\ s' = [After(c) EXCEPT !.addrs = s.call[c].list]
  /\ ref' = [ref EXCEPT !.lost = (@ \cup (ToSet(s.addrs) \ s.call[c].seen)) \ s.call[c].seen]

(* What a sentinel may answer to "sentinels". *)
SentinelLists == SUBSET Others
Discover(c, addrs) ==
  /\ At(c, "merge")
  /\ s' = [Return(s, c) EXCEPT !.addrs = @ \o SetToSeq(addrs \ ToSet(@))]
  /\ ref' = [ref EXCEPT !.known = @ \cup addrs, !.lost = @ \ addrs]

-----------------------------------------------------------------------------
(* GetConnByRole gives the connection to its caller, who closes it, but     *)
(* keeps that of a server in another role.                                  *)
RoleMatches(c) ==
  /\ At(c, "do") /\ s.call[c].op = "role" /\ s.call[c].pool # 0
  /\ s' = Goto(s, c, "hold")
  /\ UNCHANGED ref
ConnClose(c) ==
  /\ At(c, "hold")
  /\ s' = Return(Released(s, s.call[c].pool), c)
  /\ UNCHANGED ref
RoleDiffers(c) ==
  /\ At(c, "do") /\ s.call[c].op = "role"
  /\ s' = Return(s, c)
  /\ ref' = IF s.call[c].pool = 0 THEN ref ELSE [ref EXCEPT !.leaked[s.call[c].pool] = @ + 1]

(* AddInstance and RemoveInstance stop at the first sentinel that refuses.   *)
(* A refused "set" leaves the instance monitored.                            *)
Changes(c) == IF s.call[c].op = "add" THEN Addr(c) \notin s.monitored ELSE Addr(c) \in s.monitored
Changed(c) == IF s.call[c].op = "add" THEN s.monitored \cup {Addr(c)} ELSE s.monitored \ {Addr(c)}
Accepted(c) ==
  LET rest == Tail(s.call[c].todo)
      t == [Released(s, s.call[c].pool) EXCEPT !.monitored = Changed(c)]
  IN  /\ At(c, "do") /\ ForAll(s.call[c].op) /\ s.call[c].pool # 0 /\ Changes(c)
      /\ s' = IF rest = <<>> THEN Return(t, c) ELSE [Goto(t, c, "lookup") EXCEPT !.call[c].todo = rest]
      /\ ref' = IF rest = <<>> THEN [ref EXCEPT !.done = s.call[c].op, !.pass = ToSet(s.call[c].pass)] ELSE ref
Refused(c) ==
  /\ At(c, "do") /\ ForAll(s.call[c].op)
  /\ \E t \in {s} \cup (IF s.call[c].op = "add" /\ s.call[c].pool # 0 THEN {[s EXCEPT !.monitored = Changed(c)]} ELSE {}) :
       s' = Return(Released(t, s.call[c].pool), c)
  /\ (s.call[c].pool # 0 /\ Changes(c)) => ref.fails < MaxFails
  /\ ref' = IF s.call[c].pool # 0 /\ Changes(c) THEN [ref EXCEPT !.fails = @ + 1] ELSE ref

(* The watcher of a subscription is closed. *)
SubClose(p) ==
  /\ ref.subs[p] > 0 /\ ~s.panic
  /\ s' = Released(s, p)
  /\ ref' = [ref EXCEPT !.subs[p] = @ - 1]

Close ==
  /\ "close" \in Ops /\ ref.calls < MaxCalls /\ ~s.panic
  /\ s' = [s EXCEPT !.nilPools = TRUE, !.pools = NoPools,
                    !.pool = [p \in DOMAIN @ |-> IF p \in {s.pools[a] : a \in Addrs} THEN [@[p] EXCEPT !.closed = TRUE] ELSE @[p]]]
  /\ ref' = [ref EXCEPT !.calls = @ + 1, !.closedBetween = @ \/ \E c \in Callers : At(c, "store")]

Next ==
  \/ Close
  \/ \E p \in DOMAIN s.pool : SubClose(p)
  \/ \E c \in Callers :
       \/ \E op \in Ops : Begin(c, op)
       \/ Lookup(c) \/ StorePool(c) \/ Take(c) \/ DoSucceeds(c) \/ DoFails(c) \/ OnError(c) \/ TopRead(c) \/ TopWrite(c)
       \/ RoleMatches(c) \/ ConnClose(c) \/ RoleDiffers(c) \/ Accepted(c) \/ Refused(c)
       \/ \E addrs \in SentinelLists : Discover(c, addrs)

(***************************************************************************)
(* The list has each address once and, whatever fails, holds exactly the   *)
(* configured and the discovered ones, less those added between the read   *)
(* and the write of a putToTop: its comment wants the lock held, its       *)
(* callers do not hold it, and such an address stays lost until a sentinel *)
(* names it, a call that still knows it fails, or the write of another     *)
(* putToTop brings it back.  Only a Close between                          *)
(* the two lock sections of poolForAddr makes a call panic.  A pool is     *)
(* open exactly as long as it is in the map.  Every connection that is out *)
(* belongs to a call, to a subscription, or to a check of the role that    *)
(* failed or a subscription that failed, which keep theirs.  After an      *)
(* AddInstance (RemoveInstance) that returned no error every (no) sentinel *)
(* it went to monitors the instance, unless two of them overlapped.        *)
(***************************************************************************)
SentinelsKept ==
  /\ IsInjective(s.addrs) /\ ToSet(s.addrs) = ref.known \ ref.lost
  /\ s.panic => ref.closedBetween
  /\ {p \in DOMAIN s.pool : ~s.pool[p].closed} = {s.pools[a] : a \in Addrs} \ {0}
  /\ \A p \in DOMAIN s.pool :
       s.pool[p].out = Cardinality({c \in Callers : s.call[c].pool = p /\ s.call[c].at \in {"do", "hold"}})
                       + ref.leaked[p] + ref.subs[p]
  /\ ~ref.mixed => /\ ref.done = "add" => ref.pass \subseteq s.monitored
                   /\ ref.done = "remove" => ref.pass \cap s.monitored = {}

-----------------------------------------------------------------------------
(* SentinelWatcher.  line is what the connection has to deliver: messages   *)
(* of the three forms, others, and the answer to Unsubscribe.               *)
Forms == {"masterDown", "slaveDown", "switchMaster", "other"}
NewSentinelWatcher == [line |-> <<>>, conn |-> "open", at |-> "receive", info |-> "none", infoChan |-> <<>>,
                       chanClosed |-> FALSE, closed |-> FALSE, closer |-> "none"]
WatchInit == /\ s = NewSentinelWatcher
             /\ ref = [published |-> <<>>, got |-> <<>>, n |-> 0]

Publish(form) ==
  /\ ref.n < MaxMsgs /\ s.conn = "open" /\ ~s.closed
  /\ s' = [s EXCEPT !.line = Append(@, form)]
  /\ ref' = [ref EXCEPT !.n = @ + 1, !.published = IF form = "other" THEN @ ELSE Append(@, form)]
Break ==
  /\ s.conn = "open" /\ s' = [s EXCEPT !.conn = "broken", !.line = <<>>]
  /\ UNCHANGED ref

Handled(form) == form \in {"masterDown", "slaveDown", "switchMaster"}
WatchEnds(t) == [t EXCEPT !.at = "done", !.chanClosed = TRUE]
Watch ==
  /\ s.at = "receive"
  /\ \/ s.conn # "open" /\ s' = WatchEnds(s)
     \/ /\ s.line # <<>>
        /\ LET m == Head(s.line)
               t == [s EXCEPT !.line = Tail(@)]
           IN  s' = IF m = "unsubscribe" THEN WatchEnds(t)
                    ELSE IF Handled(m) THEN [t EXCEPT !.at = "send", !.info = m] ELSE t
  /\ UNCHANGED ref
WatchSend ==
  /\ s.at = "send" /\ Len(s.infoChan) < InfoCap
  /\ s' = [s EXCEPT !.at = "receive", !.info = "none", !.infoChan = Append(@, s.info)]
  /\ UNCHANGED ref
Consume ==
  /\ s.infoChan # <<>>
  /\ s' = [s EXCEPT !.infoChan = Tail(@)]
  /\ ref' = [ref EXCEPT !.got = Append(@, Head(s.infoChan))]

Unsubscribed(t) == [t EXCEPT !.line = IF t.conn = "open" THEN Append(@, "unsubscribe") ELSE @]
WatcherClose ==
  /\ \/ ~s.closed /\ s' = [Unsubscribed(s) EXCEPT !.closed = TRUE, !.closer = "wait"]
     \/ s.closer = "wait" /\ s.at = "done" /\ s' = [s EXCEPT !.closer = "returned", !.conn = "closed"]
  /\ UNCHANGED ref

WatchNext == (\E form \in Forms : Publish(form)) \/ Break \/ Watch \/ WatchSend \/ Consume \/ WatcherClose

(***************************************************************************)
(* While the connection lasts, what the watcher has handed over, holds in  *)
(* its channel or has yet to read is all that was published, in order.     *)
(* When it breaks, what it hands over is still a beginning of that.  Once  *)
(* Close has returned nothing published before it is left unread.  Close   *)
(* waits for a goroutine that cannot go on only while the channel is full. *)
(***************************************************************************)
WatcherDelivers ==
  LET inHand == ref.got \o s.infoChan \o (IF s.at = "send" THEN <<s.info>> ELSE <<>>)
  IN  /\ s.conn = "open" => inHand \o SelectSeq(s.line, Handled) = ref.published
      /\ IsPrefix(inHand, ref.published)
      /\ s.closer = "returned" => s.chanClosed /\ s.line = <<>>
      /\ s.closer = "wait" /\ s.conn = "open" /\ s.at = "receive" => s.line # <<>>
=============================================================================
