---------------------------- MODULE ChannelPool ----------------------------
(***************************************************************************)
(* sync/pool/channel.go: a pool of objects in a buffered channel.  Get     *)
(* reads the channel variable under mu and receives after it gave mu up;   *)
(* Put runs under mu; Close takes the channel away under mu, closes it and *)
(* drains it afterwards.                                                   *)
(***************************************************************************)
EXTENDS Integers, Sequences, SequencesExt, FiniteSets

CONSTANTS Clients,
          Objects,    \* what clients create when Get has nothing for them
          PoolLen,    \* capacity of the channel
          NoObject

ASSUME PoolAssumption == PoolLen \in Nat \ {0} /\ NoObject \notin Objects

VARIABLES
  poolNil,     \* c.pool == nil
  chClosed,    \* the channel is closed
  ch,          \* its buffer
  pc,          \* per client: "idle", or "get" between getPool and the select
  using,       \* per client: the object it holds
  objClosed,   \* objects whose Close was called
  closing,     \* Close: "no", "taken", "drain", "done"
  outcome      \* what the client's last call returned

poolVars == <<poolNil, chClosed, ch, pc, using, objClosed, closing, outcome>>

Outcomes == {"none", "obj", "empty", "closed", "put"}

PoolTypeOK ==
  /\ poolNil \in BOOLEAN /\ chClosed \in BOOLEAN
  /\ ch \in Seq(Objects) /\ Len(ch) <= PoolLen
  /\ pc \in [Clients -> {"idle", "get"}]
  /\ using \in [Clients -> Objects \cup {NoObject}]
  /\ objClosed \subseteq Objects
  /\ closing \in {"no", "taken", "drain", "done"}
  /\ outcome \in [Clients -> Outcomes]

PoolInit ==
  /\ poolNil = FALSE /\ chClosed = FALSE /\ ch = <<>>
  /\ pc = [t \in Clients |-> "idle"] /\ using = [t \in Clients |-> NoObject]
  /\ objClosed = {} /\ closing = "no"
  /\ outcome = [t \in Clients |-> "none"]

Return(t, o) == outcome' = [outcome EXCEPT ![t] = o]

\* The client makes an object of its own.
Create(t, o) ==
  /\ pc[t] = "idle" /\ using[t] = NoObject /\ outcome[t] = "empty"
  /\ o \notin objClosed \cup Range(ch) \cup Range(using)
  /\ using' = [using EXCEPT ![t] = o]
  /\ UNCHANGED <<poolNil, chClosed, ch, pc, objClosed, closing, outcome>>

getPool(t) ==
  /\ pc[t] = "idle" /\ using[t] = NoObject
  /\ IF poolNil THEN Return(t, "closed") /\ UNCHANGED pc
     ELSE pc' = [pc EXCEPT ![t] = "get"] /\ UNCHANGED outcome
  /\ UNCHANGED <<poolNil, chClosed, ch, using, objClosed, closing>>

\* A receive on a closed channel that is drained gives nil.
EmptyOutcome == IF chClosed THEN "closed" ELSE "empty"

AfterReceive_keeps == ch
AfterReceive == Tail(ch)

\* The select of Get.
Get(t) ==
  /\ pc[t] = "get"
  /\ pc' = [pc EXCEPT ![t] = "idle"]
  /\ IF ch # <<>>
     THEN /\ using' = [using EXCEPT ![t] = Head(ch)] /\ ch' = AfterReceive
          /\ Return(t, "obj")
     ELSE Return(t, EmptyOutcome) /\ UNCHANGED <<using, ch>>
  /\ UNCHANGED <<poolNil, chClosed, objClosed, closing>>

\* Put closes an object it cannot keep.
Refused_fullOnly == Len(ch) = PoolLen
Refused == poolNil \/ Len(ch) = PoolLen

Put(t) ==
  /\ pc[t] = "idle" /\ using[t] # NoObject
  /\ IF Refused
     THEN objClosed' = objClosed \cup {using[t]} /\ UNCHANGED ch
     ELSE ch' = Append(ch, using[t]) /\ UNCHANGED objClosed
  /\ using' = [using EXCEPT ![t] = NoObject]
  /\ Return(t, "put")
  /\ UNCHANGED <<poolNil, chClosed, pc, closing>>

\* Close under mu, close(pool), and the range loop that drains it.
CloseTake ==
  /\ closing = "no"
  /\ poolNil' = TRUE /\ closing' = "taken"
  /\ UNCHANGED <<chClosed, ch, pc, using, objClosed, outcome>>

CloseChannel ==
  /\ closing = "taken"
  /\ chClosed' = TRUE /\ closing' = "drain"
  /\ UNCHANGED <<poolNil, ch, pc, using, objClosed, outcome>>

CloseDrain ==
  /\ closing = "drain"
  /\ IF ch # <<>>
     THEN ch' = Tail(ch) /\ objClosed' = objClosed \cup {Head(ch)} /\ UNCHANGED closing
     ELSE closing' = "done" /\ UNCHANGED <<ch, objClosed>>
  /\ UNCHANGED <<poolNil, chClosed, pc, using, outcome>>

PoolNext ==
  \/ \E t \in Clients : getPool(t) \/ Get(t) \/ Put(t) \/ \E o \in Objects : Create(t, o)
  \/ CloseTake \/ CloseChannel \/ CloseDrain

PoolFairness ==
  /\ \A t \in Clients : WF_poolVars(Get(t)) /\ WF_poolVars(Put(t))
  /\ WF_poolVars(CloseChannel) /\ WF_poolVars(CloseDrain)

PoolSpec == PoolInit /\ [][PoolNext]_poolVars /\ PoolFairness

-----------------------------------------------------------------------------

\* An object is in the channel or with one client or closed, never two of
\* these: no client is handed an object that another uses or that was closed,
\* although Get may receive while Close drains the same channel.
OneHolder ==
  /\ IsInjective(ch)
  /\ Range(ch) \cap objClosed = {}
  /\ \A t \in Clients : using[t] # NoObject =>
       /\ using[t] \notin Range(ch) \cup objClosed
       /\ \A u \in Clients \ {t} : using[u] # using[t]

\* "Close closes the pool and all its connections": the objects of the pool
\* and those that clients give back later.
CloseClosesAll ==
  \A o \in Objects : [](closing # "no" /\ o \in Range(ch) \cup Range(using) => <>(o \in objClosed))
=============================================================================
