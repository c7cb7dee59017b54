---------------------------- MODULE EtcdRegistry ----------------------------
(***************************************************************************)
(* database/registry/etcdv3: a registry puts the nodes of its service into *)
(* etcd under its lease, and registers them again when the keep-alive of   *)
(* the lease was interrupted; Close ends both.  A watcher receives the     *)
(* changes.                                                                *)
(*                                                                         *)
(* etcd is external: it deletes the keys of a lease that ends, and sends   *)
(* what one transaction changed as one message.  A key put with the lease  *)
(* id 0 has no lease and stays.  There is one service: a key is a node.  A *)
(* slice the code copies by its header is a copy here.                     *)
(***************************************************************************)
EXTENDS Naturals, Sequences, SequencesExt, FiniteSets, TLC

CONSTANTS Nodes, Callers,
          Loop,          \* the goroutine of handleEtcdRestart, not in Callers
          MaxChanges     \* bound on calls and on failures

VARIABLES
  keys,          \* nodes in etcd
  alive,         \* the lease, or one of two during Close, is alive
  bound,         \* the client has a lease id: c.id # NoLease
  forever,       \* keys without a lease
  mine,          \* nodes of r.serviceRegistry
  call,          \* per goroutine: the operation it is in and the nodes left
  keepAlive,     \* the channel: "open", "closed" or "nil"
  registerFlag,
  stream,        \* messages on their way to the watcher
  watching,      \* the watcher's channel is open
  shut,          \* Close: "no", "revoke", "close", "wait" or "closed"
  astray,        \* history: nodes a failure or a race left in etcd, or took from it
  changes

registryVars == <<keys, alive, bound, forever, mine, call, keepAlive, registerFlag, stream, watching, shut, astray,
                  changes>>

NoCall == [op |-> "idle", todo |-> <<>>, made |-> <<>>]

TypeOK ==
  /\ keys \subseteq Nodes /\ mine \subseteq Nodes /\ alive \in BOOLEAN
  /\ keepAlive \in {"open", "closed", "nil"} /\ registerFlag \in BOOLEAN
  /\ bound \in BOOLEAN /\ forever \subseteq keys /\ shut \in {"no", "revoke", "close", "wait", "closed"}
  /\ astray \in [left : SUBSET Nodes, gone : SUBSET Nodes]
  /\ stream \in Seq(Seq([type : {"add", "update", "del"}, node : Nodes]))

\* NewRegistry has called KeepAlive.
Init ==
  /\ keys = {} /\ alive = TRUE /\ bound = TRUE /\ forever = {} /\ mine = {}
  /\ call = [c \in Callers \cup {Loop} |-> NoCall]
  /\ keepAlive = "open" /\ registerFlag = FALSE
  /\ stream = <<>> /\ watching \in BOOLEAN /\ shut = "no" /\ astray = [left |-> {}, gone |-> {}] /\ changes = 0

Event(type, n) == [type |-> type, node |-> n]
Send(events) == stream' = IF watching /\ events # <<>> THEN Append(stream, events) ELSE stream
Changed == changes < MaxChanges /\ changes' = changes + 1
Delete(ns) == keys' = keys \ ns /\ Send([i \in 1 .. Cardinality(keys \cap ns) |->
                                          Event("del", SetToSeq(keys \cap ns)[i])])
Leased == keys \ forever
Broken == IF keepAlive = "open" THEN "closed" ELSE keepAlive
NodeSeqs == {<<n>> : n \in Nodes} \cup {p \in Nodes \X Nodes : p[1] # p[2]}

---------------------------------------------------------------------------
\* r.Lock is held by Close until it returns, by the others within one step.
LockFree == shut \in {"no", "closed"}
ClientOpen == shut \in {"no", "revoke", "close"}

exist(nodes) == Range(nodes) \subseteq mine

Register(c, nodes) ==
  /\ call[c].op = "idle" /\ LockFree /\ ~exist(nodes) /\ Changed
  /\ call' = [call EXCEPT ![c] = [op |-> "put", todo |-> nodes, made |-> <<>>]]
  /\ UNCHANGED <<keys, alive, bound, forever, mine, keepAlive, registerFlag, stream, watching, shut, astray>>

\* One round of the loop of register, with the lease id of the moment.  The
\* loop that registers again may write a node that was deleted meanwhile.
Accepted == ClientOpen /\ (bound => alive)
Written(n) ==
  /\ keys' = keys \cup {n}
  /\ forever' = IF bound THEN forever \ {n} ELSE forever \cup {n}
  /\ Send(<<Event(IF n \in keys THEN "update" ELSE "add", n)>>)
Found(n, left) == [left |-> left, gone |-> astray.gone \ {n}]

Put(c) ==
  LET n == Head(call[c].todo)
  IN /\ call[c].op = "put" /\ call[c].todo # <<>> /\ Accepted
     /\ Written(n)
     /\ call' = [call EXCEPT ![c].todo = Tail(@), ![c].made = Append(@, n)]
     /\ astray' = Found(n, IF c = Loop THEN astray.left \cup ({n} \ mine) ELSE astray.left)
     /\ UNCHANGED <<alive, bound, mine, keepAlive, registerFlag, watching, shut, changes>>

\* A Put fails: register takes back the nodes before it, s.Nodes[:i].  When the
\* context timed out etcd may have written the node, which nobody takes back.
Undone_none(c) == <<>>
Undone(c) == call[c].made
PutFails(c) ==
  LET n == Head(call[c].todo)
  IN /\ call[c].op = "put" /\ call[c].todo # <<>>
     /\ IF Accepted THEN Changed ELSE UNCHANGED changes
     /\ call' = [call EXCEPT ![c] = [op |-> "undo", todo |-> Undone(c), made |-> <<>>]]
     /\ \/ UNCHANGED <<keys, forever, stream, astray>>
        \/ Accepted /\ Written(n) /\ astray' = Found(n, astray.left \cup ({n} \ mine))
     /\ UNCHANGED <<alive, bound, mine, keepAlive, registerFlag, watching, shut>>

\* register is done: Register saves the service, the loop lowers its flag.
addService(nodes) == mine \cup Range(nodes)
Registered(c) ==
  /\ call[c].op = "put" /\ call[c].todo = <<>>
  /\ call' = [call EXCEPT ![c] = NoCall]
  /\ IF c = Loop THEN registerFlag' = FALSE /\ UNCHANGED mine
     ELSE LockFree /\ mine' = addService(call[c].made) /\ UNCHANGED registerFlag
  /\ astray' = IF c = Loop THEN astray
               ELSE [left |-> astray.left \ Range(call[c].made),
                     gone |-> astray.gone \cup (Range(call[c].made) \ keys)]
  /\ UNCHANGED <<keys, alive, bound, forever, keepAlive, stream, watching, shut, changes>>

\* deleteService, and then unregister.
deleteService(nodes) == mine \ Range(nodes)
Deregister(c, nodes) ==
  /\ call[c].op = "idle" /\ LockFree /\ Changed
  /\ mine' = deleteService(nodes)
  /\ call' = [call EXCEPT ![c] = [op |-> "delete", todo |-> nodes, made |-> <<>>]]
  /\ UNCHANGED <<keys, alive, bound, forever, keepAlive, registerFlag, stream, watching, shut, astray>>

\* One round of the loop of unregister, which an error ends.  register may take
\* back a node that was registered before.
Removed(c, n, rest) ==
  /\ Delete({n}) /\ forever' = forever \ {n}
  /\ astray' = [left |-> (astray.left \ {n}) \cup rest,
                gone |-> IF c = Loop THEN astray.gone ELSE astray.gone \cup ({n} \cap mine)]

Unregister(c) ==
  /\ call[c].op \in {"delete", "undo"} /\ call[c].todo # <<>> /\ ClientOpen
  /\ Removed(c, Head(call[c].todo), {})
  /\ call' = [call EXCEPT ![c].todo = Tail(@)]
  /\ UNCHANGED <<alive, bound, mine, keepAlive, registerFlag, watching, shut, changes>>

\* The request, or only its answer, is lost.
UnregisterFails(c) ==
  LET todo == call[c].todo
      Left(ns) == Range(ns) \cap (keys \ mine)
  IN /\ call[c].op \in {"delete", "undo"} /\ todo # <<>>
     /\ IF ClientOpen THEN Changed ELSE UNCHANGED changes
     /\ call' = [call EXCEPT ![c].todo = <<>>]
     /\ \/ UNCHANGED <<keys, forever, stream>>
           /\ astray' = [astray EXCEPT !.left = @ \cup Left(todo)]
        \/ ClientOpen /\ Removed(c, Head(todo), Left(Tail(todo)))
     /\ UNCHANGED <<alive, bound, mine, keepAlive, registerFlag, watching, shut>>

Unregistered(c) ==
  /\ call[c].op \in {"delete", "undo"} /\ call[c].todo = <<>>
  /\ call' = [call EXCEPT ![c] = NoCall]
  /\ UNCHANGED <<keys, alive, bound, forever, mine, keepAlive, registerFlag, stream, watching, shut, astray, changes>>

---------------------------------------------------------------------------
\* The lease expires: its keys go in one message, the channel is closed.
LeaseExpires ==
  /\ alive /\ Changed
  /\ alive' = FALSE /\ keepAlive' = Broken
  /\ Delete(Leased)
  /\ UNCHANGED <<bound, forever, mine, call, registerFlag, watching, shut, astray>>

\* The stream of keep-alives breaks while the lease lives.
KeepAliveBreaks ==
  /\ keepAlive = "open" /\ alive /\ Changed
  /\ keepAlive' = "closed"
  /\ UNCHANGED <<keys, alive, bound, forever, mine, call, registerFlag, stream, watching, shut, astray>>

\* Revoke is sent with the lease id; it is lost when the client is closed.
Revoke ==
  IF bound /\ ClientOpen
  THEN alive' = FALSE /\ Delete(Leased)
  ELSE UNCHANGED <<keys, alive, stream>>

\* handleEtcdRestart receives from the closed channel and calls KeepAlive,
\* with the old lease or, when Close took its id, a new one.  If that fails
\* the lease is revoked, or left to expire, the channel is nil and never ready
\* again.
handleEtcdRestart ==
  /\ keepAlive = "closed" /\ call[Loop].op = "idle"
  /\ registerFlag' = TRUE
  /\ \/ /\ ClientOpen
        /\ alive' = (alive \/ ~bound) /\ bound' = TRUE
        /\ keepAlive' = IF alive' THEN "open" ELSE "closed"
        /\ UNCHANGED <<keys, stream, changes>>
     \/ /\ keepAlive' = "nil" /\ bound' = FALSE
        /\ IF alive /\ ClientOpen THEN Changed ELSE UNCHANGED changes
        /\ Revoke \/ UNCHANGED <<keys, alive, stream>>
  /\ UNCHANGED <<forever, mine, call, watching, shut, astray>>

\* A message of the keep-alive after an interruption: take the lock, copy the
\* services, register them.
RegisterAll ==
  /\ keepAlive = "open" /\ registerFlag /\ call[Loop].op = "idle"
  /\ call' = [call EXCEPT ![Loop].op = "lock"]
  /\ UNCHANGED <<keys, alive, bound, forever, mine, keepAlive, registerFlag, stream, watching, shut, astray, changes>>

CopyServices ==
  /\ call[Loop].op = "lock" /\ LockFree
  /\ call' = [call EXCEPT ![Loop] = [op |-> "put", todo |-> SetToSeq(mine), made |-> <<>>]]
  /\ UNCHANGED <<keys, alive, bound, forever, mine, keepAlive, registerFlag, stream, watching, shut, astray, changes>>

\* The select sees done closed.
LoopExits ==
  /\ shut # "no" /\ call[Loop].op = "idle"
  /\ call' = [call EXCEPT ![Loop].op = "exit"]
  /\ UNCHANGED <<keys, alive, bound, forever, mine, keepAlive, registerFlag, stream, watching, shut, astray, changes>>

---------------------------------------------------------------------------
\* Close: r.Lock, close(r.done) and the Stop of Client.Close.
RegistryClose ==
  /\ shut = "no" /\ Changed /\ shut' = "revoke"
  /\ keepAlive' = Broken
  /\ UNCHANGED <<keys, alive, bound, forever, mine, call, registerFlag, stream, watching, astray>>

\* The rest of Client.Close: the id is taken, the lease revoked if etcd answers.
ClientClose ==
  /\ shut = "revoke" /\ shut' = "close" /\ bound' = FALSE
  /\ \/ Revoke /\ keepAlive' = (IF bound THEN Broken ELSE keepAlive) /\ UNCHANGED changes
     \/ bound /\ Changed /\ UNCHANGED <<keys, alive, stream, keepAlive>>
  /\ UNCHANGED <<forever, mine, call, registerFlag, watching, astray>>

\* r.etcdClient.Close; r.wg.Wait follows.
EtcdClientClose ==
  /\ shut = "close" /\ shut' = "wait" /\ keepAlive' = Broken
  /\ UNCHANGED <<keys, alive, bound, forever, mine, call, registerFlag, stream, watching, astray, changes>>

RegistryClosed ==
  /\ shut = "wait" /\ call[Loop].op = "exit" /\ shut' = "closed"
  /\ UNCHANGED <<keys, alive, bound, forever, mine, call, keepAlive, registerFlag, stream, watching, astray, changes>>

LoopStep == handleEtcdRestart \/ RegisterAll \/ CopyServices
CloseStep == ClientClose \/ EtcdClientClose \/ RegistryClosed

RegistryStep(c) ==
  Put(c) \/ PutFails(c) \/ Registered(c) \/ Unregister(c) \/ UnregisterFails(c) \/ Unregistered(c)

ServingNext ==
  \/ \E c \in Callers, nodes \in NodeSeqs : Register(c, nodes) \/ Deregister(c, nodes)
  \/ \E c \in Callers \cup {Loop} : RegistryStep(c)
  \/ LeaseExpires \/ KeepAliveBreaks \/ LoopStep

RegistryNext == ServingNext \/ LoopExits \/ RegistryClose \/ CloseStep

\* Goroutines run; a select does not pass over a ready channel for ever.
RegistryFairness ==
  /\ \A c \in Callers \cup {Loop} : WF_registryVars(RegistryStep(c))
  /\ WF_registryVars(LoopStep) /\ WF_registryVars(LoopExits \/ CloseStep)

\* Between calls, with the lease kept alive and every interruption repaired,
\* etcd and the registry disagree on a node for four reasons only.  etcd holds
\* one the registry does not store after a Put or a Delete of that node failed
\* or RegisterAll wrote it again while it was deregistered.  It lacks one that
\* is stored when a failed Register took back a node registered before, or when
\* the lease was replaced before Register had stored the node.  A key outlives
\* the lease only after KeepAlive failed or Close began.
RegisteredNodes ==
  /\ (\A c \in DOMAIN call : call[c].op = "idle") /\ keepAlive = "open" /\ alive /\ ~registerFlag
       => keys \ mine \subseteq astray.left /\ mine \ keys \subseteq astray.gone
  /\ keepAlive # "nil" /\ shut = "no" => forever = {}

\* Close of the registry returns, unless the restart goroutine was about to
\* register again: it waits for the lock, which Close holds while it waits for
\* the goroutine.
RegistryCloses == shut = "revoke" ~> (shut = "closed" \/ (shut = "wait" /\ call[Loop].op = "lock"))
=============================================================================
