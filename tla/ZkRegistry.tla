----------------------------- MODULE ZkRegistry -----------------------------
(***************************************************************************)
(* database/registry/zookeeper: a Registry that registers the nodes of a   *)
(* service as ephemeral znodes (registry.go), and a Watcher that turns the *)
(* changes below the root into events for its consumer (watcher.go).       *)
(*                                                                         *)
(* There are two directories, Root and the service's path Svc, which       *)
(* CreateZkPath creates for good.  zookeeper is external: ChildrenW leaves *)
(* one watch per directory, which fires once, into the channel ChildrenW   *)
(* returned and into the session channel that handleZkEvent reads.  A      *)
(* deleted znode fires the watches of ExistW on it.                        *)
(***************************************************************************)
EXTENDS Naturals, Sequences, FiniteSets, SequencesExt

CONSTANTS Nodes,       \* nodes of the service
          Callers,     \* goroutines that call Register and Deregister
          EventSize,   \* ZKCLIENT_EVENT_CHANNEL_SIZE
          EventsSize,  \* Wactch_Event_Channel_Size
          SessionSize, \* capacity of the session channel
          MaxChanges   \* bound on calls, expired sessions and lost watches

VARIABLES
  svcMade,     \* CreateZkPath has created the path of the service
  live,        \* znodes below it
  mine,        \* nodes in r.serviceRegistry
  call,        \* per caller: what it does, the nodes to do and all its nodes
  lost,        \* the registering side lost its session and has not reconnected
  srvWatch,    \* directories with a watch at the server
  session,     \* directories of the events in the session channel
  sending,     \* directories handleZkEvent has yet to notify, with r.Mutex held
  wd,          \* per directory: the goroutine in watchDir
  nw,          \* per node: number of goroutines in watchServiceNode, by place
  events,      \* w.events
  done,        \* w.done is closed
  view,        \* what the consumer of Notify believes
  raced,       \* history: a change, or a retry, came while the watcher was busy
  changes

watchVars == <<srvWatch, session, sending, wd, nw, events, done, view>>
vars == <<svcMade, live, mine, call, lost, watchVars, raced, changes>>

Root == "root"
Svc == "svc"
Dirs == {Root, Svc}

Children(d) == IF d = Root THEN (IF svcMade THEN {Svc} ELSE {}) ELSE live

NoCall == [op |-> "none", todo |-> <<>>, nodes |-> <<>>]
Unstarted == [pc |-> "off", children |-> {}, watch |-> "none", flag |-> TRUE,
              todo |-> {}, after |-> "list", tokens |-> 0, registered |-> FALSE]

TypeOK ==
  /\ live \subseteq Nodes /\ mine \subseteq Nodes /\ view \subseteq Nodes
  /\ srvWatch \subseteq Dirs /\ sending \subseteq Dirs /\ session \in Seq(Dirs)
  /\ Len(session) <= SessionSize /\ Len(events) <= EventsSize
  /\ \A d \in Dirs : wd[d].tokens \in 0 .. EventSize

\* NewRegistry and NewWatcher: go r.handleZkEvent, go w.watchDir(w.opts.Root).
Init ==
  /\ svcMade = FALSE /\ live = {} /\ mine = {}
  /\ call = [c \in Callers |-> NoCall]
  /\ lost = FALSE /\ srvWatch = {} /\ session = <<>> /\ sending = {}
  /\ wd = [d \in Dirs |-> IF d = Root THEN [Unstarted EXCEPT !.pc = "list"] ELSE Unstarted]
  /\ nw = [n \in Nodes |-> [start |-> 0, armed |-> 0, fired |-> 0]]
  /\ events = <<>> /\ done = FALSE /\ view = {} /\ raced = FALSE /\ changes = 0

\* The watcher has nothing left to do for what has happened so far.
Settled ==
  /\ session = <<>> /\ sending = {} /\ events = <<>>
  /\ \A d \in Dirs : \/ wd[d].pc = "off"
                     \/ wd[d].pc = "select" /\ wd[d].watch = "armed"
                     \/ wd[d].pc = "retry" /\ wd[d].tokens = 0 /\ d \in srvWatch
  /\ \A n \in Nodes : nw[n].start = 0 /\ nw[n].fired = 0

\* zookeeper reports a change of the children of d to the watch on it, if any.
\* An event that the session channel has no room for is dropped.
Fire(d) ==
  /\ srvWatch' = srvWatch \ {d}
  /\ IF d \in srvWatch
     THEN /\ session' = IF Len(session) < SessionSize THEN Append(session, d) ELSE session
          /\ wd' = [wd EXCEPT ![d].watch = IF @ = "armed" THEN "fired" ELSE @]
     ELSE UNCHANGED <<session, wd>>
  /\ raced' = (raced \/ ~Settled)
  /\ UNCHANGED <<sending, events, done, view>>

\* The watches of ExistW on deleted znodes fire.
FireNodes(gone) ==
  nw' = [n \in Nodes |-> IF n \in gone
                         THEN [nw[n] EXCEPT !.fired = @ + nw[n].armed, !.armed = 0] ELSE nw[n]]

---------------------------------------------------------------------------
(* registry.go *)

\* exist: every node of the service is in serviceRegistry.
exist(ns) == Range(ns) \subseteq mine

Register(c, ns) ==
  /\ call[c].op = "none" /\ changes < MaxChanges /\ changes' = changes + 1
  /\ ~exist(ns)
  /\ call' = [call EXCEPT ![c] = [op |-> "path", todo |-> ns, nodes |-> ns]]
  /\ UNCHANGED <<svcMade, live, mine, lost, watchVars, raced>>

\* register: CreateZkPath, before every node.
CreateZkPath(c) ==
  /\ call[c].op = "path" /\ call[c].todo # <<>>
  /\ call' = [call EXCEPT ![c].op = "temp"]
  /\ svcMade' = TRUE
  /\ IF svcMade THEN UNCHANGED <<watchVars, raced>> ELSE Fire(Root) /\ UNCHANGED nw
  /\ UNCHANGED <<live, mine, lost, changes>>

\* register: RegisterTemp.  A znode that exists ends the call with an error;
\* the znodes created before it stay.
RegisterTemp(c) ==
  LET n == Head(call[c].todo)
  IN /\ call[c].op = "temp"
     /\ IF n \in live
        THEN call' = [call EXCEPT ![c] = NoCall] /\ UNCHANGED <<live, watchVars, raced>>
        ELSE /\ live' = live \cup {n} /\ Fire(Svc) /\ UNCHANGED nw
             /\ call' = [call EXCEPT ![c].op = "path", ![c].todo = Tail(@)]
     /\ UNCHANGED <<svcMade, mine, lost, changes>>

\* addService, once all znodes are there.
addService(c) == Range(call[c].nodes)
Registered(c) ==
  /\ call[c].op = "path" /\ call[c].todo = <<>>
  /\ mine' = mine \cup addService(c)
  /\ call' = [call EXCEPT ![c] = NoCall]
  /\ UNCHANGED <<svcMade, live, lost, watchVars, raced, changes>>

\* Deregister: deleteService, then unregister.
Deregister(c, ns) ==
  /\ call[c].op = "none" /\ changes < MaxChanges /\ changes' = changes + 1
  /\ mine' = mine \ Range(ns)
  /\ call' = [call EXCEPT ![c] = [op |-> "delete", todo |-> ns, nodes |-> ns]]
  /\ UNCHANGED <<svcMade, live, lost, watchVars, raced>>

\* unregister: a znode that is not there ends the call with an error.
DeleteZkPath(c) ==
  LET n == Head(call[c].todo)
  IN /\ call[c].op = "delete"
     /\ IF n \in live
        THEN /\ live' = live \ {n} /\ Fire(Svc) /\ FireNodes({n})
             /\ call' = [call EXCEPT ![c] = IF Len(@.todo) = 1 THEN NoCall ELSE [@ EXCEPT !.todo = Tail(@)]]
        ELSE call' = [call EXCEPT ![c] = NoCall] /\ UNCHANGED <<live, watchVars, raced>>
     /\ UNCHANGED <<svcMade, mine, lost, changes>>

\* The session of the registering side expires, and its znodes with it.
SessionExpires ==
  /\ live # {} /\ changes < MaxChanges /\ changes' = changes + 1
  /\ live' = {} /\ Fire(Svc) /\ FireNodes(live) /\ lost' = TRUE
  /\ UNCHANGED <<svcMade, mine, call>>

Rest == UNCHANGED <<svcMade, live, mine, call, lost, changes>>

\* handleZkRestart: register every service of serviceRegistry again.
handleZkRestart == live' = live \cup mine

\* handleZkEvent of the registering side: it has seen StateDisconnected and now
\* sees StateConnected.  Its test of the state it remembers holds for every
\* state, so the event is skipped.
SkipsState(state) == state # "Connecting" \/ state # "Disconnected"
Reconnected ==
  /\ lost /\ lost' = FALSE
  /\ IF SkipsState("Disconnected") THEN UNCHANGED live ELSE handleZkRestart
  /\ UNCHANGED <<svcMade, mine, call, watchVars, raced, changes>>

\* handleZkEvent: a change of the children of d.  With r.Mutex held it notifies
\* every registered watchDir at or below d, waiting where a channel is full.
Below(d) == IF d = Root THEN Dirs ELSE {Svc}
HandleNodeEvent ==
  /\ session # <<>> /\ sending = {}
  /\ session' = Tail(session)
  /\ sending' = {d \in Below(Head(session)) : wd[d].registered}
  /\ UNCHANGED <<srvWatch, wd, nw, events, done, view, raced>> /\ Rest

SendToken(d) ==
  /\ d \in sending /\ wd[d].tokens < EventSize
  /\ wd' = [wd EXCEPT ![d].tokens = @ + 1]
  /\ sending' = sending \ {d}
  /\ UNCHANGED <<srvWatch, session, nw, events, done, view, raced>> /\ Rest

---------------------------------------------------------------------------
(* watcher.go *)

Still == UNCHANGED <<session, sending, view, done>> /\ Rest
At(d, pc) == wd[d].pc = pc

\* watchDir: GetChildrenW leaves a watch, and fails when there are no children.
GetChildrenW(d) ==
  /\ At(d, "list") /\ srvWatch' = srvWatch \cup {d}
  /\ wd' = [wd EXCEPT ![d] =
       [@ EXCEPT !.children = Children(d),
                 !.watch = IF Children(d) = {} THEN "none" ELSE "armed",
                 !.pc = CASE Children(d) = {} -> "register"
                          [] Children(d) # {} /\ wd[d].flag -> "first"
                          [] OTHER -> "select"]]
  /\ UNCHANGED <<nw, events, raced>> /\ Still

\* watchDir after a failure: clear the tokens, registerEvent.
RegisterEvent(d) ==
  /\ At(d, "register") /\ sending = {}
  /\ wd' = [wd EXCEPT ![d].pc = "retry", ![d].tokens = 0, ![d].registered = TRUE]
  /\ UNCHANGED <<srvWatch, nw, events, raced>> /\ Still

\* The three ways out of the wait, each through unregisterEvent.
TimeAfter(d) ==
  /\ At(d, "retry") /\ sending = {}
  /\ wd' = [wd EXCEPT ![d].pc = "list", ![d].registered = FALSE]
  /\ raced' = (raced \/ ~Settled)
  /\ UNCHANGED <<srvWatch, nw, events>> /\ Still

\* handleZkNodeEvent follows, also for Root, whose children have no data: then
\* it does nothing.
TakeToken(d) ==
  /\ At(d, "retry") /\ sending = {} /\ wd[d].tokens > 0
  /\ wd' = [wd EXCEPT ![d].pc = IF d = Root THEN "list" ELSE "handle",
                      ![d].registered = FALSE, ![d].tokens = @ - 1]
  /\ UNCHANGED <<srvWatch, nw, events, raced>> /\ Still

\* watchDir: the select on the watch.  Anything but a change of the children
\* begins the loop anew.
Select(d) ==
  /\ At(d, "select") /\ wd[d].watch \in {"fired", "lost"}
  /\ wd' = [wd EXCEPT ![d].pc = IF wd[d].watch = "fired" THEN "handle" ELSE "list", ![d].watch = "none"]
  /\ UNCHANGED <<srvWatch, nw, events, raced>> /\ Still

\* <-w.done; the deferred function takes the path out of pathSet.
WatchDirDone(d) ==
  /\ done /\ wd[d].pc \in {"select", "retry"} /\ sending = {}
  /\ wd' = [wd EXCEPT ![d] = Unstarted]
  /\ UNCHANGED <<srvWatch, nw, events, raced>> /\ Still

\* handleZkPathEvent and handleZkNodeEvent: GetChildren.  What was among the
\* children of the last GetChildrenW is not new, but for the first time.
NewChildren_listed(d, first) == Children(d) \ wd[d].children
NewChildren(d, first) == Children(d) \ (IF first THEN {} ELSE wd[d].children)
ListChildren(d) ==
  LET first == At(d, "first")
      after == IF first THEN "select" ELSE "list"
      new == NewChildren(d, first)
  IN /\ wd[d].pc \in {"first", "handle"}
     /\ wd' = [wd EXCEPT ![d] =
          [@ EXCEPT !.flag = @ /\ ~(first /\ Children(d) # {}), !.todo = new, !.after = after,
                    !.pc = IF new = {} THEN after ELSE "announce"]]
     /\ UNCHANGED <<srvWatch, nw, events, raced>> /\ Still

Announced(d, n) ==
  [wd[d] EXCEPT !.todo = @ \ {n}, !.pc = IF wd[d].todo = {n} THEN wd[d].after ELSE @]

\* handleZkPathEvent: go w.watchDir, unless the path is watched already.
WatchNewDir ==
  /\ At(Root, "announce")
  /\ wd' = [wd EXCEPT ![Root] = Announced(Root, Svc),
                      ![Svc] = IF @.pc = "off" THEN [Unstarted EXCEPT !.pc = "list"] ELSE @]
  /\ UNCHANGED <<srvWatch, nw, events, raced>> /\ Still

HasRoom == Len(events) < EventsSize

\* handleZkNodeEvent: announce a node whose data can still be read, and go and
\* watch it.
AnnounceNode(n) ==
  /\ At(Svc, "announce") /\ n \in wd[Svc].todo
  /\ wd' = [wd EXCEPT ![Svc] = Announced(Svc, n)]
  /\ IF n \in live
     THEN /\ HasRoom
          /\ events' = Append(events, [action |-> "add", node |-> n])
          /\ nw' = [nw EXCEPT ![n].start = @ + 1]
     ELSE UNCHANGED <<events, nw>>
  /\ UNCHANGED <<srvWatch, raced>> /\ Still

\* watchServiceNode: ExistW; its goroutine ends when the znode is gone already.
ExistW(n) ==
  /\ nw[n].start > 0
  /\ nw' = [nw EXCEPT ![n].start = @ - 1, ![n].armed = @ + (IF n \in live THEN 1 ELSE 0)]
  /\ UNCHANGED <<srvWatch, wd, events, raced>> /\ Still

\* watchServiceNode saw the deletion.
AnnounceDeleted(n) ==
  /\ nw[n].fired > 0 /\ HasRoom
  /\ nw' = [nw EXCEPT ![n].fired = @ - 1]
  /\ events' = Append(events, [action |-> "del", node |-> n])
  /\ UNCHANGED <<srvWatch, wd, raced>> /\ Still

WatchNodeDone(n) ==
  /\ done /\ nw[n].armed > 0
  /\ nw' = [nw EXCEPT ![n].armed = @ - 1]
  /\ UNCHANGED <<srvWatch, wd, events, raced>> /\ Still

\* The watcher's own session is lost: every watch reports it, none stays.
WatchesLost ==
  /\ changes < MaxChanges /\ changes' = changes + 1
  /\ srvWatch' = {}
  /\ wd' = [d \in Dirs |-> [wd[d] EXCEPT !.watch = IF @ = "armed" THEN "lost" ELSE @]]
  /\ nw' = [n \in Nodes |-> [nw[n] EXCEPT !.start = @ + nw[n].armed, !.armed = 0]]
  /\ UNCHANGED <<svcMade, live, mine, call, lost, session, sending, events, done, view, raced>>

\* Notify, and what its consumer makes of the event.
Notify ==
  /\ events # <<>> /\ events' = Tail(events)
  /\ LET e == Head(events)
     IN view' = IF e.action = "add" THEN view \cup {e.node} ELSE view \ {e.node}
  /\ UNCHANGED <<srvWatch, session, sending, wd, nw, done, raced>> /\ Rest

Close ==
  /\ ~done /\ done' = TRUE
  /\ UNCHANGED <<srvWatch, session, sending, wd, nw, events, view, raced>> /\ Rest

NodeSeqs == {<<n>> : n \in Nodes} \cup {ns \in [1 .. 2 -> Nodes] : ns[1] # ns[2]}

RegistryNext ==
  \/ \E c \in Callers : \/ \E ns \in NodeSeqs : Register(c, ns) \/ Deregister(c, ns)
                       \/ CreateZkPath(c) \/ RegisterTemp(c) \/ Registered(c) \/ DeleteZkPath(c)
  \/ SessionExpires
  \/ Reconnected
  \/ HandleNodeEvent \/ \E d \in Dirs : SendToken(d)

WatcherNext ==
  \/ \E d \in Dirs : \/ GetChildrenW(d) \/ RegisterEvent(d) \/ TimeAfter(d) \/ TakeToken(d)
                    \/ Select(d) \/ WatchDirDone(d) \/ ListChildren(d)
  \/ WatchNewDir
  \/ \E n \in Nodes : AnnounceNode(n) \/ ExistW(n) \/ AnnounceDeleted(n) \/ WatchNodeDone(n)
  \/ WatchesLost \/ Notify \/ Close

Next == RegistryNext \/ WatcherNext

\* When changes are far enough apart for the watcher to finish with one before
\* the next comes, its consumer knows exactly the registered nodes whenever the
\* watcher has nothing left to do.
FollowsSpacedChanges == (Settled /\ ~raced /\ ~done) => view = live
=============================================================================
