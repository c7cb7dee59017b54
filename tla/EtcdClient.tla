----------------------------- MODULE EtcdClient -----------------------------
(***************************************************************************)
(* database/etcd/client.go: the lease of a client (KeepAlive, Stop,        *)
(* Close), leader election (Campaign, Resign, CheckLeadership) and Lock    *)
(* and Unlock.                                                             *)
(*                                                                         *)
(* etcd and its concurrency package are external: a session owns a lease;  *)
(* its end, by Close or by expiry, removes the keys bound to it; of the    *)
(* candidates of an election, or of a mutex, one key is the first.         *)
(***************************************************************************)
EXTENDS Naturals

CONSTANTS Gr,          \* goroutines that campaign and lock
          Keepers,     \* goroutines that call KeepAlive
          MaxLeases,   \* bound on the leases granted
          MaxCalls,    \* bound on calls of Campaign and Lock, and on lost sessions
          Nobody

VARIABLES
  id,          \* c.id, 0: NoLease
  leases,      \* leases alive at the server
  granted,     \* number of leases granted so far
  refreshed,   \* leases with a keep-alive that was not cancelled
  cancel,      \* the lease that c.cancel stops refreshing, 0: nil
  done,        \* c.done is closed
  ka,          \* per keeper: pc and the local id of KeepAlive
  ending,      \* per caller of Stop and of Close: what it is at
  revoking,    \* the local id of Close
  overlapped,  \* history: a KeepAlive met another one or Stop, or came after Stop
  panicked,    \* a nil session or a closed channel was closed
  entry,       \* per goroutine: the session of its entry in c.leaderMap, or "none"
  el,          \* per goroutine: what Campaign and Resign are at
  leader,      \* external: the goroutine with the first key of the election
  leads,       \* goroutines whose Campaign succeeded and that did not resign since
  lk,          \* per goroutine: what Lock is at
  lockMap,     \* goroutines with an entry in c.lockMap
  lockKey,     \* external: the goroutine with the first key of the mutex
  holds,       \* goroutines whose Lock succeeded and that did not unlock since
  calls

leaseVars == <<id, leases, granted, refreshed, cancel, done, ka, ending, revoking, overlapped>>
electVars == <<entry, el, leader, leads>>
mutexVars == <<lk, lockMap, lockKey, holds>>
etcdVars == <<leaseVars, electVars, mutexVars, panicked, calls>>

Resting == [pc |-> "idle", id |-> 0]

TypeOK ==
  /\ granted \in 0 .. MaxLeases
  /\ id \in 0 .. granted /\ cancel \in 0 .. granted /\ revoking \in 0 .. granted
  /\ leases \subseteq 1 .. granted /\ refreshed \subseteq 1 .. granted
  /\ ka \in [Keepers -> [pc : {"idle", "grant", "alive"}, id : 0 .. granted]]
  /\ ending \in [{"Stop", "Close"} -> {"idle", "checked", "stopped", "revoke", "closed"}]
  /\ el \in [Gr -> {"idle", "wait", "reuse", "stop", "resign"}]
  /\ entry \in [Gr -> {"none", "open", "closed"}] /\ leader \in Gr \cup {Nobody}
  /\ done \in BOOLEAN /\ overlapped \in BOOLEAN /\ panicked \in BOOLEAN
  /\ leads \subseteq Gr /\ holds \subseteq Gr /\ lockMap \subseteq Gr

Init ==
  /\ id = 0 /\ leases = {} /\ granted = 0 /\ refreshed = {} /\ cancel = 0 /\ done = FALSE
  /\ ka = [k \in Keepers |-> Resting]
  /\ ending = [e \in {"Stop", "Close"} |-> "idle"] /\ revoking = 0 /\ overlapped = FALSE
  /\ entry = [g \in Gr |-> "none"] /\ el = [g \in Gr |-> "idle"]
  /\ leader = Nobody /\ leads = {}
  /\ lk = [g \in Gr |-> "idle"] /\ lockMap = {} /\ lockKey = Nobody /\ holds = {}
  /\ panicked = FALSE /\ calls = 0

---------------------------------------------------------------------------
(* The lease *)

Busy == \E k \in Keepers : ka[k].pc # "idle"

\* KeepAlive, first lock section: stop the old keep-alive, read the id.
KeepAlive(k) ==
  /\ ka[k].pc = "idle" /\ calls < MaxCalls /\ calls' = calls + 1
  /\ refreshed' = refreshed \ {cancel} /\ cancel' = 0
  /\ ka' = [ka EXCEPT ![k] = [pc |-> "grant", id |-> id]]
  /\ overlapped' = (overlapped \/ Busy \/ done \/ ending["Close"] # "idle")
  /\ UNCHANGED <<id, leases, granted, done, ending, revoking, panicked>>

\* Grant, unless there was a lease, and the second lock section.
Grant(k) ==
  LET new == ka[k].id = 0
      lease == IF new THEN granted + 1 ELSE ka[k].id
  IN /\ ka[k].pc = "grant" /\ lease <= MaxLeases
     /\ granted' = IF new THEN lease ELSE granted
     /\ leases' = IF new THEN leases \cup {lease} ELSE leases
     /\ ka' = [ka EXCEPT ![k] = [pc |-> "alive", id |-> lease]] /\ id' = lease
     /\ UNCHANGED <<refreshed, cancel, done, ending, revoking, overlapped, panicked, calls>>

GrantFails(k) ==
  /\ ka[k] = [pc |-> "grant", id |-> 0]
  /\ ka' = [ka EXCEPT ![k] = Resting]
  /\ UNCHANGED <<id, leases, granted, refreshed, cancel, done, ending, revoking, overlapped, panicked, calls>>

\* client.KeepAlive refreshes the lease; the third lock section stores cancel.
Cancel_lost(l) == 0
Cancel(l) == l
Refresh(k) ==
  /\ ka[k].pc = "alive"
  /\ refreshed' = refreshed \cup {ka[k].id} /\ cancel' = Cancel(ka[k].id)
  /\ ka' = [ka EXCEPT ![k] = Resting]
  /\ UNCHANGED <<id, leases, granted, done, ending, revoking, overlapped, panicked, calls>>

\* client.KeepAlive fails: the lease is revoked, or the request for that fails
\* too, and c.id is forgotten.
RefreshFails(k) ==
  /\ ka[k].pc = "alive"
  /\ leases' \in {leases, leases \ {ka[k].id}} /\ id' = 0
  /\ ka' = [ka EXCEPT ![k] = Resting]
  /\ UNCHANGED <<granted, refreshed, cancel, done, ending, revoking, overlapped, panicked, calls>>

\* A lease that nobody refreshes expires.
LeaseExpires(l) ==
  /\ l \in leases \ refreshed /\ leases' = leases \ {l}
  /\ UNCHANGED <<id, granted, refreshed, cancel, done, ka, ending, revoking, overlapped, panicked, calls>>

\* Stop, called by itself (e = "Stop") or by Close: the check of c.done, then
\* the lock section, which panics when another Stop came in between.
Ended(e) == IF e = "Close" THEN "stopped" ELSE "idle"
StopCheck(e) ==
  /\ ending[e] = "idle"
  /\ IF e = "Stop" THEN ~done ELSE revoking = 0
  /\ ending' = [ending EXCEPT ![e] = IF done THEN Ended(e) ELSE "checked"]
  /\ overlapped' = (overlapped \/ Busy)
  /\ UNCHANGED <<id, leases, granted, refreshed, cancel, done, ka, revoking, panicked, calls>>

StopSection(e) ==
  /\ ending[e] = "checked"
  /\ ending' = [ending EXCEPT ![e] = Ended(e)]
  /\ refreshed' = refreshed \ {cancel} /\ cancel' = 0
  /\ done' = TRUE /\ panicked' = (panicked \/ done)
  /\ overlapped' = (overlapped \/ Busy)
  /\ UNCHANGED <<id, leases, granted, ka, revoking, calls>>

\* Close takes the id and then revokes the lease, which may fail.
CloseTakesId ==
  /\ ending["Close"] = "stopped" /\ ending' = [ending EXCEPT !["Close"] = "revoke"]
  /\ revoking' = id /\ id' = 0
  /\ UNCHANGED <<leases, granted, refreshed, cancel, done, ka, overlapped, panicked, calls>>

CloseRevokesLease ==
  /\ ending["Close"] = "revoke" /\ ending' = [ending EXCEPT !["Close"] = "closed"]
  /\ leases' \in {leases, leases \ {revoking}}
  /\ UNCHANGED <<id, granted, refreshed, cancel, done, ka, revoking, overlapped, panicked, calls>>

LeaseNext ==
  /\ ~panicked
  /\ \/ \E k \in Keepers : \/ KeepAlive(k) \/ Grant(k) \/ GrantFails(k)
                          \/ Refresh(k) \/ RefreshFails(k)
     \/ \E l \in leases : LeaseExpires(l)
     \/ \E e \in {"Stop", "Close"} : StopCheck(e) \/ StopSection(e)
     \/ CloseTakesId \/ CloseRevokesLease
  /\ UNCHANGED <<electVars, mutexVars>>

\* After Close no lease of the client is kept alive, whatever failed and
\* whatever was stopped or expired before, provided KeepAlive was called by
\* one goroutine at a time and neither during nor after Stop.
CloseOrphansLease ==
  (ending["Close"] = "closed" /\ ~overlapped) => leases \cap refreshed = {}

\* What makes it so: without overlaps, at most the lease that cancel names is
\* refreshed, and none while a KeepAlive is under way or after Stop.
LeaseInv ==
  /\ ending["Close"] \in {"stopped", "revoke", "closed"} => done
  /\ \A k \in Keepers : ka[k].pc = "alive" => ka[k].id # 0
  /\ ~overlapped =>
       /\ refreshed \subseteq {cancel} \ {0}
       /\ done => cancel = 0 /\ ~Busy
       /\ \A k \in Keepers : ka[k].pc # "idle" =>
            cancel = 0 /\ \A j \in Keepers \ {k} : ka[j].pc = "idle"

---------------------------------------------------------------------------
(* Leader election *)

\* Whatever ends a session removes its key.
KeyGone(g) == IF leader = g THEN Nobody ELSE leader

\* Campaign takes the session of its goroutine's entry, or opens one and
\* stores it.  "wait": the local variable session is set, "reuse": it is nil.
Campaign(g) ==
  /\ el[g] = "idle" /\ calls < MaxCalls /\ calls' = calls + 1
  /\ el' = [el EXCEPT ![g] = IF entry[g] = "none" THEN "wait" ELSE "reuse"]
  /\ entry' = [entry EXCEPT ![g] = IF @ = "none" THEN "open" ELSE @]
  /\ UNCHANGED <<leader, leads, panicked>>

\* The key of a candidate becomes the first, and Campaign sees that it did.
KeyFirst(g) ==
  /\ el[g] \in {"wait", "reuse"} /\ entry[g] = "open" /\ leader = Nobody
  /\ leader' = g
  /\ UNCHANGED <<entry, el, leads, panicked, calls>>

CampaignWins(g) ==
  /\ el[g] \in {"wait", "reuse"} /\ leader = g
  /\ el' = [el EXCEPT ![g] = "idle"] /\ leads' = leads \cup {g}
  /\ UNCHANGED <<entry, leader, panicked, calls>>

\* Campaign fails or its context ends: the session is closed and its entry
\* stays.  Closing a session that is nil panics.
SessionClosed_not(g) == leader
SessionClosed(g) == KeyGone(g)
CampaignFails(g) ==
  /\ el[g] \in {"wait", "reuse"}
  /\ IF el[g] = "wait" THEN entry' = [entry EXCEPT ![g] = "closed"] /\ leader' = SessionClosed(g)
     ELSE UNCHANGED <<entry, leader>>
  /\ panicked' = (el[g] = "reuse")
  /\ el' = [el EXCEPT ![g] = "idle"] /\ leads' = leads \ {g}
  /\ UNCHANGED calls

\* Resign deletes the entry when it is to stop, then the key, and closes the
\* session when it is to stop.  A failed request leaves the key.
Resign(g, stop) ==
  /\ el[g] = "idle" /\ entry[g] # "none"
  /\ entry' = [entry EXCEPT ![g] = IF stop THEN "none" ELSE @]
  /\ el' = [el EXCEPT ![g] = IF stop THEN "stop" ELSE "resign"] /\ leads' = leads \ {g}
  /\ UNCHANGED <<leader, panicked, calls>>

ResignRequest(g) ==
  /\ el[g] \in {"stop", "resign"} /\ el' = [el EXCEPT ![g] = "idle"]
  /\ \/ leader' = KeyGone(g) /\ UNCHANGED leads
     \/ /\ el[g] = "resign" /\ UNCHANGED leader
        /\ leads' = IF leader = g THEN leads \cup {g} ELSE leads
  /\ UNCHANGED <<entry, panicked, calls>>

SessionLost(g) ==
  /\ entry[g] = "open" /\ calls < MaxCalls /\ calls' = calls + 1
  /\ entry' = [entry EXCEPT ![g] = "closed"] /\ leader' = KeyGone(g)
  /\ UNCHANGED <<el, leads, panicked>>

\* What CheckLeadership answers to g.
CheckLeadership(g) == entry[g] # "none" /\ leader = g

ElectionNext ==
  /\ ~panicked
  /\ \/ \E g \in Gr : \/ Campaign(g) \/ KeyFirst(g) \/ CampaignWins(g) \/ CampaignFails(g)
                     \/ ResignRequest(g) \/ SessionLost(g)
     \/ \E g \in Gr, stop \in BOOLEAN : Resign(g, stop)
  /\ UNCHANGED <<leaseVars, mutexVars>>

\* Nobody is kept out by a candidate that gave up: the key that leads belongs
\* to a goroutine that was told so, or whose Campaign or Resign has not ended.
\* And two goroutines believe they lead only after one lost its session.
LeadershipHeld ==
  /\ (leader # Nobody /\ el[leader] = "idle") =>
       (leader \in leads /\ CheckLeadership(leader)) \/ panicked
  /\ \A g, h \in leads : g # h => "closed" \in {entry[g], entry[h]}

\* What makes it so: the first key belongs to an open session or to a Resign
\* under way; a goroutine that believes to lead without the first key has lost
\* its session; and one that resigns no longer believes it.
ElectionInv ==
  /\ leader # Nobody => entry[leader] = "open" \/ el[leader] = "stop"
  /\ \A g \in leads : entry[g] = "closed" \/ (entry[g] = "open" /\ leader = g)
  /\ \A g \in Gr : el[g] \in {"stop", "resign"} => g \notin leads
  /\ (leader # Nobody /\ el[leader] = "idle") => leader \in leads \/ panicked

---------------------------------------------------------------------------
(* The lock *)

\* Lock takes the mutex of its goroutine's entry, whose session is closed, or
\* opens a session, locks, stores the mutex and closes the session on return.
Lock(g) ==
  /\ lk[g] = "idle" /\ calls < MaxCalls /\ calls' = calls + 1
  /\ lk' = [lk EXCEPT ![g] = IF g \in lockMap THEN "relock" ELSE "lock"]
  /\ UNCHANGED <<lockMap, lockKey, holds>>

LockKeyFirst(g) ==
  /\ lk[g] = "lock" /\ lockKey = Nobody /\ lockKey' = g
  /\ UNCHANGED <<lk, lockMap, holds, calls>>

LockSave(g) ==
  /\ lk[g] = "lock" /\ lockKey = g
  /\ lockMap' = lockMap \cup {g} /\ lk' = [lk EXCEPT ![g] = "close"]
  /\ UNCHANGED <<lockKey, holds, calls>>

LockReturn(g) ==
  /\ lk[g] = "close" /\ lk' = [lk EXCEPT ![g] = "idle"]
  /\ lockKey' = IF lockKey = g THEN Nobody ELSE lockKey
  /\ holds' = holds \cup {g}
  /\ UNCHANGED <<lockMap, calls>>

LockFails(g) ==
  /\ lk[g] \in {"lock", "relock"} /\ lk' = [lk EXCEPT ![g] = "idle"]
  /\ lockKey' = IF lockKey = g THEN Nobody ELSE lockKey
  /\ UNCHANGED <<lockMap, holds, calls>>

Unlock(g) ==
  /\ lk[g] = "idle" /\ g \in lockMap
  /\ lockMap' = lockMap \ {g} /\ holds' = holds \ {g}
  /\ UNCHANGED <<lk, lockKey, calls>>

MutexNext ==
  /\ \E g \in Gr : \/ Lock(g) \/ LockKeyFirst(g) \/ LockSave(g) \/ LockReturn(g)
                  \/ LockFails(g) \/ Unlock(g)
  /\ UNCHANGED <<leaseVars, electVars, panicked>>

EtcdNext == LeaseNext \/ ElectionNext \/ MutexNext

EtcdSpec == Init /\ [][EtcdNext]_etcdVars
=============================================================================
