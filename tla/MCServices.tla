----------------------------- MODULE MCServices -----------------------------
(***************************************************************************)
(* The clients of zookeeper and etcd in one model.  They share no state: a *)
(* behaviour exercises the part that the variable which names.             *)
(***************************************************************************)
EXTENDS Naturals, Sequences, TLC

CONSTANTS Parts,                                         \* what to exercise
          Gr, ClientOf, TimeoutOf, MaxNodes, MaxFaults, Nobody,   \* ZkLock
          Nodes, Callers, EventSize, EventsSize, SessionSize, ZkChanges,   \* ZkRegistry
          Keepers, MaxLeases, MaxCalls,                    \* EtcdClient
          Loop, EtcdChanges, Getters, Ttl, Map,            \* ServiceFilter
          g1, g2, g3, c1, c2

VARIABLES which,
  znodes, owner, age, gr, mutex, leaderMap, leads, expired, lockMap, zkLock, faults,
  svcMade, live, mine, call, lost, srvWatch, session, sending, wd, nw, events, done, view, raced, changes,
  id, leases, granted, refreshed, cancel, stopped, ka, ending, revoking, overlapped, panicked,
  entry, el, leader, elected, lk, locks, lockKey, holds, calls,
  keys, alive, bound, forever, services, request, keepAlive, registerFlag, stream, watching, shut, astray, steps,
  arr, fresh, getter, answer, run, valid, closing

Z == INSTANCE ZkLock
R == INSTANCE ZkRegistry WITH MaxChanges <- ZkChanges
E == INSTANCE EtcdClient WITH done <- stopped, leads <- elected, lockMap <- locks
F == INSTANCE ServiceFilter WITH mine <- services, call <- request, changes <- steps, MaxChanges <- EtcdChanges
G == INSTANCE EtcdRegistry WITH mine <- services, call <- request, changes <- steps, MaxChanges <- EtcdChanges + 1

zkLockVars == <<znodes, owner, age, gr, mutex, leaderMap, leads, expired, lockMap, zkLock, faults>>
zkRegistryVars == <<svcMade, live, mine, call, lost, srvWatch, session, sending, wd, nw, events, done, view,
                    raced, changes>>
etcdVars == <<id, leases, granted, refreshed, cancel, stopped, ka, ending, revoking, overlapped, panicked,
              entry, el, leader, elected, lk, locks, lockKey, holds, calls>>
registryVars == <<keys, alive, bound, forever, services, request, keepAlive, registerFlag, stream, watching, shut,
                  astray, steps>>
filterVars == <<arr, fresh, getter, answer, run, valid, closing>>
serviceVars == <<which, zkLockVars, zkRegistryVars, etcdVars, registryVars, filterVars>>

Threads == g1 :> c1 @@ g2 :> c1 @@ g3 :> c2
Timed == g1 :> 1 @@ g2 :> 1 @@ g3 :> 2
Untimed == [g \in {g1, g2, g3} |-> 0]

ServicesInit ==
  /\ which \in Parts /\ Z!Init /\ R!Init /\ E!Init
  /\ F!Init /\ F!NewFilter /\ watching = (which # "etcdRegistry")

ServicesNext ==
  /\ UNCHANGED which
  /\ \/ which = "zkElection" /\ Z!CampaignNext /\ UNCHANGED <<zkRegistryVars, etcdVars, registryVars, filterVars>>
     \/ which = "zkLock" /\ Z!LockNext /\ UNCHANGED <<zkRegistryVars, etcdVars, registryVars, filterVars>>
     \/ which = "zkRegistry" /\ R!Next /\ UNCHANGED <<zkLockVars, etcdVars, registryVars, filterVars>>
     \/ which = "etcdLease" /\ E!LeaseNext /\ UNCHANGED <<zkLockVars, zkRegistryVars, registryVars, filterVars>>
     \/ which = "etcdElection" /\ E!ElectionNext /\ UNCHANGED <<zkLockVars, zkRegistryVars, registryVars, filterVars>>
     \/ which = "etcdLock" /\ E!MutexNext /\ UNCHANGED <<zkLockVars, zkRegistryVars, registryVars, filterVars>>
     \/ which = "etcdRegistry" /\ G!RegistryNext /\ UNCHANGED <<zkLockVars, zkRegistryVars, etcdVars, filterVars>>
     \/ which = "filter" /\ F!FilterNext /\ UNCHANGED <<zkLockVars, zkRegistryVars, etcdVars>>

\* The fairness of ZkLock, ServiceFilter and EtcdRegistry, for behaviours that
\* exercise them.
OnZk == which \in {"zkElection", "zkLock"}
ZkFairness ==
  /\ \A g \in Gr : WF_zkLockVars(OnZk /\ (Z!LockBegin(g) \/ Z!CampaignStep(g) \/ Z!Won(g)))
  /\ WF_zkLockVars(OnZk /\ Z!Tick)

allVars == <<registryVars, filterVars>>
FilterFairness ==
  /\ \A g \in Getters : WF_allVars(which = "filter" /\ F!GetStep(g))
  /\ \A c \in Callers \cup {Loop} :
       WF_allVars(/\ \/ which = "filter" /\ F!RegistryStep(c)
                     \/ which = "etcdRegistry" /\ G!RegistryStep(c)
                  /\ UNCHANGED filterVars)
  /\ WF_allVars(which = "filter" /\ F!RunStep) /\ WF_allVars(which = "filter" /\ F!CloseReturns)
  /\ WF_allVars(which = "filter" /\ F!Tick)
  /\ WF_allVars(/\ \/ which = "filter" /\ F!LoopStep
                   \/ which = "etcdRegistry" /\ G!LoopStep
                /\ UNCHANGED filterVars)
  /\ WF_allVars(which = "etcdRegistry" /\ (G!LoopExits \/ G!CloseStep) /\ UNCHANGED filterVars)

ServicesSpec ==
  ServicesInit /\ [][ServicesNext]_serviceVars /\ ZkFairness /\ FilterFairness

\* FollowsSpacedChanges says nothing once changes were not spaced.
Spaced == ~raced

\* Two goroutines both lead an election of the zookeeper client only when one
\* of them has outlived the timeout or lost its session.
ExclusiveLease == Z!TypeOK /\ Z!ExclusiveLease

\* Campaign of the zookeeper client, with a timeout, returns.
CampaignReturns == Z!CampaignReturns

\* While no session expires, at most one goroutine leads an election of the
\* zookeeper client.
OneLeader == Z!OneLeader

\* A consumer of the zookeeper watcher knows exactly the registered nodes when
\* changes are far enough apart; no channel of the watcher is overfilled.
FollowsSpacedChanges == R!TypeOK /\ R!FollowsSpacedChanges

\* After Close of the etcd client no lease of it is kept alive; with it the
\* invariant its proof rests on.
CloseOrphansLease == E!TypeOK /\ E!LeaseInv /\ E!CloseOrphansLease

\* The key that leads an election of the etcd client has a goroutine that knows
\* it, and two believe they lead only after one lost its session; with it the
\* invariant its proof rests on.
LeadershipHeld == E!ElectionInv /\ E!LeadershipHeld

\* Between calls etcd holds exactly the nodes the registry stores.
RegisteredNodes == F!TypeOK /\ F!FilterTypeOK /\ F!RegisteredNodes

\* The answers of the service filter become the registered nodes.
FilterConverges == which = "filter" => F!FilterConverges

\* Close of the service filter returns; Close of the etcd registry returns
\* unless the restart goroutine waits for the lock that Close holds.
FilterCloses == F!FilterCloses /\ G!RegistryCloses
=============================================================================
