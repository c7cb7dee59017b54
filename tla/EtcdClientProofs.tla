-------------------------- MODULE EtcdClientProofs --------------------------
(***************************************************************************)
(* The election and the lease of the etcd client, for any goroutines, any  *)
(* number of leases and any number of calls.                               *)
(***************************************************************************)
EXTENDS EtcdClient, TLAPS

\* What is assumed of the constants: Nobody is no goroutine.
EtcdConstants == Nobody \notin Gr /\ MaxLeases \in Nat

EtcdInv == TypeOK /\ LeaseInv /\ ElectionInv

\* A new client has no lease, no session and no lock.
LEMMA InitEtcdInv == EtcdConstants /\ Init => EtcdInv
<1> SUFFICES ASSUME EtcdConstants, Init PROVE EtcdInv
  OBVIOUS
<1>1. TypeOK
  <2>1. ka \in [Keepers -> [pc : {"idle", "grant", "alive"}, id : 0 .. granted]]
    BY DEF Init, Resting
  <2>2. granted = 0 /\ 0 \in 0 .. granted /\ granted \in 0 .. MaxLeases
    BY DEF EtcdConstants, Init
  <2>3. done \in BOOLEAN /\ overlapped \in BOOLEAN /\ panicked \in BOOLEAN
    BY DEF Init
  <2> QED
    BY <2>1, <2>2, <2>3 DEF Init, TypeOK
<1>2. LeaseInv
  BY DEF Init, LeaseInv, Resting, Busy
<1>3. ElectionInv
  BY DEF Init, ElectionInv
<1> QED
  BY <1>1, <1>2, <1>3 DEF EtcdInv

\* The steps of KeepAlive, Stop and Close keep the types.
LEMMA LeaseType == EtcdConstants /\ TypeOK /\ LeaseInv /\ LeaseNext => TypeOK'
<1> SUFFICES ASSUME EtcdConstants, TypeOK, LeaseInv, LeaseNext PROVE TypeOK'
  OBVIOUS
<1> USE DEF EtcdConstants, TypeOK, electVars, mutexVars
<1>0. UNCHANGED <<entry, el, leader, leads, lk, lockMap, lockKey, holds>>
  BY DEF LeaseNext
<1>1. ASSUME NEW k \in Keepers, KeepAlive(k) PROVE TypeOK'
  <2>1. overlapped' \in BOOLEAN
    BY <1>1, Zenon DEF KeepAlive
  <2>2. ka' \in [Keepers -> [pc : {"idle", "grant", "alive"}, id : 0 .. granted]]
    BY <1>1 DEF KeepAlive
  <2>3. refreshed' \subseteq 1 .. granted /\ cancel' \in 0 .. granted
    BY <1>1 DEF KeepAlive
  <2> QED
    BY <1>0, <1>1, <2>1, <2>2, <2>3 DEF KeepAlive
<1>2. ASSUME NEW k \in Keepers, Grant(k) PROVE TypeOK'
  <2> DEFINE lease == IF ka[k].id = 0 THEN granted + 1 ELSE ka[k].id
  <2>1. granted' \in 0 .. MaxLeases /\ granted <= granted' /\ lease \in 1 .. granted'
    BY <1>2 DEF Grant
  <2>2. ka' = [ka EXCEPT ![k] = [pc |-> "alive", id |-> lease]] /\ id' = lease
    BY <1>2 DEF Grant
  <2>3. leases' \subseteq 1 .. granted'
    <3>1. leases' = leases \/ leases' = leases \cup {lease}
      BY <1>2 DEF Grant
    <3>2. leases \subseteq 1 .. granted'
      BY <2>1
    <3> QED
      BY <2>1, <3>1, <3>2
  <2>4. UNCHANGED <<refreshed, cancel, done, ending, revoking, overlapped, panicked, calls>>
    BY <1>2 DEF Grant
  <2> HIDE DEF lease
  <2>5. ka' \in [Keepers -> [pc : {"idle", "grant", "alive"}, id : 0 .. granted']]
    BY <2>1, <2>2
  <2> QED
    BY <1>0, <2>1, <2>2, <2>3, <2>4, <2>5
<1>3. ASSUME NEW k \in Keepers, GrantFails(k) PROVE TypeOK'
  BY <1>0, <1>3 DEF GrantFails, Resting
<1>4. ASSUME NEW k \in Keepers, Refresh(k) PROVE TypeOK'
  <2>1. ka[k].id \in 1 .. granted
    BY <1>4 DEF Refresh, LeaseInv
  <2>2. ka' \in [Keepers -> [pc : {"idle", "grant", "alive"}, id : 0 .. granted]]
    BY <1>4 DEF Refresh, Resting
  <2>3. refreshed' \subseteq 1 .. granted /\ cancel' \in 0 .. granted
    BY <1>4, <2>1 DEF Refresh, Cancel
  <2> QED
    BY <1>0, <1>4, <2>2, <2>3 DEF Refresh
<1>5. ASSUME NEW k \in Keepers, RefreshFails(k) PROVE TypeOK'
  BY <1>0, <1>5 DEF RefreshFails, Resting
<1>6. ASSUME NEW l \in leases, LeaseExpires(l) PROVE TypeOK'
  BY <1>0, <1>6 DEF LeaseExpires
<1>7. ASSUME NEW e \in {"Stop", "Close"}, StopCheck(e) PROVE TypeOK'
  <2>1. overlapped' \in BOOLEAN
    BY <1>7, Zenon DEF StopCheck
  <2>2. ending' \in [{"Stop", "Close"} -> {"idle", "checked", "stopped", "revoke", "closed"}]
    BY <1>7 DEF StopCheck, Ended
  <2> QED
    BY <1>0, <1>7, <2>1, <2>2 DEF StopCheck
<1>8. ASSUME NEW e \in {"Stop", "Close"}, StopSection(e) PROVE TypeOK'
  <2>1. done' \in BOOLEAN /\ overlapped' \in BOOLEAN /\ panicked' \in BOOLEAN
    BY <1>8, Zenon DEF StopSection
  <2>2. ending' \in [{"Stop", "Close"} -> {"idle", "checked", "stopped", "revoke", "closed"}]
    BY <1>8 DEF StopSection, Ended
  <2>3. refreshed' \subseteq 1 .. granted /\ cancel' \in 0 .. granted
    BY <1>8 DEF StopSection
  <2> QED
    BY <1>0, <1>8, <2>1, <2>2, <2>3 DEF StopSection
<1>9. ASSUME CloseTakesId PROVE TypeOK'
  BY <1>0, <1>9 DEF CloseTakesId
<1>10. ASSUME CloseRevokesLease PROVE TypeOK'
  BY <1>0, <1>10 DEF CloseRevokesLease
<1> QED
  BY <1>1, <1>2, <1>3, <1>4, <1>5, <1>6, <1>7, <1>8, <1>9, <1>10 DEF LeaseNext

\* They keep what makes Close leave no lease alive.
LEMMA LeaseStep == TypeOK /\ LeaseInv /\ LeaseNext => LeaseInv'
<1> SUFFICES ASSUME TypeOK, LeaseInv, LeaseNext PROVE LeaseInv'
  OBVIOUS
<1> USE DEF TypeOK, LeaseInv
<1>1. ASSUME NEW k \in Keepers, KeepAlive(k) PROVE LeaseInv'
  BY <1>1 DEF KeepAlive, Busy
<1>2. ASSUME NEW k \in Keepers, Grant(k) PROVE LeaseInv'
  BY <1>2 DEF Grant, Busy
<1>3. ASSUME NEW k \in Keepers, GrantFails(k) PROVE LeaseInv'
  BY <1>3 DEF GrantFails, Resting, Busy
<1>4. ASSUME NEW k \in Keepers, Refresh(k) PROVE LeaseInv'
  BY <1>4 DEF Refresh, Resting, Cancel, Busy
<1>5. ASSUME NEW k \in Keepers, RefreshFails(k) PROVE LeaseInv'
  BY <1>5 DEF RefreshFails, Resting, Busy
<1>6. ASSUME NEW l \in leases, LeaseExpires(l) PROVE LeaseInv'
  BY <1>6 DEF LeaseExpires, Busy
<1>7. ASSUME NEW e \in {"Stop", "Close"}, StopCheck(e) PROVE LeaseInv'
  BY <1>7 DEF StopCheck, Ended, Busy
<1>8. ASSUME NEW e \in {"Stop", "Close"}, StopSection(e) PROVE LeaseInv'
  BY <1>8 DEF StopSection, Ended, Busy
<1>9. ASSUME CloseTakesId PROVE LeaseInv'
  BY <1>9 DEF CloseTakesId, Busy
<1>10. ASSUME CloseRevokesLease PROVE LeaseInv'
  BY <1>10 DEF CloseRevokesLease, Busy
<1> QED
  BY <1>1, <1>2, <1>3, <1>4, <1>5, <1>6, <1>7, <1>8, <1>9, <1>10 DEF LeaseNext

\* The steps of Campaign and Resign, and the loss of a session, keep the types.
LEMMA ElectionType == TypeOK /\ ElectionNext => TypeOK'
<1> SUFFICES ASSUME TypeOK, ElectionNext PROVE TypeOK'
  OBVIOUS
<1> USE DEF TypeOK
<1>0. /\ UNCHANGED <<id, leases, granted, refreshed, cancel, done, ka, ending, revoking>>
      /\ UNCHANGED <<overlapped, lk, lockMap, lockKey, holds>>
  BY DEF ElectionNext, leaseVars, mutexVars
<1>1. ASSUME NEW g \in Gr, Campaign(g) PROVE TypeOK'
  BY <1>0, <1>1 DEF Campaign
<1>2. ASSUME NEW g \in Gr, KeyFirst(g) PROVE TypeOK'
  BY <1>0, <1>2 DEF KeyFirst
<1>3. ASSUME NEW g \in Gr, CampaignWins(g) PROVE TypeOK'
  BY <1>0, <1>3 DEF CampaignWins
<1>4. ASSUME NEW g \in Gr, CampaignFails(g) PROVE TypeOK'
  BY <1>0, <1>4 DEF CampaignFails, SessionClosed, KeyGone
<1>5. ASSUME NEW g \in Gr, ResignRequest(g) PROVE TypeOK'
  BY <1>0, <1>5 DEF ResignRequest, KeyGone
<1>6. ASSUME NEW g \in Gr, SessionLost(g) PROVE TypeOK'
  BY <1>0, <1>6 DEF SessionLost, KeyGone
<1>7. ASSUME NEW g \in Gr, NEW stop \in BOOLEAN, Resign(g, stop) PROVE TypeOK'
  BY <1>0, <1>7 DEF Resign
<1> QED
  BY <1>1, <1>2, <1>3, <1>4, <1>5, <1>6, <1>7 DEF ElectionNext

\* They keep what ties the first key, the sessions and the believed leaders.
LEMMA ElectionStep ==
  EtcdConstants /\ TypeOK /\ ElectionInv /\ ElectionNext => ElectionInv'
<1> SUFFICES ASSUME EtcdConstants, TypeOK, ElectionInv, ElectionNext PROVE ElectionInv'
  OBVIOUS
<1> USE DEF EtcdConstants, TypeOK, ElectionInv
<1>1. ASSUME NEW g \in Gr, Campaign(g) PROVE ElectionInv'
  BY <1>1 DEF Campaign
<1>2. ASSUME NEW g \in Gr, KeyFirst(g) PROVE ElectionInv'
  BY <1>2 DEF KeyFirst
<1>3. ASSUME NEW g \in Gr, CampaignWins(g) PROVE ElectionInv'
  BY <1>3 DEF CampaignWins
<1>4. ASSUME NEW g \in Gr, CampaignFails(g) PROVE ElectionInv'
  <2>1. CASE el[g] = "wait"
    <3>1. /\ entry' = [entry EXCEPT ![g] = "closed"] /\ el' = [el EXCEPT ![g] = "idle"]
          /\ leader' = (IF leader = g THEN Nobody ELSE leader) /\ leads' = leads \ {g}
      BY <1>4, <2>1 DEF CampaignFails, SessionClosed, KeyGone
    <3>2. leader' # Nobody => leader' = leader /\ leader \in Gr \ {g}
      BY <3>1
    <3>3. ~panicked
      BY DEF ElectionNext
    <3>4. (leader' # Nobody /\ el'[leader'] = "idle") => leader' \in leads'
      BY <3>1, <3>2, <3>3
    <3>5. leader' # Nobody => entry'[leader'] = "open" \/ el'[leader'] = "stop"
      BY <3>1, <3>2
    <3> QED
      BY <3>1, <3>4, <3>5
  <2>2. CASE el[g] = "reuse"
    <3>1. panicked' /\ UNCHANGED <<entry, leader>>
      BY <1>4, <2>2 DEF CampaignFails
    <3>2. el' = [el EXCEPT ![g] = "idle"] /\ leads' = leads \ {g}
      BY <1>4 DEF CampaignFails
    <3> QED
      BY <2>2, <3>1, <3>2
  <2> QED
    BY <1>4, <2>1, <2>2 DEF CampaignFails
<1>5. ASSUME NEW g \in Gr, ResignRequest(g) PROVE ElectionInv'
  BY <1>5 DEF ResignRequest, KeyGone
<1>6. ASSUME NEW g \in Gr, SessionLost(g) PROVE ElectionInv'
  BY <1>6 DEF SessionLost, KeyGone
<1>7. ASSUME NEW g \in Gr, NEW stop \in BOOLEAN, Resign(g, stop) PROVE ElectionInv'
  BY <1>7 DEF Resign
<1> QED
  BY <1>1, <1>2, <1>3, <1>4, <1>5, <1>6, <1>7 DEF ElectionNext

\* The calls of the election and of the lease do not disturb each other, and
\* Lock and Unlock disturb neither.
LEMMA EtcdStep == EtcdConstants /\ EtcdInv /\ [EtcdNext]_etcdVars => EtcdInv'
<1> SUFFICES ASSUME EtcdConstants, EtcdInv, [EtcdNext]_etcdVars PROVE EtcdInv'
  OBVIOUS
<1>1. CASE LeaseNext
  <2>1. ElectionInv'
    BY <1>1 DEF EtcdInv, LeaseNext, electVars, ElectionInv
  <2> QED
    BY <1>1, <2>1, LeaseType, LeaseStep DEF EtcdInv
<1>2. CASE ElectionNext
  <2>1. LeaseInv'
    BY <1>2 DEF EtcdInv, ElectionNext, leaseVars, LeaseInv, Busy
  <2> QED
    BY <1>2, <2>1, ElectionType, ElectionStep DEF EtcdInv
<1>3. CASE MutexNext \/ UNCHANGED etcdVars
  <2>1. /\ UNCHANGED <<id, leases, granted, refreshed, cancel, done, ka, ending, revoking>>
        /\ UNCHANGED <<overlapped, panicked, entry, el, leader, leads>>
    BY <1>3 DEF MutexNext, etcdVars, leaseVars, electVars
  <2>2. holds' \subseteq Gr /\ lockMap' \subseteq Gr
    BY <1>3 DEF EtcdInv, TypeOK, MutexNext, Lock, LockKeyFirst, LockSave, LockReturn,
                LockFails, Unlock, etcdVars, mutexVars
  <2> QED
    BY <2>1, <2>2 DEF EtcdInv, TypeOK, LeaseInv, Busy, ElectionInv
<1> QED
  BY <1>1, <1>2, <1>3 DEF EtcdNext

\* The inductive invariant: which lease is refreshed, whose key is first, and
\* what the client remembers of both, through every interleaving of KeepAlive,
\* Stop, Close, Campaign, Resign, Lock, Unlock and what the server ends.
THEOREM EtcdInvariance == EtcdConstants => (EtcdSpec => []EtcdInv)
<1> SUFFICES ASSUME EtcdConstants PROVE EtcdSpec => []EtcdInv
  OBVIOUS
<1>1. Init => EtcdInv
  BY InitEtcdInv
<1>2. EtcdInv /\ [EtcdNext]_etcdVars => EtcdInv'
  BY EtcdStep
<1> QED
  BY <1>1, <1>2, PTL DEF EtcdSpec

\* The first key of the election belongs to a goroutine that was told it leads
\* or whose call has not ended, and two goroutines believe they lead only after
\* one of them lost its session (Campaign, Resign, CheckLeadership).
THEOREM Leadership == EtcdConstants => (EtcdSpec => []LeadershipHeld)
<1> SUFFICES ASSUME EtcdConstants PROVE EtcdSpec => []LeadershipHeld
  OBVIOUS
<1>1. EtcdInv => LeadershipHeld
  BY DEF EtcdConstants, EtcdInv, TypeOK, ElectionInv, LeadershipHeld, CheckLeadership
<1> QED
  BY <1>1, EtcdInvariance, PTL

\* After Close no lease of the client is kept alive, unless KeepAlive met
\* another KeepAlive or Stop, or came after it.
THEOREM CloseLeavesNoLease == EtcdConstants => (EtcdSpec => []CloseOrphansLease)
<1> SUFFICES ASSUME EtcdConstants PROVE EtcdSpec => []CloseOrphansLease
  OBVIOUS
<1>1. EtcdInv => CloseOrphansLease
  BY DEF EtcdInv, LeaseInv, CloseOrphansLease
<1> QED
  BY <1>1, EtcdInvariance, PTL
=============================================================================
