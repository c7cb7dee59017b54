--------------------------- MODULE ConsistentHash ---------------------------
(***************************************************************************)
(* hash/consistent/consistent.go: hosts on a circle of hashes, and the     *)
(* loads for consistent hashing with bounded loads.  VnodesOf[host] are    *)
(* the hashes of the host's replicas, which may collide with those of      *)
(* another host; a key is given by its hash.                               *)
(*                                                                         *)
(* A method under the lock is one step, but for UpdateLoad.  Inc takes no  *)
(* lock: it looks the host up, adds to the load of what it found and adds  *)
(* to the total, and s.inc says how far it is.  UpdateLoad's statements on *)
(* the loads and the total are plain reads and writes, and an Inc may land *)
(* between any two; s.upd says how far it is, and v is what it computed    *)
(* from what it read and is about to store.  Indexes of sortedHashes start *)
(* at 1.                                                                   *)
(*                                                                         *)
(* ref.drift is by how much the total will differ from the sum of the      *)
(* loads: MaxLoad and loadOK replace it, an Inc whose host was removed     *)
(* under its feet counts in the total only, and an Inc between a read and  *)
(* a write of UpdateLoad is overwritten in the load or in the total.       *)
(***************************************************************************)
EXTENDS Integers, Sequences, FiniteSets
LOCAL INSTANCE SequencesExt

CONSTANTS Hosts, VnodesOf, BucketNum, MaxLoads, MaxDrift

VARIABLES s, ref

Absent == "none"
Buckets == 0..BucketNum - 1

NewConsistentHash ==
  [circle |-> [h \in Buckets |-> Absent], sortedHashes |-> <<>>, members |-> {},
   load |-> [x \in Hosts |-> 0], totalLoad |-> 0, inc |-> [pc |-> "idle", host |-> Absent, live |-> TRUE],
   upd |-> [pc |-> "idle", host |-> Absent, load |-> 0, v |-> 0]]

Init == s = NewConsistentHash /\ ref = [drift |-> 0]

Unlocked == s.upd.pc = "idle"
Bounded == ref.drift \in -MaxDrift..MaxDrift

OnCircle(c) == {h \in Buckets : c[h] # Absent}

updateSortedHashes(t) == [t EXCEPT !.sortedHashes = SetToSortSeq(OnCircle(t.circle), <)]

\* A later host takes over a hash that is there already.
add(t, host) ==
  IF host \in t.members THEN t
  ELSE updateSortedHashes(
         [t EXCEPT !.members = @ \cup {host}, !.load[host] = 0,
                   !.circle = [h \in Buckets |-> IF h \in ToSet(VnodesOf[host]) THEN host ELSE @[h]]])

delSlice_keeps(hashes, gone) == hashes
delSlice(hashes, gone) == SelectSeq(hashes, LAMBDA h : h \notin gone)

\* remove takes the host's hashes off the circle, whoever they belong to, and
\* an Inc in progress keeps the removed Host object.
remove(t, host) ==
  LET gone == ToSet(VnodesOf[host])
  IN  [t EXCEPT !.circle = [h \in Buckets |-> IF h \in gone THEN Absent ELSE @[h]],
                !.sortedHashes = delSlice(@, gone),
                !.totalLoad = IF host \in t.members THEN @ - t.load[host] ELSE @,
                !.members = @ \ {host}, !.load[host] = 0,
                !.inc.live = @ /\ t.inc.host # host]

Add(host) == Unlocked /\ s' = add(s, host) /\ UNCHANGED ref
RemoveHost(host) == Unlocked /\ s' = remove(s, host) /\ UNCHANGED ref

\* Set visits the hosts to remove in the order of a map; removals commute.
Set(elts) ==
  /\ Unlocked
  /\ s' = FoldLeft(add, FoldLeft(remove, s, SetToSeq(s.members \ ToSet(elts))), elts)
  /\ UNCHANGED ref

Members == s.members

GetLoads == [x \in s.members |-> s.load[x]]

search(key) ==
  LET idx == Cardinality({i \in DOMAIN s.sortedHashes : s.sortedHashes[i] < key}) + 1
  IN  IF idx > Len(s.sortedHashes) THEN 1 ELSE idx

HostAt(i) == s.circle[s.sortedHashes[((i - 1) % Len(s.sortedHashes)) + 1]]

NoHosts == s.sortedHashes = <<>>

Get(key) == IF NoHosts THEN Absent ELSE HostAt(search(key))
GetHash(key) == Get(key)

\* The loops of GetTwo and GetN visit the other positions clockwise and end
\* before they are back at the start.  From the first position they miss the
\* end, and go on for ever unless they find what they look for.
Others(i) == [j \in 1..Len(s.sortedHashes) - 1 |-> HostAt(i + j)]
EndsAt(i) == i # 1
Looping == "loops"

GetTwo(key) ==
  LET i == search(key)
      a == HostAt(i)
      found == SelectSeq(Others(i), LAMBDA b : b # a)
  IN  IF Cardinality(s.members) = 1 THEN <<a, Absent>>
      ELSE IF found # <<>> THEN <<a, found[1]>>
      ELSE IF EndsAt(i) THEN <<a, a>> ELSE <<a, Looping>>

GetN(key, n0) ==
  LET i == search(key)
      n == IF Cardinality(s.members) < n0 THEN Cardinality(s.members) ELSE n0
      Taken(res, x) == IF Len(res) = n \/ x \in ToSet(res) THEN res ELSE Append(res, x)
      res == FoldLeft(Taken, <<HostAt(i)>>, Others(i))
  IN  IF Len(res) < n /\ ~EndsAt(i) THEN <<Looping>> ELSE res

\* math.Ceil(avg * 1.25), with an average below 1 counted as 1.
Allowed(total) ==
  LET avg == total \div Cardinality(s.members) IN IF avg = 0 THEN 2 ELSE (5 * avg + 3) \div 4

loadOK(host) ==
  s.load[host] + 1 <= Allowed((IF s.totalLoad < 0 THEN 0 ELSE s.totalLoad) + 1)

\* GetLeast goes round for ever when no host on the circle passes loadOK.
LeastFrom(i) ==
  LET fit == SelectSeq(<<HostAt(i)>> \o Others(i), loadOK) IN IF fit = <<>> THEN Looping ELSE fit[1]

GetLeast ==
  /\ Unlocked /\ ~NoHosts
  /\ s' = [s EXCEPT !.totalLoad = IF @ < 0 THEN 0 ELSE @]
  /\ ref' = [ref EXCEPT !.drift = IF s.totalLoad < 0 THEN @ - s.totalLoad ELSE @]

\* UpdateLoad has read the total, or is about to store it; what others write
\* into the total now is lost.
TotalRead == s.upd.pc \in {"sub", "store"}

\* MaxLoad takes no lock.
MaxLoad ==
  /\ s.members # {} /\ Bounded
  /\ s' = [s EXCEPT !.totalLoad = IF @ = 0 THEN 1 ELSE @]
  /\ ref' = [ref EXCEPT !.drift = IF s.totalLoad = 0 /\ ~TotalRead THEN @ + 1 ELSE @]

\* UpdateLoad: it reads the total and the load, stores the difference, stores
\* the load, reads the total again and stores the sum.
UpdateLoad(host, load) ==
  /\ Unlocked /\ host \in s.members /\ Bounded
  /\ s' = [s EXCEPT !.upd = [pc |-> "sub", host |-> host, load |-> load, v |-> s.totalLoad - s.load[host]]]
  /\ UNCHANGED ref

UpdateLoadStep ==
  /\ s' = CASE s.upd.pc = "sub" -> [s EXCEPT !.totalLoad = s.upd.v, !.upd.pc = "load"]
            [] s.upd.pc = "load" -> [s EXCEPT !.load[s.upd.host] = s.upd.load, !.upd.pc = "add"]
            [] s.upd.pc = "add" -> [s EXCEPT !.upd.v = s.totalLoad + s.upd.load, !.upd.pc = "store"]
            [] s.upd.pc = "store" -> [s EXCEPT !.totalLoad = s.upd.v, !.upd = NewConsistentHash.upd]
  /\ UNCHANGED ref

\* Inc: the lookup, which needs a member; the load; the total.
Inc(host) ==
  /\ s.inc.pc = "idle" /\ host \in s.members /\ Bounded
  /\ s' = [s EXCEPT !.inc = [pc |-> "load", host |-> host, live |-> TRUE]]
  /\ UNCHANGED ref

IncLoad ==
  /\ s.inc.pc = "load"
  /\ s.inc.live => s.load[s.inc.host] < MaxLoads
  /\ s' = [s EXCEPT !.inc.pc = "total", !.load[s.inc.host] = IF s.inc.live THEN @ + 1 ELSE @]
  /\ ref' = [ref EXCEPT !.drift =
       IF ~s.inc.live \/ (s.upd.pc \in {"sub", "load"} /\ s.upd.host = s.inc.host) THEN @ + 1 ELSE @]

IncTotal ==
  /\ s.inc.pc = "total" /\ s.totalLoad < MaxLoads * Cardinality(Hosts)
  /\ s' = [s EXCEPT !.inc = NewConsistentHash.inc, !.totalLoad = @ + 1]
  /\ ref' = [ref EXCEPT !.drift = IF TotalRead THEN @ - 1 ELSE @]

Done(host) ==
  /\ Unlocked /\ host \in s.members /\ s.load[host] > -1 /\ s.totalLoad > -1
  /\ s' = [s EXCEPT !.load[host] = @ - 1, !.totalLoad = @ - 1]
  /\ UNCHANGED ref

Next ==
  \/ \E host \in Hosts :
       \/ Add(host) \/  RemoveHost(host) \/ Inc(host) \/ Done(host)
       \/ \E load \in {MaxLoads} : UpdateLoad(host, load)
  \/ \E elts \in {<<>>} \cup {SetToSeq(Hosts \ {host}) : host \in Hosts} : Set(elts)
  \/ ~Unlocked /\ UpdateLoadStep
  \/ IncLoad \/ IncTotal \/ MaxLoad \/ GetLeast

-----------------------------------------------------------------------------
Sum(f) == FoldLeft(LAMBDA n, host : n + f[host], 0, SetToSeq(DOMAIN f))

Contested(h) == Cardinality({x \in Hosts : h \in ToSet(VnodesOf[x])}) > 1
Placed == {s.circle[h] : h \in OnCircle(s.circle)}

\* The first host at or after the key, going round.
Owner(key) ==
  LET on == OnCircle(s.circle)
      far(h) == (h - key + BucketNum) % BucketNum
  IN  s.circle[CHOOSE h \in on : \A g \in on : far(h) <= far(g)]

(***************************************************************************)
(* After any sequence of Add, Remove and Set, the sorted hashes are those  *)
(* of the circle, every hash leads to a member that owns it, and members   *)
(* keep each hash that they do not share with another host.  A key goes to *)
(* the next host on the circle.  GetTwo and GetN find as many distinct     *)
(* hosts as are asked for and the circle holds.  Where collisions have     *)
(* left members without a place and more hosts are asked for, they answer  *)
(* with fewer, GetTwo with the same host twice, and from the first         *)
(* position of the circle they go round for ever.  As long as every member *)
(* is on the circle and the total is no less than the loads, GetLeast      *)
(* finds a host.  The total is the sum of the loads, but for the drift of  *)
(* MaxLoad, loadOK, and an Inc across a Remove or an UpdateLoad.           *)
(***************************************************************************)
CircleFollowsMembers ==
  /\ s.sortedHashes = SetToSortSeq(OnCircle(s.circle), <)
  /\ \A h \in OnCircle(s.circle) : s.circle[h] \in s.members /\ h \in ToSet(VnodesOf[s.circle[h]])
  /\ \A x \in s.members, h \in Buckets :
       h \in ToSet(VnodesOf[x]) /\ ~Contested(h) => s.circle[h] = x
  /\ ~NoHosts /\ s.inc.pc = "idle" => \A key \in Buckets :
       /\ Get(key) = Owner(key)
       /\ LET two == GetTwo(key)
              sole == Placed = {two[1]}
          IN  IF Cardinality(s.members) = 1 THEN two[2] = Absent
              ELSE /\ two[2] = Looping <=> sole /\ search(key) = 1
                   /\ two[2] = two[1] <=> sole /\ search(key) # 1
                   /\ two[2] \in {Looping} \cup Placed
       /\ \A n \in 1..Cardinality(Hosts) :
            LET got == GetN(key, n)
                asked == IF n < Cardinality(s.members) THEN n ELSE Cardinality(s.members)
            IN  IF asked > Cardinality(Placed) /\ search(key) = 1 THEN got = <<Looping>>
                ELSE /\ IsInjective(got) /\ ToSet(got) \subseteq Placed
                     /\ Len(got) = IF asked < Cardinality(Placed) THEN asked ELSE Cardinality(Placed)
       /\ Unlocked /\ Placed = s.members /\ ref.drift >= 0 => LeastFrom(search(key)) # Looping
  /\ Unlocked => s.totalLoad + (IF s.inc.pc = "total" THEN 1 ELSE 0) = Sum(GetLoads) + ref.drift
=============================================================================
