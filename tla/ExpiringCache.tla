--------------------------- MODULE ExpiringCache ---------------------------
(***************************************************************************)
(* container/cache/cache.go: a map with expirations under a lock, its      *)
(* janitor, and the callback for evicted items, which is called without    *)
(* the lock.  A method that holds the lock throughout is one step; Set     *)
(* reads the clock before it locks, DeleteExpired too, and Delete and      *)
(* DeleteExpired call onEvicted after they unlocked.                       *)
(*                                                                         *)
(* An Object is [id, t, n]: id tells the objects that were stored apart,   *)
(* t is a kind of type and n a number of Width bits ("int", two's          *)
(* complement, or "uint"), of unlimited range ("float"), or 0 ("other").   *)
(* s.set, s.del and s.jan are the local variables of a Set, a Delete and a *)
(* DeleteExpired in progress; s.file is what Save wrote.                   *)
(*                                                                         *)
(* ref.made counts the objects stored, ref.sum is what each number adds up *)
(* to without wrapping, ref.called the objects the callback got, in order, *)
(* and ref.unset that OnEvicted(nil) was called during an eviction.        *)
(***************************************************************************)
EXTENDS Integers, Sequences, SequencesExt, FiniteSets

CONSTANTS Keys, Types, Width, MaxObjects, MaxSum, MaxClock, DefaultExpirations

VARIABLES s, ref

NoExpiration == -1
DefaultExpiration == 0
None == [obj |-> [id |-> 0, t |-> "none", n |-> 0], exp |-> 0]
NoSet == [k |-> "none", obj |-> None.obj, exp |-> 0]
NoDel == [k |-> "none", obj |-> None.obj]
NoJan == [pc |-> "idle", now |-> 0, list |-> {}]

Item(x, e) == [obj |-> x, exp |-> e]

newCache(de) ==
  [items |-> [k \in Keys |-> None], clock |-> 1, file |-> [k \in Keys |-> None],
   defaultExpiration |-> IF de = 0 THEN NoExpiration ELSE de,
   onEvicted |-> TRUE, set |-> NoSet, del |-> NoDel, jan |-> NoJan]

Expired(item) == item.exp > 0 /\ s.clock > item.exp

\* The expiration that Set and set compute from a duration.
ExpirationOf(d0) ==
  LET d == IF d0 = DefaultExpiration THEN s.defaultExpiration ELSE d0
  IN  IF d > 0 THEN s.clock + d ELSE 0

get(k) == IF s.items[k] = None \/ Expired(s.items[k]) THEN None.obj ELSE s.items[k].obj
Found(k) == get(k) # None.obj

Get(k) == get(k)
GetWithExpiration(k) == IF Found(k) THEN <<get(k), s.items[k].exp>> ELSE <<None.obj, 0>>

\* Numbers wrap at their width.
Wrap(t, n) ==
  CASE t = "int" -> ((n + 2^(Width - 1)) % 2^Width) - 2^(Width - 1)
    [] t = "uint" -> n % 2^Width
    [] OTHER -> n

Numeric(k, types) == Found(k) /\ get(k).t \in types

Stored(k, item) == s' = [s EXCEPT !.items[k] = item]

\* A new object with the number 0, and the history of storing it.
NewObject(t) == [id |-> ref.made + 1, t |-> t, n |-> 0]
Made == ref' = [ref EXCEPT !.made = @ + 1]

Init == \E de \in DefaultExpirations :
          /\ s = newCache(de)
          /\ ref = [made |-> 0, sum |-> [i \in 1..2 * MaxObjects |-> 0], called |-> <<>>,
                    unset |-> FALSE, panicked |-> FALSE, loaded |-> FALSE]

\* Set reads the clock, then waits for the lock.
SetCall(k, t, d) ==
  /\ s.set = NoSet /\ ref.made < MaxObjects
  /\ s' = [s EXCEPT !.set = [k |-> k, obj |-> NewObject(t), exp |-> ExpirationOf(d)]]
  /\ Made

Set ==
  /\ s.set # NoSet
  /\ s' = [s EXCEPT !.items[s.set.k] = Item(s.set.obj, s.set.exp), !.set = NoSet]
  /\ UNCHANGED ref

Add(k, t, d) ==
  /\ ref.made < MaxObjects /\ ~Found(k)
  /\ Stored(k, Item(NewObject(t), ExpirationOf(d)))
  /\ Made

Replace(k, t, d) ==
  /\ ref.made < MaxObjects /\ Found(k)
  /\ Stored(k, Item(NewObject(t), ExpirationOf(d)))
  /\ Made

\* All ways to add a number to an item that is there and has not expired; the
\* expiration stays.
Adding(k, types, n) ==
  LET item == s.items[k] IN
  /\ Numeric(k, types) /\ ref.sum[item.obj.id] + n \in -MaxSum..MaxSum
  /\ Stored(k, [item EXCEPT !.obj.n = Wrap(item.obj.t, @ + n)])
  /\ ref' = [ref EXCEPT !.sum[item.obj.id] = @ + n]

Increment(k, n) == Adding(k, {"int", "uint", "float"}, n)
IncrementFloat(k, n) == Adding(k, {"float"}, n)
IncrementInt(k, n) == Adding(k, {"int"}, n)
IncrementUint(k, n) == Adding(k, {"uint"}, n)
IncrementFloat64(k, n) == Adding(k, {"float"}, n)
Decrement(k, n) == Adding(k, {"int", "uint", "float"}, -n)
DecrementFloat(k, n) == Adding(k, {"float"}, -n)
DecrementInt(k, n) == Adding(k, {"int"}, -n)
DecrementUint(k, n) == Adding(k, {"uint"}, -n)
DecrementFloat64(k, n) == Adding(k, {"float"}, -n)

\* delete reports the object only when there is a callback.
Delete(k) ==
  /\ s.del = NoDel /\ s.items[k] # None
  /\ s' = [s EXCEPT !.items[k] = None,
                    !.del = IF s.onEvicted THEN [k |-> k, obj |-> s.items[k].obj] ELSE NoDel]
  /\ UNCHANGED ref

\* The call of c.onEvicted, which is read again; it may have become nil.
Called(obj) == ref' = IF s.onEvicted THEN [ref EXCEPT !.called = Append(@, obj.id)]
                      ELSE [ref EXCEPT !.panicked = TRUE]

DeleteCalls ==
  /\ s.del # NoDel
  /\ s' = [s EXCEPT !.del = NoDel]
  /\ Called(s.del.obj)

\* DeleteExpired: the clock, the sweep under the lock, the callbacks.
DeleteExpired ==
  /\ s.jan.pc = "idle"
  /\ s' = [s EXCEPT !.jan = [pc |-> "sweep", now |-> s.clock, list |-> {}]]
  /\ UNCHANGED ref

Swept_any(k) == s.items[k] # None /\ s.jan.now > s.items[k].exp
Swept(k) == s.items[k] # None /\ s.items[k].exp > 0 /\ s.jan.now > s.items[k].exp

Sweep ==
  LET gone == {k \in Keys : Swept(k)} IN
  /\ s.jan.pc = "sweep"
  /\ s' = [s EXCEPT !.items = [k \in Keys |-> IF k \in gone THEN None ELSE @[k]],
                    !.jan = [pc |-> "call", now |-> 0,
                             list |-> IF s.onEvicted THEN {s.items[k].obj : k \in gone} ELSE {}]]
  /\ UNCHANGED ref

SweepCalls(obj) ==
  /\ s.jan.pc = "call" /\ obj \in s.jan.list
  /\ s' = [s EXCEPT !.jan.list = @ \ {obj}]
  /\ Called(obj)

SweepDone ==
  /\ s.jan.pc = "call" /\ s.jan.list = {}
  /\ s' = [s EXCEPT !.jan = NoJan]
  /\ UNCHANGED ref

OnEvicted(f) ==
  /\ f # s.onEvicted
  /\ s' = [s EXCEPT !.onEvicted = f]
  /\ ref' = [ref EXCEPT !.unset = @ \/ (~f /\ (s.del # NoDel \/ s.jan.list # {}))]

Save == ~ref.loaded /\ s.file # s.items /\ s' = [s EXCEPT !.file = s.items] /\ UNCHANGED ref

\* The decoded objects are new ones, numbered behind those of Set and Add.
Load ==
  LET taken == {k \in Keys : s.file[k] # None /\ (s.items[k] = None \/ Expired(s.items[k]))} IN
  /\ ~ref.loaded
  /\ s' = [s EXCEPT !.items = [k \in Keys |->
       IF k \in taken THEN [s.file[k] EXCEPT !.obj.id = @ + MaxObjects] ELSE @[k]]]
  /\ ref' = [ref EXCEPT !.loaded = TRUE, !.sum = [i \in DOMAIN @ |->
       IF \E k \in taken : s.file[k].obj.id + MaxObjects = i
       THEN s.file[CHOOSE k \in taken : s.file[k].obj.id + MaxObjects = i].obj.n ELSE @[i]]]

Items == {k \in Keys : s.items[k] # None /\ ~Expired(s.items[k])}
ItemCount == Cardinality({k \in Keys : s.items[k] # None})

Flush == s' = [s EXCEPT !.items = [k \in Keys |-> None]] /\ UNCHANGED ref

\* The janitor's goroutine takes the stop message between two sweeps.
stopJanitor ==
  /\ s.jan.pc = "idle"
  /\ s' = [s EXCEPT !.jan.pc = "stopped"]
  /\ UNCHANGED ref

\* Time passes.
Tick == s.clock < MaxClock /\ s' = [s EXCEPT !.clock = @ + 1] /\ UNCHANGED ref

Next ==
  /\ ~ref.panicked
  /\ \/ \E k \in Keys :
          \/ \E t \in Types, d \in {NoExpiration, DefaultExpiration} :
               SetCall(k, t, d) \/ Add(k, t, d) \/ Replace(k, t, d)
          \/ Increment(k, 2) \/ IncrementInt(k, 2) \/ IncrementUint(k, 2) \/ IncrementFloat(k, 2)
          \/ IncrementFloat64(k, 2) \/ Decrement(k, 3) \/ DecrementInt(k, 3) \/ DecrementUint(k, 3)
          \/ DecrementFloat(k, 3) \/ DecrementFloat64(k, 3)
          \/ Delete(k)
     \/ Set \/ DeleteCalls \/ DeleteExpired \/ Sweep \/ SweepDone
     \/ \E obj \in s.jan.list : SweepCalls(obj)
     \/ \E f \in BOOLEAN : OnEvicted(f)
     \/ Save \/ Load \/ Flush \/ stopJanitor \/ Tick

\* The objects that are to be handed to the callback.
Leaving == {obj.id : obj \in s.jan.list} \cup IF s.del = NoDel THEN {} ELSE {s.del.obj.id}
Present == {s.items[k].obj.id : k \in {k \in Keys : s.items[k] # None}}

(***************************************************************************)
(* No object is handed to the eviction callback twice, or while it is in   *)
(* the cache, whatever Set, Delete, the janitor and Load do between the    *)
(* unlocking and the call; the call finds no callback only if OnEvicted    *)
(* removed it in between.  A number is what its increments and decrements  *)
(* add up to, at the width of its type.  An item that has expired is in    *)
(* none of the answers, and a sweep with an old clock takes no item that   *)
(* has not expired.                                                        *)
(***************************************************************************)
EvictedOnce ==
  /\ IsInjective(ref.called)
  /\ ToSet(ref.called) \cap (Leaving \cup Present) = {} /\ Leaving \cap Present = {}
  /\ ref.panicked => ref.unset
  /\ \A k \in Keys : s.items[k] # None =>
       LET obj == s.items[k].obj IN obj.n = Wrap(obj.t, ref.sum[obj.id])
  /\ Items = {k \in Keys : Found(k)} /\ Cardinality(Items) <= ItemCount
  /\ \A k \in Keys : /\ GetWithExpiration(k)[2] > 0 => s.clock <= GetWithExpiration(k)[2]
                     /\ (s.jan.pc = "sweep" /\ Swept(k)) => ~Found(k)
=============================================================================
