---------------------------- MODULE ServiceFilter ---------------------------
(***************************************************************************)
(* database/filter/pool/filter.go and filter/service.go over the etcd      *)
(* registry: the cached array of a service, kept by the events of the      *)
(* watcher (registry/etcdv3/watcher.go) and read again when it is older    *)
(* than its ttl.                                                           *)
(*                                                                         *)
(* Of the time only what is left until the array is stale is kept.  All    *)
(* nodes pass the attribute filters.  The registry that writes the nodes   *)
(* stays open.                                                             *)
(***************************************************************************)
EXTENDS EtcdRegistry

CONSTANTS Getters,     \* goroutines that call Filter
          Ttl,
          Map          \* what a getter holds when it holds the array in serviceMap

VARIABLES
  arr,       \* serviceMap[name].Arr, <<>>: no entry
  fresh,     \* ticks until time.Since(Active) reaches ttl
  getter,    \* per getter: pc, the array it looked up, what GetServices returned
  answer,    \* per getter: the nodes its last call returned
  run,       \* the goroutine of run: "watch", "sleep" or "exit"
  valid,     \* the lease of the watcher's own client is alive
  closing    \* Close: "no", "wait", "closed"

filterVars == <<arr, fresh, getter, answer, run, valid, closing>>
allVars == <<registryVars, filterVars>>

Out == [pc |-> "idle", old |-> <<>>, got |-> <<>>]

FilterTypeOK ==
  /\ arr \in Seq(Nodes) /\ fresh \in 0 .. 2 * Ttl
  /\ answer \in [Getters -> SUBSET Nodes] /\ run \in {"watch", "sleep", "exit"}

NewFilter ==
  /\ arr = <<>> /\ fresh = 0 /\ getter = [g \in Getters |-> Out] /\ answer = [g \in Getters |-> {}]
  /\ run = "watch" /\ valid = TRUE /\ closing = "no"

FilterInit == Init /\ watching /\ NewFilter

\* Getters that hold the array of an entry keep it when the entry is replaced.
Detached == [g \in Getters |-> IF getter[g].old = Map THEN [getter[g] EXCEPT !.old = arr] ELSE getter[g]]

---------------------------------------------------------------------------
\* get: a fresh array answers; otherwise the registry is asked, unlocked.
Fresh_stale == TRUE
Fresh == fresh > 0
get(g) ==
  /\ getter[g].pc = "idle"
  /\ IF arr # <<>> /\ Fresh
     THEN answer' = [answer EXCEPT ![g] = Range(arr)] /\ UNCHANGED getter
     ELSE getter' = [getter EXCEPT ![g].pc = "ask", ![g].old = IF arr # <<>> THEN Map ELSE <<>>]
          /\ UNCHANGED answer
  /\ UNCHANGED <<registryVars, arr, fresh, run, valid, closing>>

\* GetServices: an error when there is no key, or when the request fails.
GetServices(g) ==
  /\ getter[g].pc = "ask"
  /\ \/ getter' = [getter EXCEPT ![g].pc = "store", ![g].got = SetToSeq(keys)] /\ UNCHANGED changes
     \/ Changed /\ getter' = [getter EXCEPT ![g].pc = "store", ![g].got = <<>>]
  /\ UNCHANGED <<keys, alive, bound, forever, mine, call, keepAlive, registerFlag, shut, stream, watching, astray>>
  /\ UNCHANGED <<arr, fresh, answer, run, valid, closing>>

\* The second half of get: after an error the old array answers, if it is not
\* empty; otherwise the new one is stored.
Store(g) ==
  LET old == IF getter[g].old = Map THEN arr ELSE getter[g].old
      got == getter[g].got
  IN /\ getter[g].pc = "store"
     /\ answer' = [answer EXCEPT ![g] = Range(IF got = <<>> THEN old ELSE got)]
     /\ IF got = <<>> THEN getter' = [getter EXCEPT ![g] = Out] /\ UNCHANGED <<arr, fresh>>
        ELSE getter' = [Detached EXCEPT ![g] = Out] /\ arr' = got /\ fresh' = Ttl
     /\ UNCHANGED <<registryVars, run, valid, closing>>

---------------------------------------------------------------------------
\* ServiceArray.Del removes the first match.
Del(n) == IF \E i \in DOMAIN arr : arr[i] = n
          THEN RemoveAt(arr, CHOOSE i \in DOMAIN arr : arr[i] = n /\ \A j \in 1 .. i - 1 : arr[j] # n)
          ELSE arr

update(e) ==
  IF e.type = "del"
  THEN /\ arr' = Del(e.node)
       /\ fresh' = IF arr' # arr THEN 2 * Ttl ELSE fresh
       /\ getter' = IF arr' = <<>> THEN [g \in Getters |-> IF getter[g].old = Map THEN [getter[g] EXCEPT !.old = <<>>] ELSE getter[g]]
                    ELSE getter
  ELSE arr' = Append(arr, e.node) /\ fresh' = (IF arr = <<>> THEN Ttl ELSE 2 * Ttl) /\ UNCHANGED getter

\* Notify returns the first event of a message and drops the others; watch
\* passes over a deletion when its own lease is gone, and updates.
Notify ==
  /\ run = "watch" /\ closing = "no" /\ stream # <<>> /\ stream' = Tail(stream)
  /\ LET e == Head(stream)[1]
     IN IF e.type = "del" /\ ~valid THEN UNCHANGED <<arr, fresh, getter>> ELSE update(e)
  /\ UNCHANGED <<keys, alive, bound, forever, mine, call, keepAlive, registerFlag, shut, watching, astray, changes>>
  /\ UNCHANGED <<answer, run, valid, closing>>

isClosed_not == FALSE
isClosed == closing # "no"

\* The watch channel fails, or Close closes the watcher: watch returns an
\* error, run sleeps and watches again unless the filter was closed.
WatchEnds ==
  /\ run = "watch"
  /\ IF closing = "no" THEN Changed ELSE UNCHANGED changes
  /\ run' = "sleep" /\ watching' = FALSE /\ stream' = <<>>
  /\ UNCHANGED <<keys, alive, bound, forever, mine, call, keepAlive, registerFlag, shut, astray>>
  /\ UNCHANGED <<arr, fresh, getter, answer, valid, closing>>

WatchAgain ==
  /\ run = "sleep"
  /\ IF isClosed THEN run' = "exit" /\ UNCHANGED watching
     ELSE run' = "watch" /\ watching' = TRUE
  /\ UNCHANGED <<keys, alive, bound, forever, mine, call, keepAlive, registerFlag, shut, stream, astray, changes>>
  /\ UNCHANGED <<arr, fresh, getter, answer, valid, closing>>

OwnLeaseExpires ==
  /\ valid /\ Changed /\ valid' = FALSE
  /\ UNCHANGED <<keys, alive, bound, forever, mine, call, keepAlive, registerFlag, shut, stream, watching, astray>>
  /\ UNCHANGED <<arr, fresh, getter, answer, run, closing>>

\* Close empties the map and waits for run.
Close ==
  /\ closing = "no" /\ Changed /\ closing' = "wait"
  /\ getter' = Detached /\ arr' = <<>>
  /\ UNCHANGED <<keys, alive, bound, forever, mine, call, keepAlive, registerFlag, shut, stream, watching, astray>>
  /\ UNCHANGED <<fresh, answer, run, valid>>

CloseReturns ==
  /\ closing = "wait" /\ run = "exit" /\ closing' = "closed"
  /\ UNCHANGED <<registryVars, arr, fresh, getter, answer, run, valid>>

Tick ==
  /\ fresh > 0 /\ fresh' = fresh - 1
  /\ UNCHANGED <<registryVars, arr, getter, answer, run, valid, closing>>

GetStep(g) == get(g) \/ GetServices(g) \/ Store(g)
RunStep == Notify \/ WatchEnds \/ WatchAgain

FilterNext ==
  \/ ServingNext /\ UNCHANGED filterVars
  \/ \E g \in Getters : GetStep(g)
  \/ RunStep \/ OwnLeaseExpires \/ Close \/ CloseReturns \/ Tick

\* Goroutines run, time passes, and the getters go on calling.
FilterFairness ==
  /\ \A g \in Getters : WF_allVars(GetStep(g))
  /\ \A c \in Callers \cup {Loop} : WF_allVars(RegistryStep(c) /\ UNCHANGED filterVars)
  /\ WF_allVars(RunStep) /\ WF_allVars(CloseReturns) /\ WF_allVars(Tick)
  /\ WF_allVars(LoopStep /\ UNCHANGED filterVars)

\* Once the registrations and the failures end, what Filter answers becomes
\* the set of registered nodes and stays it, unless there are none: whatever
\* events were dropped, doubled by a second registration or overtaken by a
\* concurrent get, the next reading after the ttl repairs.
FilterConverges ==
  \A g \in Getters : <>[](keys # {} => answer[g] = keys)

\* Close of the filter returns, although run may be watching or asleep.
FilterCloses == closing = "wait" ~> closing = "closed"
=============================================================================
