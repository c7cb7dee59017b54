----------------------------- MODULE ErrGroup -----------------------------
(***************************************************************************)
(* sync/errgroup/group.go: a group of actors run on a goroutine pool.  The *)
(* module composes Run with the pool of GoroutinePool: each actor is the   *)
(* piece of work of one call of Go, and Run makes those calls in order.    *)
(* Behaviours without a group, where the callers of the pool call Go       *)
(* concurrently, are included: runpc is then "none".                       *)
(***************************************************************************)
EXTENDS GoroutinePool

CONSTANT FreeCallers   \* callers of Go when there is no group

ASSUME ActorsAssumption == Callers = 1 .. Cardinality(Callers)

VARIABLES
  runpc,         \* where Run is
  cur,           \* the loop index of Run
  errors,        \* the buffered channel errors: the actors whose error it holds
  firstErr,      \* err of Run: the actor it came from, 0 before
  interrupted,   \* actors whose interrupt has been called
  exits          \* history: the actors in the order their execute returned

groupVars == <<runpc, cur, errors, firstErr, interrupted, exits>>
allVars == <<vars, groupVars>>

Actors == Callers
NActors == Cardinality(Actors)

GroupInit ==
  /\ Init
  /\ runpc \in {"none", "idle"} /\ cur = 1 /\ errors = <<>> /\ firstErr = 0
  /\ interrupted = {} /\ exits = <<>>

\* Add appends to a plain slice before Run; the actors are fixed here.
Run ==
  /\ runpc = "idle"
  /\ runpc' = IF NActors = 0 THEN "returned" ELSE "go"
  /\ UNCHANGED <<vars, cur, errors, firstErr, interrupted, exits>>

\* g.pool.Go of the current actor; its error is dropped.
RunGo ==
  /\ runpc = "go"
  /\ Go(cur)
  /\ UNCHANGED groupVars

RunGoReturned ==
  /\ runpc = "go" /\ cpc[cur] \in {"ok", "refused"}
  /\ IF cur = NActors THEN runpc' = "first" /\ cur' = 1
                      ELSE cur' = cur + 1 /\ UNCHANGED runpc
  /\ UNCHANGED <<vars, errors, firstErr, interrupted, exits>>

\* The work of an actor, errors <- a.execute(), is two steps: execute returns,
\* and its error is sent to a channel that has room for every actor.  Another
\* actor may return and send in between.
ExecuteReturns(g) ==
  /\ runpc # "none" /\ wpc[g] = "run" /\ work[g] \notin ToSet(exits)
  /\ exits' = Append(exits, work[g])
  /\ UNCHANGED <<vars, runpc, cur, errors, firstErr, interrupted>>

SendError(g) ==
  /\ runpc # "none" /\ work[g] \in ToSet(exits) /\ WorkReturns(g)
  /\ errors' = Append(errors, work[g])
  /\ UNCHANGED <<runpc, cur, firstErr, interrupted, exits>>

FirstOf == Head(errors)

RunFirst ==
  /\ runpc = "first" /\ errors # <<>>
  /\ firstErr' = FirstOf
  /\ errors' = Tail(errors)
  /\ runpc' = "interrupt"
  /\ UNCHANGED <<vars, cur, interrupted, exits>>

RunInterrupt ==
  /\ runpc = "interrupt"
  /\ interrupted' = interrupted \cup {cur}
  /\ IF cur = NActors THEN runpc' = "drain" /\ cur' = 1
                      ELSE cur' = cur + 1 /\ UNCHANGED runpc
  /\ UNCHANGED <<vars, errors, firstErr, exits>>

\* The loop that receives the other errors counts from 1 to cap(errors).
DrainEnd_short == NActors - 1
DrainEnd_cap == NActors + 1
DrainEnd == NActors

RunDrain ==
  /\ runpc = "drain"
  /\ IF cur < DrainEnd
     THEN /\ errors # <<>>
          /\ errors' = Tail(errors)
          /\ cur' = cur + 1 /\ UNCHANGED runpc
     ELSE runpc' = "returned" /\ UNCHANGED <<errors, cur>>
  /\ UNCHANGED <<vars, firstErr, interrupted, exits>>

\* The pool without a group: each caller runs one piece of work.
FreeGo(c) ==
  /\ runpc = "none" /\ Go(c)
  /\ UNCHANGED groupVars

FreeWorkReturns(g) ==
  /\ runpc = "none" /\ WorkReturns(g)
  /\ UNCHANGED groupVars

RunStep == RunGo \/ RunGoReturned \/ RunFirst \/ RunInterrupt \/ RunDrain

\* The pool's other goroutines.  Nothing keeps a caller from closing the group
\* before or while it runs.
PoolStep ==
  /\ \/ \E g \in Gr : CountFin(g) \/ put(g) \/ PutCas(g) \/ Exit(g) \/ Age(g)
     \/ Gc
     \/ Close
  /\ UNCHANGED groupVars

GroupNext ==
  \/ Run \/ RunStep \/ PoolStep
  \/ \E g \in Gr : ExecuteReturns(g) \/ SendError(g) \/ FreeWorkReturns(g)
  \/ \E c \in FreeCallers : FreeGo(c)

\* Runnable goroutines run and time passes, but nobody has to call Go, Run or
\* Close.  Work of a caller returns; of the actors, the first one returns by
\* itself and the others when they are interrupted, as Add requires.
GroupFairness ==
  /\ WF_allVars(RunStep)
  /\ \A c \in FreeCallers : WF_allVars(cpc[c] # "call" /\ FreeGo(c))
  /\ \A g \in Gr :
       /\ WF_allVars(UNCHANGED groupVars /\ (CountFin(g) \/ put(g) \/ PutCas(g)))
       /\ WF_allVars(\/ FreeWorkReturns(g) \/ SendError(g)
                     \/ ExecuteReturns(g) /\ (work[g] \in interrupted \/ work[g] = 1))
  /\ WF_allVars(closepc # "idle" /\ UNCHANGED groupVars /\ Close)

GroupSpec == GroupInit /\ [][GroupNext]_allVars /\ GroupFairness

-----------------------------------------------------------------------------

\* "Run only returns when all actors have exited": also when other goroutines
\* of the pool are still being put back, collected or closed.  The error it
\* returns is of an actor that has exited, and nobody is interrupted before.
RunWaitsForActors ==
  /\ runpc = "returned" => ToSet(exits) = Actors /\ interrupted = Actors
  /\ interrupted # {} => firstErr # 0
  /\ firstErr # 0 => firstErr \in ToSet(exits) \ ToSet(errors)

\* "Run returns the error returned by the first exiting actor" (group.go:61):
\* it returns the first error sent, and an actor that has returned may be
\* overtaken before it sends.
FirstExitReported == firstErr # 0 => firstErr = exits[1]

\* Run, once called, returns: all actors are started, and the first exit
\* interrupts the others.  A Close that runs at the same time changes this only
\* by making the pool refuse an actor: Run drops the error of Go and then waits
\* for an exit that cannot come.
RunTerminates ==
  runpc = "go" ~> (runpc = "returned" \/ \E a \in Actors : cpc[a] = "refused")
=============================================================================
