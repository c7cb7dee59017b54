------------------------------ MODULE FileLock ------------------------------
(***************************************************************************)
(* sync/flock.go and flock_unix.go: a file lock with two flags, l for an   *)
(* exclusive and r for a shared lock.  Each of Flocks is an object of its  *)
(* own, in this process or in another one, on one path.                    *)
(*                                                                         *)
(* The kernel (external) keeps a lock per open file: s.ex is the Flock     *)
(* whose file has the exclusive lock, s.sh those with a shared one.  A     *)
(* request for the other kind of lock takes the old one away first; if the *)
(* new one is refused the file has none.                                   *)
(*                                                                         *)
(* s.f[f] is the object and the call that holds its mutex f.m: `want' is   *)
(* the kind of lock, `block' whether the call waits.  Calls that find      *)
(* their flag set, and Unlock of what is not locked, return at once.       *)
(*                                                                         *)
(* ref.weak are the Flocks whose last conversion, since they had a flag,   *)
(* was to the shared lock with the flag l set, or was refused, or failed   *)
(* after the file had been closed.                                         *)
(***************************************************************************)
EXTENDS Integers, Sequences, FiniteSets

CONSTANTS Flocks, MaxErrors

VARIABLES s, ref

None == 0
NewFlock == [l |-> FALSE, r |-> FALSE, fh |-> FALSE, at |-> "idle", want |-> "ex", block |-> FALSE, retried |-> FALSE]

Init == /\ s = [f |-> [f \in Flocks |-> NewFlock], ex |-> None, sh |-> {}]
        /\ ref = [weak |-> {}, errors |-> 0]

Released(t, f) == [t EXCEPT !.ex = IF @ = f THEN None ELSE @, !.sh = @ \ {f}]
Idle(t, f) == [t EXCEPT !.f[f].at = "idle", !.f[f].retried = FALSE, !.f[f].block = FALSE]
Fails == ref.errors < MaxErrors
Failed == [ref EXCEPT !.errors = @ + 1]

\* Lock, RLock, TryLock and TryRLock up to the system call; setFh opens the file.
lock(f, want, block) ==
  /\ s.f[f].at = "idle" /\ ~(IF want = "ex" THEN s.f[f].l ELSE s.f[f].r)
  /\ \/ /\ s' = [s EXCEPT !.f[f] = [@ EXCEPT !.at = "flock", !.want = want, !.block = block, !.fh = TRUE]]
        /\ UNCHANGED ref
     \/ ~s.f[f].fh /\ Fails /\ ref' = Failed /\ UNCHANGED s

\* syscall.Flock: the file's other lock goes.
Flock(f) ==
  /\ s.f[f].at = "flock"
  /\ s' = [Released(s, f) EXCEPT !.f[f].at = "asked"]
  /\ UNCHANGED ref

Free(f) == s.ex \in {None, f} /\ (s.f[f].want = "ex" => s.sh \subseteq {f})

Granted(f) ==
  /\ s.f[f].at = "asked" /\ Free(f)
  /\ s' = IF s.f[f].want = "ex" THEN [Idle(s, f) EXCEPT !.f[f].l = TRUE, !.ex = f]
          ELSE [Idle(s, f) EXCEPT !.f[f].r = TRUE, !.sh = @ \cup {f}]
  /\ ref' = [ref EXCEPT !.weak = IF s.f[f].want = "sh" /\ s.f[f].l THEN @ \cup {f} ELSE @ \ {f}]

Flagged(f) == s.f[f].l \/ s.f[f].r

\* try: EWOULDBLOCK.
WouldBlock(f) ==
  /\ s.f[f].at = "asked" /\ ~s.f[f].block /\ ~Free(f)
  /\ s' = Idle(s, f)
  /\ ref' = IF Flagged(f) THEN [ref EXCEPT !.weak = @ \cup {f}] ELSE ref

\* reopenFDOnError after EIO or EBADF: closing the file releases its lock; the
\* reopening may fail too, and then there is no file.
reopenFDOnError(f) ==
  /\ s.f[f].at = "flock" /\ ~s.f[f].retried /\ Fails
  /\ \/ s' = [Released(s, f) EXCEPT !.f[f].retried = TRUE] /\ ref' = Failed
     \/ /\ s' = [Idle(Released(s, f), f) EXCEPT !.f[f].fh = FALSE]
        /\ ref' = IF Flagged(f) THEN [Failed EXCEPT !.weak = @ \cup {f}] ELSE Failed

\* Any other error, or a second one.
FlockFails(f) ==
  /\ s.f[f].at = "flock" /\ Fails
  /\ s' = Idle(s, f)
  /\ ref' = IF Flagged(f) /\ s.f[f].retried THEN [Failed EXCEPT !.weak = @ \cup {f}] ELSE Failed

Kept(x) == [x EXCEPT !.l = FALSE, !.r = FALSE, !.fh = FALSE]

Unlock(f) ==
  /\ s.f[f].at = "idle" /\ Flagged(f) /\ s.f[f].fh
  /\ s' = [Released(s, f) EXCEPT !.f[f] = Kept(@)]
  /\ ref' = [ref EXCEPT !.weak = @ \ {f}]

\* tryCtx is a sequence of tries, which are steps of Next.
Next ==
  \E f \in Flocks :
    \/ \E want \in {"ex", "sh"}, block \in BOOLEAN : lock(f, want, block)
    \/ Flock(f) \/ Granted(f) \/ WouldBlock(f) \/ reopenFDOnError(f) \/ FlockFails(f) \/ Unlock(f)

-----------------------------------------------------------------------------
(***************************************************************************)
(* Between calls a Flock that says Locked has the file for itself, and one *)
(* that only says RLocked shares it with readers, exactly if its last      *)
(* conversion was neither downwards nor refused (ref.weak): RLock on a     *)
(* locked Flock, and a TryLock on a shared one that finds other readers,   *)
(* leave a flag whose lock the kernel has taken away, although Locked and  *)
(* RLocked are to return the lock state.  A Flock that says neither has    *)
(* nothing, so nothing stays locked after Unlock or a failure; and one     *)
(* that waits has nothing either, so Flocks that all hold the shared lock  *)
(* and ask for the exclusive one do not deadlock.                          *)
(***************************************************************************)
FlagsTrue ==
  /\ s.ex # None => s.sh = {}
  /\ \A f \in Flocks : s.f[f].at = "idle" =>
       /\ s.f[f].l => (s.ex = f <=> f \notin ref.weak)
       /\ s.f[f].r /\ ~s.f[f].l => (f \in s.sh <=> f \notin ref.weak)
  /\ \A f \in Flocks : (s.f[f].at = "idle" /\ ~Flagged(f)) \/ s.f[f].at = "asked" => s.ex # f /\ f \notin s.sh
=============================================================================
