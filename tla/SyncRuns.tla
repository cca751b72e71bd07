------------------------------ MODULE SyncRuns ------------------------------
(***************************************************************************)
(* Who runs a device's sync, and when (core/src/cache.rs): debounced hints *)
(* and retries call sync_now from tasks of their own, on any thread; one   *)
(* of them holds the lock and runs, the others leave it a request and go.  *)
(* A step is what is atomic there: an access to the flag, to the lock.     *)
(***************************************************************************)
EXTENDS Naturals

CONSTANT Callers \* calls of sync_now there may be at once

VARIABLES
  at,     \* where each call is; "any": in this behaviour runs just happen
  again,  \* a request that a run has yet to be begun for
  failed, \* calls whose last run failed for lack of a network
  timers, \* tasks that sleep: "sync" (scheduled), "retry" (retry_scheduled)
  offline \* CacheState.offline

runVars == <<at, again, failed, timers, offline>>

RunsInit(called) ==
  /\ at = [c \in Callers |-> IF called THEN "away" ELSE "any"]
  /\ again = FALSE /\ failed = {} /\ timers = {} /\ offline = FALSE

Anybody == \A c \in Callers : at[c] = "any"
Running == \E c \in Callers : at[c] = "running"
Holding == {"deciding", "running", "leaving"}
Held == \E c \in Callers : at[c] \in Holding
AtRest == timers = {} /\ \A c \in Callers : at[c] = "away"

Moves(c, to) == at' = [at EXCEPT ![c] = to]

\* schedule_sync: a hint, a connection that comes or goes, the periodic tick; asks join.
Schedules == ~Anybody /\ timers' = timers \cup {"sync"} /\ UNCHANGED <<at, again, failed, offline>>

\* sync_now: the request is recorded before the lock is tried.
Calls(c) == at[c] = "away" /\ Moves(c, "trying") /\ again' = TRUE /\ UNCHANGED <<failed, offline>>

SyncDue(c) == "sync" \in timers /\ timers' = timers \ {"sync"} /\ Calls(c)

\* The wait after a failure is over; something else may have synced meanwhile.
RetryDue(c) ==
  /\ "retry" \in timers /\ timers' = timers \ {"retry"}
  /\ IF offline THEN Calls(c) ELSE UNCHANGED <<at, again, failed, offline>>

\* Whoever has the lock goes once more.
Tries(c) ==
  /\ at[c] = "trying"
  /\ IF Held THEN Moves(c, "away") /\ failed' = failed \ {c} ELSE Moves(c, "deciding") /\ UNCHANGED failed
  /\ UNCHANGED <<again, timers, offline>>

\* Each run starts after the requests it clears.
Decides(c) ==
  /\ at[c] = "deciding"
  /\ Moves(c, IF again THEN "running" ELSE "leaving")
  /\ again' = FALSE /\ UNCHANGED <<failed, timers, offline>>

\* run_once ends; after an error the owner lets go.
Ends(how) ==
  \/ Anybody /\ UNCHANGED runVars
  \/ \E c \in Callers :
       /\ at[c] = "running" /\ Moves(c, IF how \in {"done", "reset"} THEN "deciding" ELSE "leaving")
       /\ failed' = IF how = "unreachable" THEN failed \cup {c} ELSE failed \ {c}
       /\ offline' = (how = "unreachable")
       /\ again' = (again \/ how = "reset") /\ UNCHANGED timers

LetsGo(c) == at[c] = "leaving" /\ Moves(c, "looking") /\ UNCHANGED <<again, failed, timers, offline>>

\* schedule_retry, if it isn't.
GoesAway(c) ==
  /\ Moves(c, "away") /\ failed' = failed \ {c}
  /\ timers' = IF c \in failed THEN timers \cup {"retry"} ELSE timers
  /\ UNCHANGED <<again, offline>>

\* Mutant: no look at the flag after letting go.
LooksNot(c) == at[c] = "looking" /\ GoesAway(c)

\* A request that came before the lock was free is this call's.
Looks(c) ==
  /\ at[c] = "looking"
  /\ IF again THEN Moves(c, "trying") /\ UNCHANGED <<again, failed, timers, offline>> ELSE GoesAway(c)

RunsNext == \E c \in Callers : SyncDue(c) \/ RetryDue(c) \/ Tries(c) \/ Decides(c) \/ LetsGo(c) \/ Looks(c)

\* The runs alone, whatever they are asked for and however they end.
Outcomes == {"done", "reset", "unreachable", "error"}
RunsSpec == RunsInit(TRUE) /\ [][Schedules \/ RunsNext \/ \E how \in Outcomes : Ends(how)]_runVars

-----------------------------------------------------------------------------
(* Properties.                                                             *)

RunsTypeOK ==
  /\ at \in [Callers -> {"any", "away", "trying", "deciding", "running", "leaving", "looking"}]
  /\ again \in BOOLEAN /\ failed \subseteq Callers /\ timers \subseteq {"sync", "retry"} /\ offline \in BOOLEAN

\* Runs are one at a time (the comment of sync_now, "Single-flight").
OneRun == \A c, d \in Callers : at[c] \in Holding /\ at[d] \in Holding => c = d

\* A request is never left with nobody to see it: "No moment exists where neither
\* happens" (sync_now).
RequestHeard == again => \E c \in Callers : at[c] \notin {"away", "any"}

\* A cache that is offline has a retry ahead, whoever's run it was that failed and
\* whoever came in between (sync_now, schedule_retry).
RetryAhead ==
  offline => \/ "retry" \in timers \/ again \/ Running
             \/ \E c \in failed : at[c] \in {"leaving", "looking"}

RunsInv == RunsTypeOK /\ OneRun /\ RequestHeard /\ RetryAhead
=============================================================================
