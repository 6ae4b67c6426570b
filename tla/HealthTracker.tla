--------------------------- MODULE HealthTracker ---------------------------
(***************************************************************************)
(* The process-wide health tracker (internal/proxy/health_tracker.go).     *)
(* It holds one state slot per health scope and is written by request      *)
(* goroutines, by the session worker and by the persistence workers; each  *)
(* of its operations is one critical section of HealthTracker.mu, so each  *)
(* is one action here.  The modules that own those actors extend this one  *)
(* and conjoin its actions with theirs.                                    *)
(*                                                                         *)
(* Left out: the failure class (a function of the scope), and the report   *)
(* printed after the lock is released.                                     *)
(***************************************************************************)
EXTENDS Naturals

VARIABLE health  \* [HealthScopes -> healthState]

SQLiteScopes == {"sqlite_state", "sqlite_archive"}
GapScopes    == {"session_queue_full", "session_log_sink"}
HealthScopes == SQLiteScopes \cup GapScopes

HealthState == [degraded: BOOLEAN, latestGeneration: Nat]

HealthTypeOK == health \in [HealthScopes -> HealthState]

HealthInit ==
  health = [s \in HealthScopes |-> [degraded |-> FALSE, latestGeneration |-> 0]]

\* A failure without a generation (SQLite scopes) is numbered by the tracker;
\* a generation older than the latest one is raised to it.
FailureGeneration(scope, generation) ==
  LET latest == health[scope].latestGeneration
  IN  IF generation = 0 THEN latest + 1
      ELSE IF generation < latest THEN latest ELSE generation

ObserveFailure(scope, generation) ==
  health' = [health EXCEPT ![scope] =
               [degraded |-> TRUE,
                latestGeneration |-> FailureGeneration(scope, generation)]]

\* A plain success clears a SQLite scope only: a session scope needs the
\* generation proof of ObserveGapCommit.
ObserveSuccess(scope) ==
  IF scope \in SQLiteScopes
  THEN health' = [health EXCEPT ![scope].degraded = FALSE]
  ELSE UNCHANGED health

\* Mutated form: any commit recovers the scope, whatever was lost since.
ObserveAnyCommit(scope, committed) ==
  IF scope \in GapScopes /\ committed # 0
  THEN health' = [health EXCEPT ![scope].degraded = FALSE]
  ELSE UNCHANGED health

ObserveGapCommit(scope, committed) ==
  IF /\ scope \in GapScopes
     /\ health[scope].degraded
     /\ committed = health[scope].latestGeneration
     /\ committed # 0
  THEN health' = [health EXCEPT ![scope].degraded = FALSE]
  ELSE UNCHANGED health
=============================================================================
