------------------------------- MODULE JobState -------------------------------
(***************************************************************************)
(* The row of the jobs table as the dispatch pipeline sees it, and the     *)
(* conditional UPDATE statements of app/repositories/jobs.py as functions  *)
(* from the row before the statement to the row after it.  A statement     *)
(* whose WHERE clause does not match leaves the row alone (rowcount 0).    *)
(*                                                                         *)
(* Columns no decision depends on (payload, timestamps, last_error,        *)
(* worker_id) are left out.  lease_expires_at is abstracted to the fact    *)
(* the recovery query asks for: whether it lies in the past.               *)
(***************************************************************************)
EXTENDS Naturals

CONSTANTS
    Tokens,      \* execution tokens (uuid4 values)
    NoToken,     \* execution_token IS NULL
    MaxRetries   \* max_retries of every job (the code's rows all carry 3)

ASSUME TokenAssumption == NoToken \notin Tokens
ASSUME MaxRetriesAssumption == MaxRetries \in Nat

JobStatus == {"pending", "queued", "running", "completed", "failed", "cancelled"}

Terminal == {"completed", "failed", "cancelled"}

\* The transition table of the domain layer.  No application code consults it:
\* the repository's WHERE clauses are what really restricts the transitions.
AllowedTransitions ==
    [s \in JobStatus |->
        CASE s = "pending" -> {"queued", "cancelled"}
          [] s = "queued"  -> {"running", "cancelled"}
          [] s = "running" -> {"completed", "queued", "failed", "cancelled"}
          [] OTHER         -> {}]

CanTransition(current, target) == target \in AllowedTransitions[current]

\* _max_total_attempts: min(max_retries + 1, MAX_TOTAL_JOB_ATTEMPTS).
MaxTotal == IF MaxRetries + 1 <= 4 THEN MaxRetries + 1 ELSE 4

\* "absent" stands for: no such row yet.
JobRow == [status   : JobStatus \cup {"absent"},
           attempts : Nat,
           token    : Tokens \cup {NoToken},
           cancel   : BOOLEAN,     \* cancel_requested_at IS NOT NULL
           expired  : BOOLEAN]     \* lease_expires_at < now()

NoRow == [status |-> "absent", attempts |-> 0, token |-> NoToken,
          cancel |-> FALSE, expired |-> FALSE]

-----------------------------------------------------------------------------
(* The statements. *)

CreatePendingJob(row) == [row EXCEPT !.status = "pending"]

MarkQueued(row) ==
    IF row.status = "pending" THEN [row EXCEPT !.status = "queued"] ELSE row

\* cancel_requested_at is not among the columns the statement resets.
MarkRunning(row, t) ==
    IF row.status = "queued"
    THEN [row EXCEPT !.status = "running", !.attempts = @ + 1,
                     !.token = t, !.expired = FALSE]
    ELSE row

\* Mutant of Owns: the WHERE clause without the execution token.
OwnsAnyToken(row, t) == row.status = "running"

\* WHERE status = 'running' AND execution_token = t
Owns(row, t) == row.status = "running" /\ row.token = t

\* Mutant of LeaveRunning: cancel_requested_at is reset like the lease.
LeaveRunningForgets(row, s) ==
    [row EXCEPT !.status = s, !.token = NoToken, !.cancel = FALSE, !.expired = FALSE]

\* The SET clause shared by the statements that end an execution.
LeaveRunning(row, s) ==
    [row EXCEPT !.status = s, !.token = NoToken, !.expired = FALSE]

MarkCompleted(row, t) == IF Owns(row, t) THEN LeaveRunning(row, "completed") ELSE row
MarkFailed(row, t)    == IF Owns(row, t) THEN LeaveRunning(row, "failed") ELSE row
MarkCancelled(row, t) == IF Owns(row, t) THEN LeaveRunning(row, "cancelled") ELSE row
RequeueRunning(row, t) == IF Owns(row, t) THEN LeaveRunning(row, "queued") ELSE row

MarkFailedWithoutExecution(row) ==
    IF row.status = "queued" THEN LeaveRunning(row, "failed") ELSE row

\* Mutant of CancelPendingOrQueued: a status the other statements do not know.
CancelMisspelt(row) ==
    IF row.status \in {"pending", "queued"} THEN LeaveRunning(row, "canceled") ELSE row

CancelPendingOrQueued(row) ==
    IF row.status \in {"pending", "queued"} THEN LeaveRunning(row, "cancelled") ELSE row

RequestRunningCancellation(row) ==
    IF row.status = "running" /\ ~row.cancel THEN [row EXCEPT !.cancel = TRUE] ELSE row
=============================================================================
