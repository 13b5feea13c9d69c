----------------------------- MODULE JobLifecycle -----------------------------
(***************************************************************************)
(* What the pipeline promises about every job, without locks, messages,    *)
(* outbox events, tokens or crashes: a job is submitted once, moves along  *)
(* the transition table of the domain layer, starts at most MaxTotal       *)
(* times, starts only while its owner is below the running-job limit, and  *)
(* goes back to the queue only while an attempt is left.                   *)
(*                                                                         *)
(* Several running jobs may be requeued or failed in one step, because the *)
(* recovery of expired leases commits a whole batch at once.               *)
(***************************************************************************)
EXTENDS Naturals, FiniteSets

CONSTANTS Jobs, Users, Owner, MaxTotal, MaxRunning, Unhandled

VARIABLES status, attempts

vars == <<status, attempts>>

RunningOf(u) == {j \in Jobs : Owner[j] = u /\ status[j] = "running"}

Init ==
    /\ status = [j \in Jobs |-> "absent"]
    /\ attempts = [j \in Jobs |-> 0]

Move(j, from, to) ==
    /\ status[j] = from
    /\ status' = [status EXCEPT ![j] = to]
    /\ UNCHANGED attempts

Submit(j) == Move(j, "absent", "pending")

Enqueue(j) == Move(j, "pending", "queued")

Start(j) ==
    /\ status[j] = "queued"
    /\ attempts[j] < MaxTotal
    /\ Cardinality(RunningOf(Owner[j])) < MaxRunning
    /\ status' = [status EXCEPT ![j] = "running"]
    /\ attempts' = [attempts EXCEPT ![j] = @ + 1]

Complete(j) == Move(j, "running", "completed")

Cancel(j) == \E from \in {"pending", "queued", "running"} : Move(j, from, "cancelled")

\* The end of an attempt that did not complete: back to the queue while an
\* attempt is left, otherwise (or when no handler exists) a final failure.
AttemptLost(S) ==
    /\ S # {}
    /\ \A j \in S : status[j] = "running"
    /\ \E to \in [S -> {"queued", "failed"}] :
          /\ \A j \in S : (to[j] = "queued") => (attempts[j] < MaxTotal)
          /\ \A j \in S : (to[j] = "failed") => (attempts[j] = MaxTotal \/ j \in Unhandled)
          /\ status' = [j \in Jobs |-> IF j \in S THEN to[j] ELSE status[j]]
    /\ UNCHANGED attempts

Next ==
    \/ \E j \in Jobs : Submit(j) \/ Enqueue(j) \/ Start(j) \/ Complete(j) \/ Cancel(j)
    \/ \E S \in SUBSET Jobs : AttemptLost(S)

Spec == Init /\ [][Next]_vars
=============================================================================
