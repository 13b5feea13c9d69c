-------------------------- MODULE JobLifecycleProofs --------------------------
(***************************************************************************)
(* The dispatch pipeline implements the abstract life cycle of a job, and  *)
(* its transactions can only deadlock with a recovery transaction.  Both   *)
(* rest on the inductive invariant of JobDispatchProofs and on one further *)
(* invariant each.                                                         *)
(***************************************************************************)
EXTENDS JobDispatchProofs

-----------------------------------------------------------------------------
(* Who holds a lock. *)

\* A lock is held only by a transaction that is past the statement that took it:
\* the converse of LocksHeld, for the transactions that may wait for each other.
HoldersAtWork ==
    /\ \A u \in Users :
          /\ userLock[u] \notin Publishers
          /\ userLock[u] \in Slots => slot[userLock[u]].pc \in Claiming \cup {"job"}
    /\ \A j \in Jobs :
          /\ jobLock[j] \in Slots => slot[jobLock[j]].pc \in Claiming
          /\ jobLock[j] \in Publishers => pub[jobLock[j]].pc \in {"send", "commit"}

\* Nobody holds a lock before the first request.
LEMMA HoldersInit == Init => HoldersAtWork
BY TxnAssumption DEF Init, HoldersAtWork, Txns

\* A step that moves no handler and no publisher and takes no lock keeps the
\* holders where they are.
LEMMA HoldersKept ==
    ASSUME TypeOK, HoldersAtWork, UNCHANGED <<slot, pub, userLock, jobLock>>
    PROVE  HoldersAtWork'
BY DEF HoldersAtWork

\* Locks that are freed need no holder.
LEMMA HoldersReleased ==
    ASSUME TypeOK, HoldersAtWork, NEW T, EndTxns(T),
           \A s \in Slots : s \notin T => slot'[s].pc = slot[s].pc,
           \A p \in Publishers : p \notin T => pub'[p].pc = pub[p].pc
    PROVE  HoldersAtWork'
BY ReleasedEffect, TxnAssumption DEF HoldersAtWork, TypeOK, EndTxns, Txns

\* Every handler and publisher frees its locks when it leaves the transaction.
LEMMA HoldersStep ==
    ASSUME TypeOK, HoldersAtWork, [Next]_vars
    PROVE  HoldersAtWork'
<1> USE TxnAssumption
<1>1. CASE ApiNext
  BY <1>1, HoldersKept DEF ApiNext, CreateJob, CancelJob, LeaseExpires, LocksUnchanged
<1>2. ASSUME NEW p \in Publishers, NEW j \in Jobs, NEW e \in Events, LockEvent(p, j, e)
      PROVE HoldersAtWork'
  BY <1>2 DEF LockEvent, LocksUnchanged, HoldersAtWork, TypeOK
<1>3. ASSUME NEW p \in Publishers, PublisherLocksJob(p) PROVE HoldersAtWork'
  BY <1>3 DEF PublisherLocksJob, HoldersAtWork, TypeOK, PubState
<1>4. ASSUME NEW p \in Publishers, DiscardEvent(p) PROVE HoldersAtWork'
  BY <1>4 DEF DiscardEvent, LocksUnchanged, HoldersAtWork, TypeOK
<1>5. ASSUME NEW p \in Publishers, PublishDispatch(p) PROVE HoldersAtWork'
  BY <1>5 DEF PublishDispatch, LocksUnchanged, HoldersAtWork, TypeOK, PubState
<1>6. ASSUME NEW p \in Publishers, CommitPublished(p) \/ PublisherAborts(p) PROVE HoldersAtWork'
  BY <1>6, HoldersReleased DEF CommitPublished, PublisherAborts, TypeOK
<1>7. ASSUME NEW s \in Slots, NEW j \in Jobs, Deliver(s, j) PROVE HoldersAtWork'
  BY <1>7 DEF Deliver, LocksUnchanged, HoldersAtWork, TypeOK, IdleSlot, Claiming
<1>8. ASSUME NEW s \in Slots, LockOwner(s) PROVE HoldersAtWork'
  BY <1>8, MovesLemma DEF LockOwner, Moves, HoldersAtWork, TypeOK, Claiming
<1>9. ASSUME NEW s \in Slots, LockCandidate(s) PROVE HoldersAtWork'
  <2>1. Moves(s, ClaimVerdict(slot[s].job)) /\ ClaimVerdict(slot[s].job) \in Claiming
    BY <1>9, MovesLemma DEF LockCandidate, ClaimVerdict, Claiming, TypeOK
  <2> QED BY <1>9, <2>1 DEF LockCandidate, Moves, HoldersAtWork, TypeOK
<1>10. ASSUME NEW s \in Slots, AckNotQueued(s) \/ CommitNotRunning(s) PROVE HoldersAtWork'
  BY <1>10, HoldersReleased DEF AckNotQueued, CommitNotRunning, TypeOK
<1>11. ASSUME NEW s \in Slots, CommitRunning(s) PROVE HoldersAtWork'
  BY <1>11, HoldersReleased DEF CommitRunning, TypeOK
<1>12. ASSUME NEW s \in Slots, ObserveCancellation(s) PROVE HoldersAtWork'
  BY <1>12, MovesLemma DEF ObserveCancellation, LocksUnchanged, Moves, HoldersAtWork, TypeOK, Claiming
<1>13. ASSUME NEW s \in Slots, Finishes(s) PROVE HoldersAtWork'
  <2>1. Moves(s, "ack") /\ slot[s].pc \in {"exec", "cancel"} /\ UNCHANGED <<pub, userLock, jobLock>>
    BY <1>13, MovesLemma DEF Finishes, FinishCompleted, FinishCancelled, FinishFailed,
       ScheduleRetry, Finalise, LocksUnchanged, TypeOK
  <2> QED BY <2>1 DEF Moves, HoldersAtWork, TypeOK, Claiming
<1>14. ASSUME NEW s \in Slots, Ack(s) PROVE HoldersAtWork'
  BY <1>14 DEF Ack, LocksUnchanged, HoldersAtWork, TypeOK, Claiming
<1>15. ASSUME NEW s \in Slots, Raise(s) PROVE HoldersAtWork'
  BY <1>15, HoldersReleased DEF Raise, TypeOK
<1>16. ASSUME NEW w \in Workers, ClaimExpired(w) PROVE HoldersAtWork'
  <2>1. PICK B \in SUBSET Stale : jobLock' = [j \in Jobs |-> IF j \in B THEN w ELSE jobLock[j]]
    BY <1>16 DEF ClaimExpired
  <2> QED BY <1>16, <2>1 DEF ClaimExpired, HoldersAtWork, TypeOK
<1>17. ASSUME NEW w \in Workers, RecoveryLocksOwner(w) PROVE HoldersAtWork'
  BY <1>17 DEF RecoveryLocksOwner, HoldersAtWork, TypeOK
<1>18. ASSUME NEW w \in Workers, CommitRecovered(w) \/ TaskDies(w) PROVE HoldersAtWork'
  BY <1>18, HoldersReleased DEF CommitRecovered, TaskDies
<1>19. ASSUME NEW w \in Workers, WorkerCrashes(w) PROVE HoldersAtWork'
  BY <1>19, HoldersReleased DEF WorkerCrashes
<1>20. ASSUME NEW w \in Workers, ChannelCloses(w) PROVE HoldersAtWork'
  BY <1>20 DEF ChannelCloses, LocksUnchanged, HoldersAtWork, TypeOK, SlotState, Claiming
<1>21. CASE UNCHANGED vars
  BY <1>21, HoldersKept DEF vars
<1> QED
  BY <1>1, <1>2, <1>3, <1>4, <1>5, <1>6, <1>7, <1>8, <1>9, <1>10, <1>11, <1>12, <1>13, <1>14,
     <1>15, <1>16, <1>17, <1>18, <1>19, <1>20, <1>21
  DEF Next, PublisherNext, PublisherStep, HandlerNext, HandlerStep, RecoveryNext, RecoveryStep,
      ProcessNext, HandlerRaises, AbortHandler, RecoveryRaises, AbortRecovery, ConnectionLost,
      AckTimeout, Finishes

\* A handler that holds a job's row, and a publisher that holds one, wait for nobody.
LEMMA JobHolderRuns ==
    ASSUME TypeOK, HoldersAtWork, NEW j \in Jobs, jobLock[j] \in Slots \cup Publishers
    PROVE  WaitsFor(jobLock[j]) = NoTxn
<1>1. CASE jobLock[j] \in Slots
  BY <1>1, TxnAssumption DEF HoldersAtWork, WaitsFor, Claiming
<1>2. CASE jobLock[j] \in Publishers
  BY <1>2, TxnAssumption DEF HoldersAtWork, WaitsFor
<1> QED BY <1>1, <1>2

\* What a handler or a publisher can wait for.
LEMMA WaitCases ==
    ASSUME TypeOK, Shape, NEW t \in Slots \cup Publishers
    PROVE  \/ WaitsFor(t) = NoTxn
           \/ t \in Slots /\ \E u \in Users : WaitsFor(t) = userLock[u]
           \/ \E j \in Jobs : WaitsFor(t) = jobLock[j]
<1>1. CASE t \in Slots /\ slot[t].pc = "user"
  <2>1. WaitsFor(t) = userLock[Owner[slot[t].job]]
    BY <1>1, TxnAssumption DEF WaitsFor
  <2>2. Owner[slot[t].job] \in Users
    BY <1>1, JobsAssumption DEF Shape
  <2> QED BY <1>1, <2>1, <2>2
<1>2. CASE t \in Slots /\ slot[t].pc = "job"
  BY <1>2, TxnAssumption DEF WaitsFor, TypeOK, SlotState, Shape
<1>3. CASE t \in Publishers /\ pub[t].pc = "job"
  BY <1>3, TxnAssumption DEF WaitsFor, TypeOK, PubState, Shape
<1> QED BY <1>1, <1>2, <1>3, TxnAssumption DEF WaitsFor

\* Among handlers and publishers the owner's row is always taken before the job's
\* row, so whoever holds the second waits for nobody: no cycle without recovery.
THEOREM DeadlockOnlyWithRecovery == Spec => []DeadlockNeedsRecovery
<1>1. Inductive /\ HoldersAtWork => DeadlockNeedsRecovery
  <2> SUFFICES ASSUME Inductive, HoldersAtWork, NEW S \in SUBSET Txns, Cycle(S),
                      S \cap Workers = {}
               PROVE  FALSE
    BY DEF DeadlockNeedsRecovery
  <2>1. TypeOK /\ Shape
    BY DEF Inductive
  <2>2. S \subseteq Slots \cup Publishers /\ \A t \in S : WaitsFor(t) \in S
    BY DEF Cycle, Txns
  <2>3. \A t \in S : WaitsFor(t) # NoTxn
    BY <2>2, TxnAssumption DEF Txns
  <2>4. \A t \in S : ~ \E j \in Jobs : WaitsFor(t) = jobLock[j]
    BY <2>1, <2>2, <2>3, JobHolderRuns
  <2>5. \A t \in S : t \in Slots /\ \E u \in Users : WaitsFor(t) = userLock[u]
    BY <2>1, <2>2, <2>3, <2>4, WaitCases
  <2>6. PICK t \in S : TRUE
    BY DEF Cycle
  <2>7. PICK u \in Users : WaitsFor(t) = userLock[u]
    BY <2>5, <2>6
  <2> DEFINE h == userLock[u]
  <2>8. h \in S /\ h \in Slots /\ slot[h].pc \in Claiming \cup {"job"}
    BY <2>2, <2>5, <2>7 DEF HoldersAtWork
  <2>9. CASE slot[h].pc = "job"
    <3>1. slot[h].job \in Jobs /\ WaitsFor(h) = jobLock[slot[h].job]
      BY <2>1, <2>8, <2>9, TxnAssumption DEF Shape, WaitsFor
    <3> QED BY <3>1, <2>4, <2>8
  <2>10. CASE slot[h].pc \in Claiming
    <3>1. WaitsFor(h) = NoTxn
      BY <2>8, <2>10, TxnAssumption DEF WaitsFor, Claiming
    <3> QED BY <3>1, <2>3, <2>8
  <2> QED BY <2>8, <2>9, <2>10
<1>2. Inductive /\ HoldersAtWork /\ [Next]_vars => HoldersAtWork'
  BY HoldersStep DEF Inductive
<1> QED BY <1>1, <1>2, HoldersInit, InductiveInvariant, PTL DEF Spec
-----------------------------------------------------------------------------
(* The refinement. *)

\* A step leaves the abstract state of every job but those of S alone.
OthersKept(S) ==
    \A i \in Jobs \ S : job'[i].status = job[i].status /\ job'[i].attempts = job[i].attempts

\* A step moves job j, and only j, from one status to another.
Moved(j, from, to) ==
    /\ job[j].status = from
    /\ job'[j].status = to
    /\ job'[j].attempts = job[j].attempts
    /\ OthersKept({j})

\* A step that touches no status and no attempt count is a stutter of the life cycle.
LEMMA StutterLemma ==
    ASSUME OthersKept({})
    PROVE  UNCHANGED Lifecycle!vars
BY DEF OthersKept, Lifecycle!vars

\* A step that leaves the job table alone is one of them.
LEMMA RowsUnchanged ==
    ASSUME UNCHANGED job
    PROVE  UNCHANGED Lifecycle!vars
BY DEF Lifecycle!vars

\* A step that moves one job is a Move of the life cycle.
LEMMA MoveLemma ==
    ASSUME NEW j \in Jobs, NEW from, NEW to, Moved(j, from, to)
    PROVE  Lifecycle!Move(j, from, to)
BY DEF Moved, OthersKept, Lifecycle!Move

\* A running job that is requeued with an attempt left, or failed for good, lost
\* its attempt.
LEMMA LostLemma ==
    ASSUME NEW j \in Jobs, NEW to \in {"queued", "failed"}, Moved(j, "running", to),
           to = "queued" => job[j].attempts < MaxTotal,
           to = "failed" => job[j].attempts = MaxTotal \/ j \in Unhandled
    PROVE  Lifecycle!Next
<1>1. Lifecycle!AttemptLost({j})
  <2> DEFINE f == [i \in {j} |-> to]
  <2>1. f \in [{j} -> {"queued", "failed"}] /\ f[j] = to
    OBVIOUS
  <2>2. [i \in Jobs |-> job'[i].status] = [i \in Jobs |-> IF i \in {j} THEN f[i] ELSE job[i].status]
    BY DEF Moved, OthersKept
  <2>3. [i \in Jobs |-> job'[i].attempts] = [i \in Jobs |-> job[i].attempts]
    BY DEF Moved, OthersKept
  <2> QED BY <2>1, <2>2, <2>3 DEF Moved, Lifecycle!AttemptLost
<1> QED BY <1>1 DEF Lifecycle!Next

\* The disjuncts of the life cycle's next-state relation that no lemma above names.
LEMMA StartIsStep ==
    ASSUME NEW j \in Jobs, Lifecycle!Start(j)
    PROVE  Lifecycle!Next
BY DEF Lifecycle!Next

\* A batch of lost attempts is a step of the life cycle.
LEMMA BatchIsStep ==
    ASSUME NEW S \in SUBSET Jobs, Lifecycle!AttemptLost(S)
    PROVE  Lifecycle!Next
BY DEF Lifecycle!Next

\* The claim transaction never finds a queued job without an attempt left: the
\* branch that fails a job without executing it is not taken.
FailBranchUnused == \A s \in Slots : slot[s].pc # "fail"

\* Only the claim could send a handler into that branch, and AttemptBudget says it
\* does not.
LEMMA FailBranchStep ==
    ASSUME TypeOK, Shape, AttemptBudget, FailBranchUnused, [Next]_vars
    PROVE  FailBranchUnused'
<1> USE DEF TypeOK, FailBranchUnused
<1>1. CASE ApiNext
  BY <1>1 DEF ApiNext, CreateJob, CancelJob, LeaseExpires
<1>2. ASSUME NEW p \in Publishers, PublisherNext(p) PROVE FailBranchUnused'
  BY <1>2 DEF PublisherNext, PublisherStep, LockEvent, PublisherLocksJob, DiscardEvent,
     PublishDispatch, CommitPublished, PublisherAborts
<1>3. ASSUME NEW s \in Slots, NEW j \in Jobs, Deliver(s, j) PROVE FailBranchUnused'
  BY <1>3 DEF Deliver, IdleSlot
<1>4. ASSUME NEW s \in Slots, LockCandidate(s) PROVE FailBranchUnused'
  <2>1. slot[s].job \in Jobs /\ job[slot[s].job].status = "queued"
    BY <1>4 DEF LockCandidate, Shape
  <2>2. job[slot[s].job].attempts < MaxTotal /\ job[slot[s].job].attempts \in Nat
    BY <2>1 DEF AttemptBudget, JobRow
  <2>3. ClaimVerdict(slot[s].job) # "fail"
    BY <2>2, MaxTotalNat DEF ClaimVerdict
  <2> QED BY <1>4, <2>3, MovesLemma DEF LockCandidate, Moves
<1>5. ASSUME NEW s \in Slots, LockOwner(s) \/ AckNotQueued(s) \/ Ack(s) \/ ObserveCancellation(s)
      PROVE FailBranchUnused'
  BY <1>5 DEF LockOwner, AckNotQueued, Ack, ObserveCancellation, IdleSlot, SlotState
<1>6. ASSUME NEW s \in Slots, CommitRunning(s) \/ CommitNotRunning(s) PROVE FailBranchUnused'
  <2>1. CASE CommitRunning(s)
    BY <2>1, Zenon DEF CommitRunning, SlotState
  <2>2. CASE CommitNotRunning(s)
    BY <2>2, MovesLemma DEF CommitNotRunning, Moves
  <2> QED BY <1>6, <2>1, <2>2
<1>7. ASSUME NEW s \in Slots, Finishes(s) PROVE FailBranchUnused'
  <2>1. Moves(s, "ack")
    BY <1>7, MovesLemma DEF Finishes, FinishCompleted, FinishCancelled, FinishFailed,
       ScheduleRetry, Finalise
  <2> QED BY <2>1 DEF Moves
<1>8. ASSUME NEW s \in Slots, Raise(s) PROVE FailBranchUnused'
  BY <1>8 DEF Raise, IdleSlot
<1>9. ASSUME NEW w \in Workers, RecoveryNext(w) PROVE FailBranchUnused'
  BY <1>9 DEF RecoveryNext, RecoveryStep, ClaimExpired, RecoveryLocksOwner, CommitRecovered,
     RecoveryRaises, AbortRecovery, TaskDies
<1>10. ASSUME NEW w \in Workers, WorkerCrashes(w) PROVE FailBranchUnused'
  BY <1>10 DEF WorkerCrashes, IdleSlot
<1>11. ASSUME NEW w \in Workers, ChannelCloses(w) PROVE FailBranchUnused'
  BY <1>11 DEF ChannelCloses, IdleSlot, SlotState
<1>12. CASE UNCHANGED vars
  BY <1>12 DEF vars
<1> QED
  BY <1>1, <1>2, <1>3, <1>4, <1>5, <1>6, <1>7, <1>8, <1>9, <1>10, <1>11, <1>12
  DEF Next, HandlerNext, HandlerStep, ProcessNext, HandlerRaises, AbortHandler, ConnectionLost,
      AckTimeout, Finishes

\* An ended execution: the finaliser moved the row it still owned, or nothing.
LEMMA FinalMove ==
    ASSUME TypeOK, Shape, NEW s \in Slots, NEW new, NEW to,
           slot[s].pc \in {"exec", "cancel"}, Finalise(s, new),
           Ends(job[slot[s].job], slot[s].token, new, to)
    PROVE  /\ slot[s].job \in Jobs
           /\ \/ UNCHANGED job
              \/ /\ job[slot[s].job].token = slot[s].token
                 /\ Moved(slot[s].job, "running", to)
<1>1. slot[s].job \in Jobs
  BY DEF Shape
<1> QED BY <1>1 DEF Finalise, Ends, Owns, Moved, OthersKept, TypeOK

\* Every step of the pipeline is a step of the life cycle or leaves it unchanged.
LEMMA LifecycleStep ==
    ASSUME Inductive, FailBranchUnused, [Next]_vars
    PROVE  [Lifecycle!Next]_(Lifecycle!vars)
<1> SUFFICES ASSUME TypeOK, Shape, LocksHeld, SubmittedOnce, TokenMatchesAttempt, AttemptBudget,
                    RoomReserved
             PROVE  [Lifecycle!Next]_(Lifecycle!vars)
  BY DEF Inductive
<1> USE MaxTotalNat
<1>1. ASSUME NEW j \in Jobs, CreateJob(j) PROVE Lifecycle!Next
  <2>1. Moved(j, "absent", "pending")
    BY <1>1, RowEffects DEF CreateJob, Moved, OthersKept, TypeOK
  <2> QED BY <2>1, MoveLemma DEF Lifecycle!Next, Lifecycle!Submit
<1>2. ASSUME NEW j \in Jobs, CancelJob(j) PROVE [Lifecycle!Next]_(Lifecycle!vars)
  <2> job[j] \in JobRow /\ NoToken \in Tokens \cup {NoToken}
    BY DEF TypeOK
  <2>1. CASE job[j].status \in {"pending", "queued"}
    <3>1. job'[j] = CancelPendingOrQueued(job[j]) /\ \A i \in Jobs : i # j => job'[i] = job[i]
      BY <1>2, <2>1 DEF CancelJob, TypeOK
    <3>2. Moved(j, job[j].status, "cancelled")
      BY <2>1, <3>1, RowEffects DEF Moved, OthersKept
    <3> QED BY <2>1, <3>2, MoveLemma DEF Lifecycle!Next, Lifecycle!Cancel
  <2>2. CASE job[j].status \notin {"pending", "queued"}
    <3>1. job'[j] = RequestRunningCancellation(job[j]) /\ \A i \in Jobs : i # j => job'[i] = job[i]
      BY <1>2, <2>2 DEF CancelJob, TypeOK
    <3>2. OthersKept({})
      BY <3>1, RowEffects DEF OthersKept
    <3> QED BY <3>2, StutterLemma
  <2> QED BY <2>1, <2>2
<1>3. ASSUME NEW j \in Jobs, LeaseExpires(j) PROVE UNCHANGED Lifecycle!vars
  <2>1. OthersKept({})
    BY <1>3 DEF LeaseExpires, OthersKept, TypeOK, JobRow
  <2> QED BY <2>1, StutterLemma
<1>4. ASSUME NEW p \in Publishers, CommitPublished(p) PROVE [Lifecycle!Next]_(Lifecycle!vars)
  <2> DEFINE j == pub[p].job
  <2>1. j \in Jobs /\ job[j].status \in {"pending", "queued"} /\ job[j] \in JobRow
    BY <1>4 DEF CommitPublished, Shape, LocksHeld, PublisherLocks, TypeOK
  <2>2. job'[j] = MarkQueued(job[j]) /\ \A i \in Jobs : i # j => job'[i] = job[i]
    BY <1>4, <2>1 DEF CommitPublished, TypeOK
  <2>3. CASE job[j].status = "pending"
    <3>1. Moved(j, "pending", "queued")
      BY <2>1, <2>2, <2>3, RowEffects DEF Moved, OthersKept
    <3> QED BY <2>1, <3>1, MoveLemma DEF Lifecycle!Next, Lifecycle!Enqueue
  <2>4. CASE job[j].status = "queued"
    <3>1. OthersKept({})
      BY <2>1, <2>2, <2>4, RowEffects DEF OthersKept
    <3> QED BY <3>1, StutterLemma
  <2> QED BY <2>1, <2>3, <2>4
<1>5. ASSUME NEW p \in Publishers, PublisherNext(p) PROVE UNCHANGED job \/ CommitPublished(p)
  BY <1>5 DEF PublisherNext, PublisherStep, LockEvent, PublisherLocksJob, DiscardEvent,
     PublishDispatch, PublisherAborts
<1>6. ASSUME NEW s \in Slots, CommitRunning(s) PROVE Lifecycle!Next
  <2>1. PICK j \in Jobs : ClaimCommits(s, j)
    BY <1>6, ClaimCommitsLemma DEF LocksHeld, ClaimCommits
  <2>2. job[j].attempts < MaxTotal
    BY <2>1 DEF ClaimCommits, AttemptBudget
  <2>3. Lifecycle!RunningOf(Owner[j]) = RunningOf(Owner[j])
    BY DEF Lifecycle!RunningOf, RunningOf
  <2>4. Cardinality(Lifecycle!RunningOf(Owner[j])) < MaxRunning
    BY <2>1, <2>3 DEF ClaimCommits, RoomReserved
  <2>5. Lifecycle!Cardinality(Lifecycle!RunningOf(Owner[j])) < MaxRunning
    BY <2>4, Zenon DEF Lifecycle!Cardinality, Cardinality
  <2>6. /\ [i \in Jobs |-> job'[i].status] = [[i \in Jobs |-> job[i].status] EXCEPT ![j] = "running"]
        /\ [i \in Jobs |-> job'[i].attempts] = [[i \in Jobs |-> job[i].attempts] EXCEPT ![j] = @ + 1]
    BY <2>1 DEF ClaimCommits
  <2>7. Lifecycle!Start(j)
    BY <2>1, <2>2, <2>4, <2>5, <2>6 DEF ClaimCommits, Lifecycle!Start
  <2> QED BY <2>7, StartIsStep
<1>7. ASSUME NEW s \in Slots, CommitNotRunning(s) PROVE UNCHANGED job
  BY <1>7 DEF CommitNotRunning, FailBranchUnused, TypeOK
<1>8. ASSUME NEW s \in Slots, FinishCompleted(s) PROVE [Lifecycle!Next]_(Lifecycle!vars)
  <2>1. slot[s].job \in Jobs /\ (UNCHANGED job \/ Moved(slot[s].job, "running", "completed"))
    <3>1. Ends(job[slot[s].job], slot[s].token, MarkCompleted(job[slot[s].job], slot[s].token), "completed")
      BY <1>8, EndEffects DEF FinishCompleted, Shape, TypeOK, SlotState
    <3> QED BY <1>8, <3>1, FinalMove DEF FinishCompleted
  <2> QED BY <2>1, MoveLemma, RowsUnchanged DEF Lifecycle!Next, Lifecycle!Complete
<1>9. ASSUME NEW s \in Slots, FinishCancelled(s) PROVE [Lifecycle!Next]_(Lifecycle!vars)
  <2>1. slot[s].job \in Jobs /\ (UNCHANGED job \/ Moved(slot[s].job, "running", "cancelled"))
    <3>1. Ends(job[slot[s].job], slot[s].token, MarkCancelled(job[slot[s].job], slot[s].token), "cancelled")
      BY <1>9, EndEffects DEF FinishCancelled, Shape, TypeOK, SlotState
    <3> QED BY <1>9, <3>1, FinalMove DEF FinishCancelled
  <2> QED BY <2>1, MoveLemma, RowsUnchanged DEF Lifecycle!Next, Lifecycle!Cancel
<1>10. ASSUME NEW s \in Slots, FinishFailed(s) PROVE [Lifecycle!Next]_(Lifecycle!vars)
  <2> DEFINE j == slot[s].job
  <2>1. /\ j \in Jobs
        /\ \/ UNCHANGED job
           \/ job[j].token = slot[s].token /\ Moved(j, "running", "failed")
    <3>1. Ends(job[slot[s].job], slot[s].token, MarkFailed(job[slot[s].job], slot[s].token), "failed")
      BY <1>10, EndEffects DEF FinishFailed, Shape, TypeOK, SlotState
    <3> QED BY <1>10, <3>1, FinalMove DEF FinishFailed
  <2>2. CASE job[j].token = slot[s].token /\ Moved(j, "running", "failed")
    <3>1. slot[s].attempt = job[j].attempts
      BY <1>10, <2>2 DEF FinishFailed, TokenMatchesAttempt
    <3>2. job[j].attempts = MaxTotal \/ j \in Unhandled
      <4>1. job[j].attempts \in Nat /\ job[j].attempts <= MaxTotal
        BY <2>1 DEF AttemptBudget, TypeOK, JobRow
      <4> QED BY <1>10, <3>1, <4>1 DEF FinishFailed
    <3> QED BY <2>1, <2>2, <3>2, LostLemma
  <2> QED BY <2>1, <2>2, RowsUnchanged
<1>11. ASSUME NEW s \in Slots, ScheduleRetry(s) PROVE [Lifecycle!Next]_(Lifecycle!vars)
  <2> DEFINE j == slot[s].job
  <2>1. /\ j \in Jobs
        /\ \/ UNCHANGED job
           \/ job[j].token = slot[s].token /\ Moved(j, "running", "queued")
    <3>1. Ends(job[slot[s].job], slot[s].token, RequeueRunning(job[slot[s].job], slot[s].token), "queued")
      BY <1>11, EndEffects DEF ScheduleRetry, Shape, TypeOK, SlotState
    <3> QED BY <1>11, <3>1, FinalMove DEF ScheduleRetry
  <2>2. CASE job[j].token = slot[s].token /\ Moved(j, "running", "queued")
    <3>1. job[j].attempts < MaxTotal
      BY <1>11, <2>2 DEF ScheduleRetry, TokenMatchesAttempt
    <3> QED BY <2>1, <2>2, <3>1, LostLemma
  <2> QED BY <2>1, <2>2, RowsUnchanged
<1>12. ASSUME NEW s \in Slots,
              \/ \E j \in Jobs : Deliver(s, j)
              \/ LockOwner(s) \/ LockCandidate(s) \/ AckNotQueued(s) \/ Ack(s)
              \/ ObserveCancellation(s) \/ Raise(s)
       PROVE UNCHANGED job
  BY <1>12 DEF Deliver, LockOwner, LockCandidate, AckNotQueued, Ack, ObserveCancellation, Raise
<1>13. ASSUME NEW w \in Workers, CommitRecovered(w) PROVE [Lifecycle!Next]_(Lifecycle!vars)
  <2> DEFINE B == rec[w].batch
             f == [j \in B |-> RecoveredRow(job[j]).status]
  <2>1. B \subseteq Jobs /\ \A j \in B : job[j] \in JobRow /\ job[j].status = "running"
    BY DEF LocksHeld, RecoveryLocks, TypeOK, RecState
  <2>2. \A j \in B : /\ job'[j].attempts = job[j].attempts
                     /\ job'[j].status = RecoveredRow(job[j]).status
                     /\ \/ RecoveredRow(job[j]).status = "failed" /\ job[j].attempts = MaxTotal
                        \/ RecoveredRow(job[j]).status = "queued" /\ job[j].attempts < MaxTotal
    <3> SUFFICES ASSUME NEW j \in B
                 PROVE  /\ job'[j].attempts = job[j].attempts
                        /\ job'[j].status = RecoveredRow(job[j]).status
                        /\ \/ RecoveredRow(job[j]).status = "failed" /\ job[j].attempts = MaxTotal
                           \/ RecoveredRow(job[j]).status = "queued" /\ job[j].attempts < MaxTotal
      OBVIOUS
    <3>1. job'[j] = RecoveredRow(job[j])
      BY <1>13, <2>1 DEF CommitRecovered
    <3>2. job[j].attempts \in Nat /\ job[j].attempts <= MaxTotal
      BY <2>1 DEF AttemptBudget, JobRow
    <3> QED BY <2>1, <3>1, <3>2, RecoverEffect
  <2>3. \A i \in Jobs \ B : job'[i] = job[i]
    BY <1>13 DEF CommitRecovered
  <2>4. CASE B = {}
    <3>1. OthersKept({})
      BY <2>3, <2>4 DEF OthersKept
    <3> QED BY <3>1, StutterLemma
  <2>5. CASE B # {}
    <3>1. f \in [B -> {"queued", "failed"}]
      BY <2>2
    <3>2. /\ [j \in Jobs |-> job'[j].status] = [j \in Jobs |-> IF j \in B THEN f[j] ELSE job[j].status]
          /\ [j \in Jobs |-> job'[j].attempts] = [j \in Jobs |-> job[j].attempts]
      BY <2>1, <2>2, <2>3
    <3>3. /\ \A j \in B : f[j] = "queued" => job[j].attempts < MaxTotal
          /\ \A j \in B : f[j] = "failed" => job[j].attempts = MaxTotal \/ j \in Unhandled
      BY <2>2
    <3> HIDE DEF f, B
    <3>4. PICK S \in SUBSET Jobs : S = B
      BY <2>1
    <3>5. Lifecycle!AttemptLost(S)
      BY <2>1, <2>5, <3>1, <3>2, <3>3, <3>4 DEF Lifecycle!AttemptLost
    <3> QED BY <3>5, BatchIsStep
  <2> QED BY <2>4, <2>5
<1>14. ASSUME NEW w \in Workers, \/ ClaimExpired(w) \/ RecoveryLocksOwner(w) \/ TaskDies(w)
                                 \/ WorkerCrashes(w) \/ ChannelCloses(w)
       PROVE UNCHANGED job
  BY <1>14 DEF ClaimExpired, RecoveryLocksOwner, TaskDies, WorkerCrashes, ChannelCloses
<1>15. CASE UNCHANGED vars
  BY <1>15, RowsUnchanged DEF vars
<1> QED
  BY <1>1, <1>2, <1>3, <1>4, <1>5, <1>6, <1>7, <1>8, <1>9, <1>10, <1>11, <1>12, <1>13, <1>14,
     <1>15, RowsUnchanged
  DEF Next, ApiNext, HandlerNext, HandlerStep, RecoveryNext, RecoveryStep, ProcessNext,
      HandlerRaises, AbortHandler, RecoveryRaises, AbortRecovery, ConnectionLost, AckTimeout

\* The pipeline implements the life cycle: whatever is published twice, redelivered,
\* recovered or lost in a crash, each job is submitted once, moves along the
\* transition table, starts only below its owner's limit and within its budget,
\* and is failed only when the budget is used up or no handler exists.
THEOREM LifecycleImplemented == Spec => ImplementsLifecycle
<1>1. Init => Lifecycle!Init
  BY DEF Init, Lifecycle!Init, NoRow
<1>2. Init => FailBranchUnused
  BY DEF Init, IdleSlot, FailBranchUnused
<1>3. Inductive /\ FailBranchUnused /\ [Next]_vars => FailBranchUnused'
  BY FailBranchStep DEF Inductive
<1>4. Inductive /\ FailBranchUnused /\ [Next]_vars => [Lifecycle!Next]_(Lifecycle!vars)
  BY LifecycleStep
<1> QED BY <1>1, <1>2, <1>3, <1>4, InductiveInvariant, PTL DEF Spec, ImplementsLifecycle, Lifecycle!Spec
=============================================================================
