-------------------------- MODULE JobDispatchProofs --------------------------
(***************************************************************************)
(* Proofs about JobDispatch, for any number of jobs, users, processes,     *)
(* handlers, faults and messages.                                          *)
(***************************************************************************)
EXTENDS JobDispatch, FiniteSetTheorems, TLAPS

\* The retry budget is a positive number of attempts.
LEMMA MaxTotalNat == MaxTotal \in Nat /\ MaxTotal >= 1
BY MaxRetriesAssumption DEF MaxTotal

\* create_dispatch_event and its if-absent variant yield outbox events.
LEMMA NewEventIn == NewEvent({}) \in Events /\ \A ev \in SUBSET Events : IfAbsent(ev) \in SUBSET Events
<1>1. NewEvent({}) \in Events
  BY EventAssumption DEF NewEvent
<1> QED BY <1>1 DEF IfAbsent

\* Every UPDATE statement of the job repository maps rows to rows.
LEMMA RowTypes ==
    ASSUME NEW row \in JobRow, NEW t \in Tokens \cup {NoToken}
    PROVE  /\ CreatePendingJob(row) \in JobRow
           /\ MarkQueued(row) \in JobRow
           /\ MarkRunning(row, t) \in JobRow
           /\ MarkCompleted(row, t) \in JobRow
           /\ MarkFailed(row, t) \in JobRow
           /\ MarkCancelled(row, t) \in JobRow
           /\ RequeueRunning(row, t) \in JobRow
           /\ MarkFailedWithoutExecution(row) \in JobRow
           /\ CancelPendingOrQueued(row) \in JobRow
           /\ RequestRunningCancellation(row) \in JobRow
           /\ RecoveredRow(row) \in JobRow
<1> USE DEF JobRow, JobStatus, LeaveRunning, Owns
<1>1. CreatePendingJob(row) \in JobRow  BY DEF CreatePendingJob
<1>2. MarkQueued(row) \in JobRow  BY DEF MarkQueued
<1>3. MarkRunning(row, t) \in JobRow
  <2>1. row.attempts + 1 \in Nat  OBVIOUS
  <2> QED BY <2>1, Zenon DEF MarkRunning
<1>4. MarkCompleted(row, t) \in JobRow  BY DEF MarkCompleted
<1>5. MarkFailed(row, t) \in JobRow  BY DEF MarkFailed
<1>6. MarkCancelled(row, t) \in JobRow  BY DEF MarkCancelled
<1>7. RequeueRunning(row, t) \in JobRow  BY DEF RequeueRunning
<1>8. MarkFailedWithoutExecution(row) \in JobRow  BY DEF MarkFailedWithoutExecution
<1>9. CancelPendingOrQueued(row) \in JobRow  BY DEF CancelPendingOrQueued
<1>10. RequestRunningCancellation(row) \in JobRow  BY DEF RequestRunningCancellation
<1>11. RecoveredRow(row) \in JobRow  BY DEF RecoveredRow, MarkFailed, RequeueRunning
<1> QED BY <1>1, <1>2, <1>3, <1>4, <1>5, <1>6, <1>7, <1>8, <1>9, <1>10, <1>11

\* The empty database and the idle processes are well typed.
LEMMA TypeInit == Init => TypeOK
BY DEF Init, TypeOK, NoRow, IdleSlot, IdlePub, IdleRec, JobRow, SlotState, PubState,
       RecState, JobStatus, Txns

\* Ending transactions leaves every lock held by a transaction or free.
LEMMA ReleasedType ==
    ASSUME NEW D, NEW T, NEW lock \in [D -> Txns \cup {NoTxn}]
    PROVE  Released(lock, T) \in [D -> Txns \cup {NoTxn}]
BY DEF Released

\* Every step of API, publisher, handler, recovery or process is well typed.
LEMMA TypeStep ==
    ASSUME TypeOK, Shape, [Next]_vars
    PROVE  TypeOK'
<1> USE DEF TypeOK
<1>1. ASSUME NEW j \in Jobs, CreateJob(j) PROVE TypeOK'
  BY <1>1, RowTypes, NewEventIn DEF CreateJob, LocksUnchanged, CreatePendingJob
<1>2. ASSUME NEW j \in Jobs, CancelJob(j) PROVE TypeOK'
  BY <1>2, RowTypes DEF CancelJob, LocksUnchanged
<1>3. ASSUME NEW j \in Jobs, LeaseExpires(j) PROVE TypeOK'
  BY <1>3 DEF LeaseExpires, LocksUnchanged, JobRow
<1>4. ASSUME NEW p \in Publishers, NEW j \in Jobs, NEW e \in Events, LockEvent(p, j, e) PROVE TypeOK'
  BY <1>4 DEF LockEvent, LocksUnchanged, PubState
<1>5. ASSUME NEW p \in Publishers, PublisherLocksJob(p) PROVE TypeOK'
  BY <1>5 DEF PublisherLocksJob, PubState, Txns
<1>6. ASSUME NEW p \in Publishers, DiscardEvent(p) PROVE TypeOK'
  BY <1>6 DEF DiscardEvent, LocksUnchanged, PubState, IdlePub
<1>7. ASSUME NEW p \in Publishers, PublishDispatch(p) PROVE TypeOK'
  <2>1. ready' \in [Jobs -> Nat]
    BY <1>7 DEF PublishDispatch, Shape
  <2>2. pub' \in [Publishers -> PubState]
    BY <1>7 DEF PublishDispatch, PubState
  <2> QED BY <1>7, <2>1, <2>2 DEF PublishDispatch, LocksUnchanged
<1>8. ASSUME NEW p \in Publishers, CommitPublished(p) PROVE TypeOK'
  BY <1>8, RowTypes, ReleasedType DEF CommitPublished, EndTxns, PubState, IdlePub
<1>9. ASSUME NEW p \in Publishers, PublisherAborts(p) PROVE TypeOK'
  BY <1>9, ReleasedType DEF PublisherAborts, EndTxns, Fault, PubState, IdlePub
<1>10. ASSUME NEW s \in Slots, NEW j \in Jobs, Deliver(s, j) PROVE TypeOK'
  <2>1. ready' \in [Jobs -> Nat]
    BY <1>10 DEF Deliver
  <2>2. slot' \in [Slots -> SlotState]
    BY <1>10, Zenon DEF Deliver, SlotState, IdleSlot
  <2> QED BY <1>10, <2>1, <2>2 DEF Deliver, LocksUnchanged
<1>11. ASSUME NEW s \in Slots, LockOwner(s) PROVE TypeOK'
  BY <1>11 DEF LockOwner, SlotState, Txns
<1>12. ASSUME NEW s \in Slots, LockCandidate(s) PROVE TypeOK'
  <2>1. ClaimVerdict(slot[s].job) \in {"fail", "defer", "run"}
    BY DEF ClaimVerdict
  <2>2. slot' \in [Slots -> SlotState]
    BY <1>12, <2>1 DEF LockCandidate, SlotState
  <2>3. jobLock' \in [Jobs -> Txns \cup {NoTxn}]
    BY <1>12 DEF LockCandidate, Txns
  <2> QED BY <1>12, <2>2, <2>3 DEF LockCandidate
<1>13. ASSUME NEW s \in Slots, AckNotQueued(s) PROVE TypeOK'
  BY <1>13, ReleasedType DEF AckNotQueued, EndTxns, SlotState, IdleSlot
<1>14. ASSUME NEW s \in Slots, CommitRunning(s) PROVE TypeOK'
  <2> DEFINE t == CHOOSE x \in FreshTokens : TRUE
             j == slot[s].job
  <2>1. t \in Tokens
    BY <1>14 DEF CommitRunning, FreshTokens
  <2>2. job' \in [Jobs -> JobRow]
    BY <1>14, <2>1, RowTypes DEF CommitRunning
  <2>3. j \in Jobs
    BY <1>14 DEF CommitRunning, Shape
  <2>4. job[j].attempts + 1 \in Nat
    BY <2>3 DEF JobRow
  <2>5. slot' \in [Slots -> SlotState]
    <3>1. slot' = [slot EXCEPT ![s] = [@ EXCEPT !.pc = "exec", !.token = t,
                                                !.attempt = job[j].attempts + 1]]
      BY <1>14 DEF CommitRunning
    <3>2. [slot[s] EXCEPT !.pc = "exec", !.token = t, !.attempt = job[j].attempts + 1] \in SlotState
      BY <2>1, <2>4, Zenon DEF SlotState
    <3> QED BY <3>1, <3>2
  <2> QED BY <1>14, <2>2, <2>5, ReleasedType DEF CommitRunning, EndTxns
<1>15. ASSUME NEW s \in Slots, CommitNotRunning(s) PROVE TypeOK'
  <2>1. job' \in [Jobs -> JobRow]
    BY <1>15, RowTypes DEF CommitNotRunning
  <2>2. outbox' \in [Jobs -> SUBSET Events]
    BY <1>15, NewEventIn DEF CommitNotRunning
  <2>3. slot' \in [Slots -> SlotState]
    BY <1>15 DEF CommitNotRunning, SlotState
  <2> QED BY <1>15, <2>1, <2>2, <2>3, ReleasedType DEF CommitNotRunning, EndTxns
<1>16. ASSUME NEW s \in Slots, ObserveCancellation(s) PROVE TypeOK'
  BY <1>16 DEF ObserveCancellation, LocksUnchanged, SlotState
<1>17. ASSUME NEW s \in Slots, FinishCompleted(s) PROVE TypeOK'
  BY <1>17, RowTypes DEF FinishCompleted, Finalise, LocksUnchanged, SlotState
<1>18. ASSUME NEW s \in Slots, FinishCancelled(s) PROVE TypeOK'
  BY <1>18, RowTypes DEF FinishCancelled, Finalise, LocksUnchanged, SlotState
<1>19. ASSUME NEW s \in Slots, FinishFailed(s) PROVE TypeOK'
  BY <1>19, RowTypes DEF FinishFailed, Finalise, LocksUnchanged, SlotState
<1>20. ASSUME NEW s \in Slots, ScheduleRetry(s) PROVE TypeOK'
  BY <1>20, RowTypes, NewEventIn DEF ScheduleRetry, Finalise, LocksUnchanged, SlotState
<1>21. ASSUME NEW s \in Slots, Ack(s) PROVE TypeOK'
  BY <1>21 DEF Ack, LocksUnchanged, SlotState, IdleSlot
<1>22. ASSUME NEW s \in Slots, Raise(s), faults' \in Nat PROVE TypeOK'
  BY <1>22, ReleasedType DEF Raise, EndTxns, SlotState, IdleSlot
<1>23. ASSUME NEW w \in Workers, ClaimExpired(w) PROVE TypeOK'
  <2>1. PICK B \in SUBSET Stale :
            /\ jobLock' = [j \in Jobs |-> IF j \in B THEN w ELSE jobLock[j]]
            /\ \E first \in B :
                  rec' = [rec EXCEPT ![w] = [pc |-> "batch", batch |-> B, todo |-> B, cur |-> first]]
    BY <1>23 DEF ClaimExpired
  <2>2. B \subseteq Jobs
    BY DEF Stale
  <2>3. rec' \in [Workers -> RecState]
    BY <2>1, <2>2 DEF RecState
  <2>4. jobLock' \in [Jobs -> Txns \cup {NoTxn}]
    BY <2>1 DEF Txns
  <2> QED BY <1>23, <2>3, <2>4 DEF ClaimExpired
<1>24. ASSUME NEW w \in Workers, RecoveryLocksOwner(w) PROVE TypeOK'
  BY <1>24 DEF RecoveryLocksOwner, RecState, Txns
<1>25. ASSUME NEW w \in Workers, CommitRecovered(w) PROVE TypeOK'
  BY <1>25, RowTypes, NewEventIn, ReleasedType DEF CommitRecovered, EndTxns, RecState, IdleRec
<1>26. ASSUME NEW w \in Workers, TaskDies(w), faults' \in Nat PROVE TypeOK'
  BY <1>26, ReleasedType DEF TaskDies, EndTxns, RecState, IdleRec, DeadRec
<1>27. ASSUME NEW w \in Workers PROVE Redelivered(w) \in [Jobs -> Nat]
  <2>1. ASSUME NEW j \in Jobs PROVE Cardinality({s \in HeldBy(w) : slot[s].job = j}) \in Nat
    BY TxnAssumption, FS_Subset, FS_CardinalityType DEF HeldBy
  <2> QED BY <2>1 DEF Redelivered
<1>28. ASSUME NEW w \in Workers, WorkerCrashes(w) PROVE TypeOK'
  <2>1. slot' \in [Slots -> SlotState]
    BY <1>28 DEF WorkerCrashes, SlotState, IdleSlot
  <2>2. rec' \in [Workers -> RecState]
    BY <1>28 DEF WorkerCrashes, RecState, IdleRec
  <2>3. faults' \in Nat
    BY <1>28 DEF WorkerCrashes, Fault
  <2> QED BY <1>27, <1>28, <2>1, <2>2, <2>3, ReleasedType DEF WorkerCrashes, EndTxns
<1>29. ASSUME NEW w \in Workers, ChannelCloses(w), faults' \in Nat PROVE TypeOK'
  BY <1>27, <1>29 DEF ChannelCloses, LocksUnchanged, SlotState, IdleSlot
<1>30. CASE UNCHANGED vars
  BY <1>30 DEF vars
<1> QED
  BY <1>1, <1>2, <1>3, <1>4, <1>5, <1>6, <1>7, <1>8, <1>9, <1>10, <1>11, <1>12, <1>13, <1>14,
     <1>15, <1>16, <1>17, <1>18, <1>19, <1>20, <1>21, <1>22, <1>23, <1>24, <1>25, <1>26,
     <1>28, <1>29, <1>30
  DEF Next, ApiNext, PublisherNext, PublisherStep, HandlerNext, HandlerStep, RecoveryNext,
      RecoveryStep, ProcessNext, HandlerRaises, AbortHandler, RecoveryRaises, AbortRecovery,
      ConnectionLost, AckTimeout, Fault

-----------------------------------------------------------------------------
(* What the statements and the lock operations do to the fields that matter. *)

\* What creation, enqueueing and the two cancellation statements change.
LEMMA RowEffects ==
    ASSUME NEW row \in JobRow, NEW t \in Tokens \cup {NoToken}
    PROVE  /\ CreatePendingJob(row).status = "pending"
           /\ CreatePendingJob(row).attempts = row.attempts
           /\ CreatePendingJob(row).token = row.token
           /\ row.status = "pending" => MarkQueued(row).status = "queued"
           /\ row.status # "pending" => MarkQueued(row).status = row.status
           /\ MarkQueued(row).attempts = row.attempts
           /\ MarkQueued(row).token = row.token
           /\ CancelPendingOrQueued(row).attempts = row.attempts
           /\ row.status \in {"pending", "queued"} =>
                 /\ CancelPendingOrQueued(row).status = "cancelled"
                 /\ CancelPendingOrQueued(row).token = NoToken
           /\ RequestRunningCancellation(row).status = row.status
           /\ RequestRunningCancellation(row).attempts = row.attempts
           /\ RequestRunningCancellation(row).token = row.token
<1> USE DEF JobRow, LeaveRunning
<1>1. /\ CreatePendingJob(row).status = "pending"
      /\ CreatePendingJob(row).attempts = row.attempts
      /\ CreatePendingJob(row).token = row.token
  BY DEF CreatePendingJob
<1>2. /\ row.status = "pending" => MarkQueued(row).status = "queued"
      /\ row.status # "pending" => MarkQueued(row).status = row.status
      /\ MarkQueued(row).attempts = row.attempts
      /\ MarkQueued(row).token = row.token
  BY DEF MarkQueued
<1>3. /\ CancelPendingOrQueued(row).attempts = row.attempts
      /\ row.status \in {"pending", "queued"} =>
                 /\ CancelPendingOrQueued(row).status = "cancelled"
                 /\ CancelPendingOrQueued(row).token = NoToken
  BY DEF CancelPendingOrQueued
<1>4. /\ RequestRunningCancellation(row).status = row.status
      /\ RequestRunningCancellation(row).attempts = row.attempts
      /\ RequestRunningCancellation(row).token = row.token
  BY DEF RequestRunningCancellation
<1> QED BY <1>1, <1>2, <1>3, <1>4

\* What mark_running changes.
LEMMA StartEffect ==
    ASSUME NEW row \in JobRow, NEW t \in Tokens, row.status = "queued"
    PROVE  /\ MarkRunning(row, t).status = "running"
           /\ MarkRunning(row, t).attempts = row.attempts + 1
           /\ MarkRunning(row, t).token = t
BY DEF MarkRunning, JobRow

\* What mark_failed_without_execution changes.
LEMMA FailEffect ==
    ASSUME NEW row \in JobRow
    PROVE  /\ MarkFailedWithoutExecution(row).attempts = row.attempts
           /\ row.status = "queued" => MarkFailedWithoutExecution(row).status = "failed"
           /\ \/ MarkFailedWithoutExecution(row) = row
              \/ /\ MarkFailedWithoutExecution(row).status = "failed"
                 /\ MarkFailedWithoutExecution(row).token = NoToken
BY DEF MarkFailedWithoutExecution, LeaveRunning, JobRow

\* Every statement that ends an execution either leaves the row alone or moves it
\* out of "running" and clears the token, and it moves it only if the row is
\* running with the given token.
Ends(row, t, new, s) ==
    \/ ~Owns(row, t) /\ new = row
    \/ Owns(row, t) /\ new.status = s /\ new.attempts = row.attempts /\ new.token = NoToken

\* The four statements guarded by the execution token, in that form.
LEMMA EndEffects ==
    ASSUME NEW row \in JobRow, NEW t \in Tokens \cup {NoToken}
    PROVE  /\ Ends(row, t, MarkCompleted(row, t), "completed")
           /\ Ends(row, t, MarkFailed(row, t), "failed")
           /\ Ends(row, t, MarkCancelled(row, t), "cancelled")
           /\ Ends(row, t, RequeueRunning(row, t), "queued")
<1> USE DEF Ends, JobRow, LeaveRunning
<1>1. Ends(row, t, MarkCompleted(row, t), "completed")  BY DEF MarkCompleted
<1>2. Ends(row, t, MarkFailed(row, t), "failed")  BY DEF MarkFailed
<1>3. Ends(row, t, MarkCancelled(row, t), "cancelled")  BY DEF MarkCancelled
<1>4. Ends(row, t, RequeueRunning(row, t), "queued")  BY DEF RequeueRunning
<1> QED BY <1>1, <1>2, <1>3, <1>4

\* Recovery requeues a stale job exactly while an attempt is left, else fails it.
LEMMA RecoverEffect ==
    ASSUME NEW row \in JobRow, row.status = "running"
    PROVE  /\ RecoveredRow(row).attempts = row.attempts
           /\ RecoveredRow(row).token = NoToken
           /\ \/ RecoveredRow(row).status = "failed" /\ row.attempts + 1 > MaxTotal
              \/ RecoveredRow(row).status = "queued" /\ row.attempts + 1 <= MaxTotal
<1>1. Owns(row, row.token) /\ row.token \in Tokens \cup {NoToken} /\ row.attempts \in Nat
  BY DEF Owns, JobRow
<1> QED BY <1>1, EndEffects, MaxTotalNat DEF RecoveredRow, Ends

\* One lock after the end of the transactions T.
LEMMA ReleasedEffect ==
    ASSUME NEW D, NEW T, NEW lock \in [D -> Txns \cup {NoTxn}], NEW r \in D
    PROVE  Released(lock, T)[r] = IF lock[r] \in T THEN NoTxn ELSE lock[r]
BY DEF Released

\* Ending the transactions T frees no lock of any other transaction.
Keeps(T) ==
    /\ \A u \in Users : userLock[u] \notin T => userLock'[u] = userLock[u]
    /\ \A j \in Jobs : jobLock[j] \notin T => jobLock'[j] = jobLock[j]

\* A commit or rollback frees only its own locks.
LEMMA EndTxnsEffect ==
    ASSUME TypeOK, NEW T, EndTxns(T)
    PROVE  Keeps(T)
BY ReleasedEffect DEF TypeOK, EndTxns, Keeps

\* A handler that only moves on.
Moves(s, c) ==
    /\ slot'[s].pc = c
    /\ slot'[s].job = slot[s].job
    /\ slot'[s].token = slot[s].token
    /\ slot'[s].attempt = slot[s].attempt
    /\ slot'[s].held = slot[s].held
    /\ \A r \in Slots : r # s => slot'[r] = slot[r]

\* A step that only changes a handler's pc is of that form.
LEMMA MovesLemma ==
    ASSUME slot \in [Slots -> SlotState], NEW s \in Slots, NEW c,
           slot' = [slot EXCEPT ![s].pc = c]
    PROVE  Moves(s, c)
BY DEF Moves, SlotState

-----------------------------------------------------------------------------
(* Locks and who holds them. *)

\* What the commit of a claim does.
ClaimCommits(s, j) ==
    /\ slot[s].job = j /\ j \in Jobs /\ jobLock[j] = s /\ userLock[Owner[j]] = s
    /\ job[j].status = "queued" /\ job'[j].status = "running"
    /\ job'[j].attempts = job[j].attempts + 1
    /\ job'[j].token = slot'[s].token
    /\ \A i \in Jobs : i # j => job'[i] = job[i]
    /\ slot[s].pc = "run" /\ slot'[s].pc = "exec" /\ slot'[s].job = j
    /\ slot'[s].attempt = job[j].attempts + 1
    /\ slot'[s].token \in FreshTokens /\ slot'[s].token \in Tokens
    /\ UNCHANGED <<outbox, ready, pub, rec>>
    /\ \A r \in Slots : r # s => slot'[r] = slot[r]

\* The commit of a claim is of that form.
LEMMA ClaimCommitsLemma ==
    ASSUME TypeOK, Shape, HandlerLocks, NEW s \in Slots, CommitRunning(s)
    PROVE  ClaimCommits(s, slot[s].job)
<1> DEFINE t == CHOOSE x \in FreshTokens : TRUE
           j == slot[s].job
<1>1. t \in FreshTokens /\ t \in Tokens
  BY DEF CommitRunning, FreshTokens
<1>2. slot[s].pc = "run"
  BY DEF CommitRunning
<1>3. j \in Jobs /\ job[j] \in JobRow /\ job[j].status = "queued"
      /\ jobLock[j] = s /\ userLock[Owner[j]] = s
  BY <1>2 DEF TypeOK, Shape, HandlerLocks, Claiming
<1>4. job' = [job EXCEPT ![j] = MarkRunning(job[j], t)]
  BY DEF CommitRunning
<1>5. /\ slot'[s].pc = "exec" /\ slot'[s].job = j /\ slot'[s].token = t
      /\ slot'[s].attempt = job[j].attempts + 1
      /\ \A r \in Slots : r # s => slot'[r] = slot[r]
  BY Zenon DEF CommitRunning, TypeOK, SlotState
<1> HIDE DEF t, j
<1>6. /\ job'[j] = MarkRunning(job[j], t)
      /\ \A i \in Jobs : i # j => job'[i] = job[i]
  BY <1>3, <1>4 DEF TypeOK
<1>7. job'[j].status = "running" /\ job'[j].attempts = job[j].attempts + 1 /\ job'[j].token = t
  BY <1>1, <1>3, <1>6, StartEffect
<1>8. UNCHANGED <<outbox, ready, pub, rec>>
  BY DEF CommitRunning
<1> QED BY <1>1, <1>2, <1>3, <1>5, <1>6, <1>7, <1>8 DEF ClaimCommits, j

Locking == Shape /\ LocksHeld /\ OnePublisherPerJob /\ AtMostOneUnpublished

\* Every step keeps the locks with the transactions that read under them, and
\* with them the uniqueness of the unpublished event.
LEMMA LockingStep ==
    ASSUME Inductive, TypeOK', [Next]_vars
    PROVE  Locking'
<1> SUFFICES ASSUME TypeOK, Shape, LocksHeld, OnePublisherPerJob, AtMostOneUnpublished,
                    SubmittedOnce
             PROVE  Locking'
  BY DEF Inductive
<1> USE JobsAssumption, TxnAssumption DEF Claiming, Txns, LocksHeld
<1>1. ASSUME NEW j \in Jobs, CreateJob(j) PROVE Locking'
  <2>1. Shape'
    BY <1>1, RowEffects, RowTypes, NewEventIn DEF TypeOK, Shape, SubmittedOnce, CreateJob, LocksUnchanged
  <2>2. HandlerLocks'
    BY <1>1, RowEffects, RowTypes, NewEventIn DEF TypeOK, Shape, HandlerLocks, PublisherLocks, RecoveryLocks, CreateJob, LocksUnchanged
  <2>3. PublisherLocks'
    BY <1>1, RowEffects, RowTypes, NewEventIn DEF TypeOK, Shape, PublisherLocks, HandlerLocks, RecoveryLocks, CreateJob, LocksUnchanged
  <2>4. RecoveryLocks'
    BY <1>1, RowEffects, RowTypes, NewEventIn DEF TypeOK, RecState, Shape, RecoveryLocks, HandlerLocks, PublisherLocks, CreateJob, LocksUnchanged
  <2>5. AtMostOneUnpublished'
    BY <1>1, RowEffects, RowTypes, NewEventIn DEF TypeOK, Shape, AtMostOneUnpublished, CreateJob, LocksUnchanged
  <2>6. OnePublisherPerJob'
    BY <1>1 DEF OnePublisherPerJob, CreateJob, LocksUnchanged
  <2> QED BY <2>1, <2>2, <2>3, <2>4, <2>5, <2>6 DEF Locking
<1>2. ASSUME NEW j \in Jobs, CancelJob(j) PROVE Locking'
  <2>1. HandlerLocks'
    BY <1>2, RowEffects, RowTypes DEF TypeOK, Shape, HandlerLocks, PublisherLocks, RecoveryLocks, CancelJob, LocksUnchanged, Free
  <2>2. PublisherLocks'
    BY <1>2, RowEffects, RowTypes DEF TypeOK, Shape, PublisherLocks, HandlerLocks, RecoveryLocks, CancelJob, LocksUnchanged, Free
  <2>3. RecoveryLocks'
    BY <1>2, RowEffects, RowTypes DEF TypeOK, RecState, Shape, RecoveryLocks, HandlerLocks, PublisherLocks, CancelJob, LocksUnchanged, Free
  <2>4. Shape' /\ OnePublisherPerJob' /\ AtMostOneUnpublished'
    BY <1>2 DEF Shape, OnePublisherPerJob, AtMostOneUnpublished, CancelJob, LocksUnchanged
  <2> QED BY <2>1, <2>2, <2>3, <2>4 DEF Locking
<1>3. ASSUME NEW j \in Jobs, LeaseExpires(j) PROVE Locking'
  <2>1. HandlerLocks'
    BY <1>3 DEF TypeOK, Shape, HandlerLocks, PublisherLocks, RecoveryLocks, LeaseExpires, LocksUnchanged, JobRow
  <2>2. PublisherLocks'
    BY <1>3 DEF TypeOK, Shape, PublisherLocks, HandlerLocks, RecoveryLocks, LeaseExpires, LocksUnchanged, JobRow
  <2>3. RecoveryLocks'
    BY <1>3 DEF TypeOK, RecState, Shape, RecoveryLocks, HandlerLocks, PublisherLocks, LeaseExpires, LocksUnchanged, JobRow
  <2>4. Shape' /\ OnePublisherPerJob' /\ AtMostOneUnpublished'
    BY <1>3 DEF Shape, OnePublisherPerJob, AtMostOneUnpublished, LeaseExpires, LocksUnchanged
  <2> QED BY <2>1, <2>2, <2>3, <2>4 DEF Locking
<1>4. ASSUME NEW p \in Publishers, NEW j \in Jobs, NEW e \in Events, LockEvent(p, j, e) PROVE Locking'
  <2>1. Shape'
    BY <1>4 DEF TypeOK, Shape, LockEvent, EventLocked, LocksUnchanged
  <2>2. PublisherLocks'
    BY <1>4 DEF TypeOK, Shape, PublisherLocks, LockEvent, EventLocked, LocksUnchanged
  <2>3. OnePublisherPerJob'
    BY <1>4 DEF TypeOK, Shape, OnePublisherPerJob, AtMostOneUnpublished, LockEvent, EventLocked, LocksUnchanged
  <2>4. HandlerLocks' /\ RecoveryLocks' /\ AtMostOneUnpublished'
    BY <1>4 DEF HandlerLocks, RecoveryLocks, AtMostOneUnpublished, LockEvent, LocksUnchanged
  <2> QED BY <2>1, <2>2, <2>3, <2>4 DEF Locking
<1>5. ASSUME NEW p \in Publishers, PublisherLocksJob(p) PROVE Locking'
  <2>1. Shape'
    BY <1>5 DEF TypeOK, Shape, HandlerLocks, PublisherLocks, RecoveryLocks, PublisherLocksJob, Free, PubState
  <2>2. HandlerLocks'
    BY <1>5 DEF TypeOK, Shape, HandlerLocks, PublisherLocks, RecoveryLocks, PublisherLocksJob, Free, PubState
  <2>3. PublisherLocks'
    BY <1>5 DEF TypeOK, Shape, PublisherLocks, HandlerLocks, RecoveryLocks, PublisherLocksJob, Free, PubState
  <2>4. RecoveryLocks'
    BY <1>5 DEF TypeOK, RecState, Shape, RecoveryLocks, HandlerLocks, PublisherLocks, PublisherLocksJob, Free, PubState
  <2>5. OnePublisherPerJob'
    BY <1>5 DEF TypeOK, Shape, OnePublisherPerJob, HandlerLocks, PublisherLocks, RecoveryLocks, PublisherLocksJob, Free, PubState
  <2>6. AtMostOneUnpublished'
    BY <1>5 DEF AtMostOneUnpublished, PublisherLocksJob
  <2> QED BY <2>1, <2>2, <2>3, <2>4, <2>5, <2>6 DEF Locking
<1>6. ASSUME NEW p \in Publishers, DiscardEvent(p) PROVE Locking'
  <2>1. Shape'
    BY <1>6 DEF TypeOK, Shape, OnePublisherPerJob, DiscardEvent, Free, LocksUnchanged, IdlePub
  <2>2. PublisherLocks'
    BY <1>6 DEF TypeOK, Shape, PublisherLocks, DiscardEvent, Free, LocksUnchanged, IdlePub
  <2>3. OnePublisherPerJob'
    BY <1>6 DEF TypeOK, Shape, OnePublisherPerJob, DiscardEvent, Free, LocksUnchanged, IdlePub
  <2>4. AtMostOneUnpublished'
    BY <1>6 DEF TypeOK, Shape, AtMostOneUnpublished, DiscardEvent, Free, LocksUnchanged, IdlePub
  <2>5. HandlerLocks' /\ RecoveryLocks'
    BY <1>6 DEF HandlerLocks, RecoveryLocks, DiscardEvent, LocksUnchanged
  <2> QED BY <2>1, <2>2, <2>3, <2>4, <2>5 DEF Locking
<1>7. ASSUME NEW p \in Publishers, PublishDispatch(p) PROVE Locking'
  <2>1. Shape'
    BY <1>7 DEF TypeOK, Shape, PublishDispatch, LocksUnchanged, PubState
  <2>2. PublisherLocks'
    BY <1>7 DEF TypeOK, Shape, PublisherLocks, PublishDispatch, LocksUnchanged, PubState
  <2>3. OnePublisherPerJob'
    BY <1>7 DEF TypeOK, Shape, OnePublisherPerJob, PublishDispatch, LocksUnchanged, PubState
  <2>4. HandlerLocks' /\ RecoveryLocks' /\ AtMostOneUnpublished'
    BY <1>7 DEF HandlerLocks, RecoveryLocks, AtMostOneUnpublished, PublishDispatch, LocksUnchanged
  <2> QED BY <2>1, <2>2, <2>3, <2>4 DEF Locking
<1>8. ASSUME NEW p \in Publishers, CommitPublished(p) PROVE Locking'
  <2>0. Keeps({p})
    BY <1>8, EndTxnsEffect DEF CommitPublished
  <2>1. Shape'
    BY <1>8 DEF TypeOK, Shape, OnePublisherPerJob, CommitPublished, IdlePub
  <2>2. HandlerLocks'
    BY <1>8, <2>0, RowEffects, RowTypes DEF TypeOK, Shape, HandlerLocks, PublisherLocks, RecoveryLocks, Keeps, CommitPublished, IdlePub
  <2>3. PublisherLocks'
    BY <1>8, <2>0, RowEffects, RowTypes DEF TypeOK, Shape, PublisherLocks, HandlerLocks, RecoveryLocks, Keeps, CommitPublished, IdlePub
  <2>4. RecoveryLocks'
    BY <1>8, <2>0, RowEffects, RowTypes DEF TypeOK, RecState, Shape, RecoveryLocks, HandlerLocks, PublisherLocks, Keeps, CommitPublished, IdlePub
  <2>5. OnePublisherPerJob'
    BY <1>8 DEF TypeOK, Shape, OnePublisherPerJob, CommitPublished, IdlePub
  <2>6. AtMostOneUnpublished'
    BY <1>8 DEF TypeOK, Shape, AtMostOneUnpublished, CommitPublished, IdlePub
  <2> QED BY <2>1, <2>2, <2>3, <2>4, <2>5, <2>6 DEF Locking
<1>9. ASSUME NEW p \in Publishers, PublisherAborts(p) PROVE Locking'
  <2>0. Keeps({p})
    BY <1>9, EndTxnsEffect DEF PublisherAborts
  <2>1. Shape'
    BY <1>9 DEF TypeOK, Shape, PublisherAborts, IdlePub
  <2>2. HandlerLocks'
    BY <1>9, <2>0 DEF TypeOK, Shape, HandlerLocks, Keeps, PublisherAborts, IdlePub
  <2>3. PublisherLocks'
    BY <1>9, <2>0 DEF TypeOK, Shape, PublisherLocks, Keeps, PublisherAborts, IdlePub
  <2>4. RecoveryLocks'
    BY <1>9, <2>0 DEF TypeOK, RecState, Shape, RecoveryLocks, Keeps, PublisherAborts, IdlePub
  <2>5. OnePublisherPerJob'
    BY <1>9 DEF TypeOK, Shape, OnePublisherPerJob, PublisherAborts, IdlePub
  <2>6. AtMostOneUnpublished'
    BY <1>9 DEF AtMostOneUnpublished, PublisherAborts
  <2> QED BY <2>1, <2>2, <2>3, <2>4, <2>5, <2>6 DEF Locking
<1>10. ASSUME NEW s \in Slots, NEW j \in Jobs, Deliver(s, j) PROVE Locking'
  <2>1. Shape'
    BY <1>10 DEF TypeOK, Shape, Deliver, LocksUnchanged, IdleSlot
  <2>2. HandlerLocks'
    BY <1>10 DEF TypeOK, Shape, HandlerLocks, Deliver, LocksUnchanged, IdleSlot
  <2>3. PublisherLocks' /\ RecoveryLocks' /\ OnePublisherPerJob' /\ AtMostOneUnpublished'
    BY <1>10 DEF PublisherLocks, RecoveryLocks, OnePublisherPerJob, AtMostOneUnpublished, Deliver, LocksUnchanged
  <2> QED BY <2>1, <2>2, <2>3 DEF Locking
<1>11. ASSUME NEW s \in Slots, LockOwner(s) PROVE Locking'
  <2>m. Moves(s, "job")
    BY <1>11, MovesLemma DEF LockOwner, TypeOK
  <2>1. Shape'
    BY <1>11, <2>m DEF TypeOK, Shape, HandlerLocks, PublisherLocks, RecoveryLocks, Moves, LockOwner, Free
  <2>2. HandlerLocks'
    BY <1>11, <2>m DEF TypeOK, Shape, HandlerLocks, PublisherLocks, RecoveryLocks, Moves, LockOwner, Free
  <2>3. PublisherLocks' /\ RecoveryLocks' /\ OnePublisherPerJob' /\ AtMostOneUnpublished'
    BY <1>11 DEF PublisherLocks, RecoveryLocks, OnePublisherPerJob, AtMostOneUnpublished, LockOwner
  <2> QED BY <2>1, <2>2, <2>3 DEF Locking
<1>12. ASSUME NEW s \in Slots, LockCandidate(s) PROVE Locking'
  <2>m. Moves(s, ClaimVerdict(slot[s].job))
    BY <1>12, MovesLemma DEF LockCandidate, TypeOK
  <2>1. Shape'
    BY <1>12, <2>m DEF TypeOK, Shape, HandlerLocks, PublisherLocks, RecoveryLocks, Moves, LockCandidate, Free, ClaimVerdict
  <2>2. HandlerLocks'
    BY <1>12, <2>m DEF TypeOK, Shape, HandlerLocks, PublisherLocks, RecoveryLocks, Moves, LockCandidate, Free, ClaimVerdict
  <2>3. PublisherLocks'
    BY <1>12 DEF TypeOK, Shape, PublisherLocks, HandlerLocks, RecoveryLocks, LockCandidate, Free, ClaimVerdict
  <2>4. RecoveryLocks'
    BY <1>12 DEF TypeOK, RecState, Shape, RecoveryLocks, HandlerLocks, PublisherLocks, LockCandidate, Free, ClaimVerdict
  <2>5. OnePublisherPerJob' /\ AtMostOneUnpublished'
    BY <1>12 DEF OnePublisherPerJob, AtMostOneUnpublished, LockCandidate
  <2> QED BY <2>1, <2>2, <2>3, <2>4, <2>5 DEF Locking
<1>13. ASSUME NEW s \in Slots, AckNotQueued(s) PROVE Locking'
  <2>0. Keeps({s})
    BY <1>13, EndTxnsEffect DEF AckNotQueued
  <2>1. Shape'
    BY <1>13 DEF TypeOK, Shape, AckNotQueued, IdleSlot
  <2>2. HandlerLocks'
    BY <1>13, <2>0 DEF TypeOK, Shape, HandlerLocks, Keeps, AckNotQueued, IdleSlot
  <2>3. PublisherLocks'
    BY <1>13, <2>0 DEF TypeOK, Shape, PublisherLocks, Keeps, AckNotQueued, IdleSlot
  <2>4. RecoveryLocks'
    BY <1>13, <2>0 DEF TypeOK, RecState, Shape, RecoveryLocks, Keeps, AckNotQueued, IdleSlot
  <2>5. OnePublisherPerJob' /\ AtMostOneUnpublished'
    BY <1>13 DEF OnePublisherPerJob, AtMostOneUnpublished, AckNotQueued
  <2> QED BY <2>1, <2>2, <2>3, <2>4, <2>5 DEF Locking
<1>14. ASSUME NEW s \in Slots, CommitRunning(s) PROVE Locking'
  <2>0. Keeps({s})
    BY <1>14, EndTxnsEffect DEF CommitRunning
  <2>1. PICK j : ClaimCommits(s, j)
    BY <1>14, ClaimCommitsLemma
  <2>4. Shape'
    BY <2>1 DEF Shape, ClaimCommits
  <2>5. HandlerLocks'
    <3>1. ASSUME NEW r \in Slots, slot'[r].pc \in Claiming \cup {"job"}
          PROVE  r # s /\ slot'[r] = slot[r] /\ slot[r].job \in Jobs /\ Owner[slot[r].job] \in Users
      BY <2>1, <3>1 DEF Shape, ClaimCommits
    <3> QED BY <2>0, <2>1, <3>1 DEF HandlerLocks, Keeps, ClaimCommits
  <2>6. PublisherLocks'
    BY <2>0, <2>1 DEF TypeOK, Shape, PublisherLocks, Keeps, ClaimCommits
  <2>7. RecoveryLocks'
    <3>1. ASSUME NEW w \in Workers, NEW i \in rec[w].batch
          PROVE  i \in Jobs /\ i # j /\ w # s /\ jobLock[i] = w
      BY <2>1 DEF TypeOK, RecState, RecoveryLocks, ClaimCommits
    <3> QED BY <2>0, <2>1, <3>1 DEF RecoveryLocks, Keeps, ClaimCommits
  <2>8. OnePublisherPerJob' /\ AtMostOneUnpublished'
    BY <1>14 DEF OnePublisherPerJob, AtMostOneUnpublished, CommitRunning
  <2> QED BY <2>4, <2>5, <2>6, <2>7, <2>8 DEF Locking
<1>15. ASSUME NEW s \in Slots, CommitNotRunning(s) PROVE Locking'
  <2>0. Keeps({s})
    BY <1>15, EndTxnsEffect DEF CommitNotRunning
  <2>m. Moves(s, "ack")
    BY <1>15, MovesLemma DEF CommitNotRunning, TypeOK
  <2>1. Shape'
    BY <1>15, <2>m DEF TypeOK, Shape, Moves, CommitNotRunning, IfAbsent, MarkFailedWithoutExecution
  <2>2. HandlerLocks'
    BY <1>15, <2>0, <2>m DEF TypeOK, Shape, HandlerLocks, PublisherLocks, RecoveryLocks, Keeps, Moves, CommitNotRunning, IfAbsent, MarkFailedWithoutExecution
  <2>3. PublisherLocks'
    BY <1>15, <2>0 DEF TypeOK, Shape, PublisherLocks, HandlerLocks, RecoveryLocks, Keeps, CommitNotRunning, IfAbsent, MarkFailedWithoutExecution
  <2>4. RecoveryLocks'
    BY <1>15, <2>0 DEF TypeOK, RecState, Shape, RecoveryLocks, HandlerLocks, PublisherLocks, Keeps, CommitNotRunning, IfAbsent, MarkFailedWithoutExecution
  <2>5. AtMostOneUnpublished'
    BY <1>15 DEF TypeOK, Shape, AtMostOneUnpublished, CommitNotRunning, IfAbsent, MarkFailedWithoutExecution
  <2>6. OnePublisherPerJob'
    BY <1>15 DEF OnePublisherPerJob, CommitNotRunning
  <2> QED BY <2>1, <2>2, <2>3, <2>4, <2>5, <2>6 DEF Locking
<1>16. ASSUME NEW s \in Slots, ObserveCancellation(s) PROVE Locking'
  <2>m. Moves(s, "cancel")
    BY <1>16, MovesLemma DEF ObserveCancellation, TypeOK
  <2>1. Shape'
    BY <1>16, <2>m DEF TypeOK, Shape, Moves, ObserveCancellation, LocksUnchanged
  <2>2. HandlerLocks'
    BY <1>16, <2>m DEF TypeOK, Shape, HandlerLocks, Moves, ObserveCancellation, LocksUnchanged
  <2>3. PublisherLocks' /\ RecoveryLocks' /\ OnePublisherPerJob' /\ AtMostOneUnpublished'
    BY <1>16 DEF PublisherLocks, RecoveryLocks, OnePublisherPerJob, AtMostOneUnpublished, ObserveCancellation, LocksUnchanged
  <2> QED BY <2>1, <2>2, <2>3 DEF Locking
<1>17. ASSUME NEW s \in Slots, FinishCompleted(s) PROVE Locking'
  <2>m. Moves(s, "ack")
    BY <1>17, MovesLemma DEF FinishCompleted, Finalise, TypeOK
  <2>1. Shape'
    BY <1>17, <2>m DEF TypeOK, Shape, Moves, FinishCompleted, Finalise, LocksUnchanged, Ends, Free
  <2>2. HandlerLocks'
    BY <1>17, <2>m, EndEffects DEF TypeOK, Shape, HandlerLocks, PublisherLocks, RecoveryLocks, Moves, FinishCompleted, Finalise, LocksUnchanged, Ends, Free
  <2>3. PublisherLocks'
    BY <1>17, EndEffects DEF TypeOK, Shape, PublisherLocks, HandlerLocks, RecoveryLocks, FinishCompleted, Finalise, LocksUnchanged, Ends, Free
  <2>4. RecoveryLocks'
    BY <1>17, EndEffects DEF TypeOK, RecState, Shape, RecoveryLocks, HandlerLocks, PublisherLocks, FinishCompleted, Finalise, LocksUnchanged, Ends, Free
  <2>5. OnePublisherPerJob' /\ AtMostOneUnpublished'
    BY <1>17 DEF OnePublisherPerJob, AtMostOneUnpublished, FinishCompleted, Finalise, LocksUnchanged
  <2> QED BY <2>1, <2>2, <2>3, <2>4, <2>5 DEF Locking
<1>18. ASSUME NEW s \in Slots, FinishCancelled(s) PROVE Locking'
  <2>m. Moves(s, "ack")
    BY <1>18, MovesLemma DEF FinishCancelled, Finalise, TypeOK
  <2>1. Shape'
    BY <1>18, <2>m DEF TypeOK, Shape, Moves, FinishCancelled, Finalise, LocksUnchanged, Ends, Free
  <2>2. HandlerLocks'
    BY <1>18, <2>m, EndEffects DEF TypeOK, Shape, HandlerLocks, PublisherLocks, RecoveryLocks, Moves, FinishCancelled, Finalise, LocksUnchanged, Ends, Free
  <2>3. PublisherLocks'
    BY <1>18, EndEffects DEF TypeOK, Shape, PublisherLocks, HandlerLocks, RecoveryLocks, FinishCancelled, Finalise, LocksUnchanged, Ends, Free
  <2>4. RecoveryLocks'
    BY <1>18, EndEffects DEF TypeOK, RecState, Shape, RecoveryLocks, HandlerLocks, PublisherLocks, FinishCancelled, Finalise, LocksUnchanged, Ends, Free
  <2>5. OnePublisherPerJob' /\ AtMostOneUnpublished'
    BY <1>18 DEF OnePublisherPerJob, AtMostOneUnpublished, FinishCancelled, Finalise, LocksUnchanged
  <2> QED BY <2>1, <2>2, <2>3, <2>4, <2>5 DEF Locking
<1>19. ASSUME NEW s \in Slots, FinishFailed(s) PROVE Locking'
  <2>m. Moves(s, "ack")
    BY <1>19, MovesLemma DEF FinishFailed, Finalise, TypeOK
  <2>1. Shape'
    BY <1>19, <2>m DEF TypeOK, Shape, Moves, FinishFailed, Finalise, LocksUnchanged, Ends, Free
  <2>2. HandlerLocks'
    BY <1>19, <2>m, EndEffects DEF TypeOK, Shape, HandlerLocks, PublisherLocks, RecoveryLocks, Moves, FinishFailed, Finalise, LocksUnchanged, Ends, Free
  <2>3. PublisherLocks'
    BY <1>19, EndEffects DEF TypeOK, Shape, PublisherLocks, HandlerLocks, RecoveryLocks, FinishFailed, Finalise, LocksUnchanged, Ends, Free
  <2>4. RecoveryLocks'
    BY <1>19, EndEffects DEF TypeOK, RecState, Shape, RecoveryLocks, HandlerLocks, PublisherLocks, FinishFailed, Finalise, LocksUnchanged, Ends, Free
  <2>5. OnePublisherPerJob' /\ AtMostOneUnpublished'
    BY <1>19 DEF OnePublisherPerJob, AtMostOneUnpublished, FinishFailed, Finalise, LocksUnchanged
  <2> QED BY <2>1, <2>2, <2>3, <2>4, <2>5 DEF Locking
<1>20. ASSUME NEW s \in Slots, ScheduleRetry(s) PROVE Locking'
  <2>m. Moves(s, "ack")
    BY <1>20, MovesLemma DEF ScheduleRetry, Finalise, TypeOK
  <2>1. Shape'
    BY <1>20, <2>m, EndEffects DEF TypeOK, Shape, Moves, ScheduleRetry, Finalise, LocksUnchanged, Ends, Free, IfAbsent
  <2>2. HandlerLocks'
    BY <1>20, <2>m, EndEffects DEF TypeOK, Shape, HandlerLocks, PublisherLocks, RecoveryLocks, Moves, ScheduleRetry, Finalise, LocksUnchanged, Ends, Free, IfAbsent
  <2>3. PublisherLocks'
    BY <1>20, EndEffects DEF TypeOK, Shape, PublisherLocks, HandlerLocks, RecoveryLocks, ScheduleRetry, Finalise, LocksUnchanged, Ends, Free, IfAbsent
  <2>4. RecoveryLocks'
    BY <1>20, EndEffects DEF TypeOK, RecState, Shape, RecoveryLocks, HandlerLocks, PublisherLocks, ScheduleRetry, Finalise, LocksUnchanged, Ends, Free, IfAbsent
  <2>5. AtMostOneUnpublished'
    BY <1>20, EndEffects DEF TypeOK, Shape, AtMostOneUnpublished, ScheduleRetry, Finalise, LocksUnchanged, Ends, Free, IfAbsent
  <2>6. OnePublisherPerJob'
    BY <1>20 DEF OnePublisherPerJob, ScheduleRetry, Finalise, LocksUnchanged
  <2> QED BY <2>1, <2>2, <2>3, <2>4, <2>5, <2>6 DEF Locking
<1>21. ASSUME NEW s \in Slots, Ack(s) PROVE Locking'
  <2>1. Shape'
    BY <1>21 DEF TypeOK, Shape, Ack, LocksUnchanged, IdleSlot
  <2>2. HandlerLocks'
    BY <1>21 DEF TypeOK, Shape, HandlerLocks, Ack, LocksUnchanged, IdleSlot
  <2>3. PublisherLocks' /\ RecoveryLocks' /\ OnePublisherPerJob' /\ AtMostOneUnpublished'
    BY <1>21 DEF PublisherLocks, RecoveryLocks, OnePublisherPerJob, AtMostOneUnpublished, Ack, LocksUnchanged
  <2> QED BY <2>1, <2>2, <2>3 DEF Locking
<1>22. ASSUME NEW s \in Slots, Raise(s) PROVE Locking'
  <2>0. Keeps({s})
    BY <1>22, EndTxnsEffect DEF Raise
  <2>1. Shape'
    <3>1. /\ \A r \in Slots : r # s => slot'[r] = slot[r]
          /\ slot[s].held => slot'[s].pc = "unacked" /\ slot'[s].job = slot[s].job
          /\ ~slot[s].held => slot'[s].pc = "idle" /\ ~slot'[s].held
      BY <1>22, Zenon DEF TypeOK, SlotState, Raise, IdleSlot
    <3> QED BY <1>22, <3>1 DEF Raise, Shape
  <2>2. HandlerLocks'
    BY <1>22, <2>0 DEF TypeOK, Shape, HandlerLocks, Keeps, Raise, IdleSlot
  <2>3. PublisherLocks'
    BY <1>22, <2>0 DEF TypeOK, Shape, PublisherLocks, Keeps, Raise, IdleSlot
  <2>4. RecoveryLocks'
    BY <1>22, <2>0 DEF TypeOK, RecState, Shape, RecoveryLocks, Keeps, Raise, IdleSlot
  <2>5. OnePublisherPerJob' /\ AtMostOneUnpublished'
    BY <1>22 DEF OnePublisherPerJob, AtMostOneUnpublished, Raise
  <2> QED BY <2>1, <2>2, <2>3, <2>4, <2>5 DEF Locking
<1>23. ASSUME NEW w \in Workers, ClaimExpired(w) PROVE Locking'
  <2>1. Shape'
    BY <1>23 DEF TypeOK, Shape, HandlerLocks, PublisherLocks, RecoveryLocks, ClaimExpired, Stale, Free
  <2>2. HandlerLocks'
    BY <1>23 DEF TypeOK, Shape, HandlerLocks, PublisherLocks, RecoveryLocks, ClaimExpired, Stale, Free
  <2>3. PublisherLocks'
    BY <1>23 DEF TypeOK, Shape, PublisherLocks, HandlerLocks, RecoveryLocks, ClaimExpired, Stale, Free
  <2>4. RecoveryLocks'
    BY <1>23 DEF TypeOK, RecState, Shape, RecoveryLocks, HandlerLocks, PublisherLocks, ClaimExpired, Stale, Free
  <2>5. OnePublisherPerJob' /\ AtMostOneUnpublished'
    BY <1>23 DEF OnePublisherPerJob, AtMostOneUnpublished, ClaimExpired
  <2> QED BY <2>1, <2>2, <2>3, <2>4, <2>5 DEF Locking
<1>24. ASSUME NEW w \in Workers, RecoveryLocksOwner(w) PROVE Locking'
  <2>1. Shape'
    BY <1>24 DEF TypeOK, Shape, RecoveryLocksOwner, RecState
  <2>2. HandlerLocks'
    BY <1>24 DEF TypeOK, Shape, HandlerLocks, RecoveryLocksOwner, RecState
  <2>3. RecoveryLocks'
    BY <1>24 DEF TypeOK, RecState, Shape, RecoveryLocks, RecoveryLocksOwner, RecState
  <2>4. PublisherLocks' /\ OnePublisherPerJob' /\ AtMostOneUnpublished'
    BY <1>24 DEF PublisherLocks, OnePublisherPerJob, AtMostOneUnpublished, RecoveryLocksOwner
  <2> QED BY <2>1, <2>2, <2>3, <2>4 DEF Locking
<1>25. ASSUME NEW w \in Workers, CommitRecovered(w) PROVE Locking'
  <2>0. Keeps({w})
    BY <1>25, EndTxnsEffect DEF CommitRecovered
  <2>1. Shape'
    BY <1>25, RecoverEffect DEF TypeOK, Shape, CommitRecovered, IdleRec, IfAbsent
  <2>2. HandlerLocks'
    BY <1>25, <2>0, RecoverEffect DEF TypeOK, Shape, HandlerLocks, PublisherLocks, RecoveryLocks, Keeps, CommitRecovered, IdleRec, IfAbsent
  <2>3. PublisherLocks'
    BY <1>25, <2>0, RecoverEffect DEF TypeOK, Shape, PublisherLocks, HandlerLocks, RecoveryLocks, Keeps, CommitRecovered, IdleRec, IfAbsent
  <2>4. RecoveryLocks'
    BY <1>25, <2>0, RecoverEffect DEF TypeOK, RecState, Shape, RecoveryLocks, HandlerLocks, PublisherLocks, Keeps, CommitRecovered, IdleRec, IfAbsent
  <2>5. AtMostOneUnpublished'
    BY <1>25, RecoverEffect DEF TypeOK, Shape, AtMostOneUnpublished, CommitRecovered, IdleRec, IfAbsent
  <2>6. OnePublisherPerJob'
    BY <1>25 DEF OnePublisherPerJob, CommitRecovered
  <2> QED BY <2>1, <2>2, <2>3, <2>4, <2>5, <2>6 DEF Locking
<1>26. ASSUME NEW w \in Workers, TaskDies(w) PROVE Locking'
  <2>0. Keeps({w})
    BY <1>26, EndTxnsEffect DEF TaskDies
  <2>1. Shape'
    BY <1>26 DEF TypeOK, Shape, TaskDies, IdleRec, DeadRec
  <2>2. HandlerLocks'
    BY <1>26, <2>0 DEF TypeOK, Shape, HandlerLocks, Keeps, TaskDies, IdleRec, DeadRec
  <2>3. PublisherLocks'
    BY <1>26, <2>0 DEF TypeOK, Shape, PublisherLocks, Keeps, TaskDies, IdleRec, DeadRec
  <2>4. RecoveryLocks'
    BY <1>26, <2>0 DEF TypeOK, RecState, Shape, RecoveryLocks, Keeps, TaskDies, IdleRec, DeadRec
  <2>5. OnePublisherPerJob' /\ AtMostOneUnpublished'
    BY <1>26 DEF OnePublisherPerJob, AtMostOneUnpublished, TaskDies
  <2> QED BY <2>1, <2>2, <2>3, <2>4, <2>5 DEF Locking
<1>27. ASSUME NEW w \in Workers, WorkerCrashes(w) PROVE Locking'
  <2>0. Keeps({w} \cup {s \in Slots : Proc[s] = w})
    BY <1>27, EndTxnsEffect DEF WorkerCrashes
  <2>1. Shape'
    BY <1>27 DEF TypeOK, Shape, WorkerCrashes, IdleSlot, IdleRec
  <2>2. HandlerLocks'
    BY <1>27, <2>0 DEF TypeOK, Shape, HandlerLocks, Keeps, WorkerCrashes, IdleSlot, IdleRec
  <2>3. PublisherLocks'
    BY <1>27, <2>0 DEF TypeOK, Shape, PublisherLocks, Keeps, WorkerCrashes, IdleSlot, IdleRec
  <2>4. RecoveryLocks'
    BY <1>27, <2>0 DEF TypeOK, RecState, Shape, RecoveryLocks, Keeps, WorkerCrashes, IdleSlot, IdleRec
  <2>5. OnePublisherPerJob' /\ AtMostOneUnpublished'
    BY <1>27 DEF OnePublisherPerJob, AtMostOneUnpublished, WorkerCrashes
  <2> QED BY <2>1, <2>2, <2>3, <2>4, <2>5 DEF Locking
<1>28. ASSUME NEW w \in Workers, ChannelCloses(w) PROVE Locking'
  <2>1. Shape'
    BY <1>28 DEF TypeOK, Shape, ChannelCloses, LocksUnchanged, IdleSlot, SlotState
  <2>2. HandlerLocks'
    BY <1>28 DEF TypeOK, Shape, HandlerLocks, ChannelCloses, LocksUnchanged, IdleSlot, SlotState
  <2>3. PublisherLocks' /\ RecoveryLocks' /\ OnePublisherPerJob' /\ AtMostOneUnpublished'
    BY <1>28 DEF PublisherLocks, RecoveryLocks, OnePublisherPerJob, AtMostOneUnpublished, ChannelCloses, LocksUnchanged
  <2> QED BY <2>1, <2>2, <2>3 DEF Locking
<1>29. CASE UNCHANGED vars
  BY <1>29 DEF vars, Locking, Shape, HandlerLocks, PublisherLocks, RecoveryLocks, OnePublisherPerJob, AtMostOneUnpublished
<1> QED
  BY <1>1, <1>2, <1>3, <1>4, <1>5, <1>6, <1>7, <1>8, <1>9, <1>10, <1>11, <1>12, <1>13, <1>14, <1>15, <1>16, <1>17, <1>18, <1>19, <1>20, <1>21, <1>22, <1>23, <1>24, <1>25, <1>26, <1>27, <1>28, <1>29
  DEF Next, ApiNext, PublisherNext, PublisherStep, HandlerNext, HandlerStep, RecoveryNext,
      RecoveryStep, ProcessNext, HandlerRaises, AbortHandler, RecoveryRaises, AbortRecovery,
      ConnectionLost, AckTimeout

-----------------------------------------------------------------------------
(* Attempts and tokens. *)

Budget == SubmittedOnce /\ TokenMatchesAttempt /\ AttemptBudget

\* Every step keeps tokens, attempts and the retry budget in line.
LEMMA BudgetStep ==
    ASSUME Inductive, [Next]_vars
    PROVE  Budget'
<1> SUFFICES ASSUME TypeOK, Shape, LocksHeld, SubmittedOnce, TokenMatchesAttempt, AttemptBudget
             PROVE  Budget'
  BY DEF Inductive
<1> USE MaxTotalNat, TokenAssumption
<1>1. ASSUME NEW j \in Jobs, CreateJob(j) PROVE Budget'
  <2>1. SubmittedOnce'
    BY <1>1, RowEffects DEF TypeOK, Shape, SubmittedOnce, JobRow, CreateJob
  <2>2. TokenMatchesAttempt'
    BY <1>1, RowEffects DEF TypeOK, Shape, TokenMatchesAttempt, JobRow, CreateJob
  <2>3. AttemptBudget'
    BY <1>1, RowEffects DEF TypeOK, SubmittedOnce, AttemptBudget, CreateJob
  <2> QED BY <2>1, <2>2, <2>3 DEF Budget
<1>2. ASSUME NEW j \in Jobs, CancelJob(j) PROVE Budget'
  <2>1. SubmittedOnce'
    BY <1>2, RowEffects DEF TypeOK, Shape, SubmittedOnce, JobRow, CancelJob
  <2>2. TokenMatchesAttempt'
    <3>1. \A i \in Jobs : /\ job'[i].attempts = job[i].attempts
                          /\ job'[i].token \in {job[i].token, NoToken}
      BY <1>2, RowEffects DEF TypeOK, JobRow, CancelJob
    <3> QED BY <1>2, <3>1 DEF CancelJob, Shape, TokenMatchesAttempt
  <2>3. AttemptBudget'
    BY <1>2, RowEffects DEF TypeOK, Shape, AttemptBudget, JobRow, CancelJob
  <2> QED BY <2>1, <2>2, <2>3 DEF Budget
<1>3. ASSUME NEW j \in Jobs, LeaseExpires(j) PROVE Budget'
  <2>1. SubmittedOnce'
    BY <1>3 DEF TypeOK, Shape, SubmittedOnce, JobRow, LeaseExpires
  <2>2. TokenMatchesAttempt'
    BY <1>3 DEF TypeOK, Shape, TokenMatchesAttempt, JobRow, LeaseExpires
  <2>3. AttemptBudget'
    BY <1>3 DEF TypeOK, Shape, AttemptBudget, JobRow, LeaseExpires
  <2> QED BY <2>1, <2>2, <2>3 DEF Budget
<1>4. ASSUME NEW p \in Publishers, NEW j \in Jobs, NEW e \in Events, LockEvent(p, j, e) PROVE Budget'
  BY <1>4 DEF Budget, SubmittedOnce, TokenMatchesAttempt, AttemptBudget, LockEvent
<1>5. ASSUME NEW p \in Publishers, PublisherLocksJob(p) PROVE Budget'
  BY <1>5 DEF Budget, SubmittedOnce, TokenMatchesAttempt, AttemptBudget, PublisherLocksJob
<1>6. ASSUME NEW p \in Publishers, DiscardEvent(p) PROVE Budget'
  <2>1. SubmittedOnce'
    BY <1>6 DEF TypeOK, Shape, SubmittedOnce, LocksHeld, DiscardEvent
  <2>2. TokenMatchesAttempt' /\ AttemptBudget'
    BY <1>6 DEF TokenMatchesAttempt, AttemptBudget, DiscardEvent
  <2> QED BY <2>1, <2>2 DEF Budget
<1>7. ASSUME NEW p \in Publishers, PublishDispatch(p) PROVE Budget'
  BY <1>7 DEF Budget, SubmittedOnce, TokenMatchesAttempt, AttemptBudget, PublishDispatch
<1>8. ASSUME NEW p \in Publishers, CommitPublished(p) PROVE Budget'
  <2>1. SubmittedOnce'
    BY <1>8, RowEffects DEF TypeOK, Shape, SubmittedOnce, LocksHeld, PublisherLocks, JobRow, CommitPublished
  <2>2. TokenMatchesAttempt'
    BY <1>8, RowEffects DEF TypeOK, Shape, TokenMatchesAttempt, LocksHeld, PublisherLocks, JobRow, CommitPublished
  <2>3. AttemptBudget'
    BY <1>8, RowEffects DEF TypeOK, Shape, AttemptBudget, LocksHeld, PublisherLocks, JobRow, CommitPublished
  <2> QED BY <2>1, <2>2, <2>3 DEF Budget
<1>9. ASSUME NEW p \in Publishers, PublisherAborts(p) PROVE Budget'
  BY <1>9 DEF Budget, SubmittedOnce, TokenMatchesAttempt, AttemptBudget, PublisherAborts
<1>10. ASSUME NEW s \in Slots, NEW j \in Jobs, Deliver(s, j) PROVE Budget'
  <2>1. TokenMatchesAttempt'
    BY <1>10 DEF TypeOK, Shape, TokenMatchesAttempt, Deliver, IdleSlot
  <2>2. SubmittedOnce' /\ AttemptBudget'
    BY <1>10 DEF SubmittedOnce, AttemptBudget, Deliver
  <2> QED BY <2>1, <2>2 DEF Budget
<1>11. ASSUME NEW s \in Slots, LockOwner(s) PROVE Budget'
  <2>m. Moves(s, "job")
    BY <1>11, MovesLemma DEF LockOwner, TypeOK
  <2>1. TokenMatchesAttempt'
    BY <1>11, <2>m DEF TypeOK, Shape, TokenMatchesAttempt, Moves, LockOwner
  <2>2. SubmittedOnce' /\ AttemptBudget'
    BY <1>11 DEF SubmittedOnce, AttemptBudget, LockOwner
  <2> QED BY <2>1, <2>2 DEF Budget
<1>12. ASSUME NEW s \in Slots, LockCandidate(s) PROVE Budget'
  <2>m. Moves(s, ClaimVerdict(slot[s].job))
    BY <1>12, MovesLemma DEF LockCandidate, TypeOK
  <2>1. TokenMatchesAttempt'
    BY <1>12, <2>m DEF TypeOK, Shape, TokenMatchesAttempt, Moves, LockCandidate, ClaimVerdict
  <2>2. SubmittedOnce' /\ AttemptBudget'
    BY <1>12 DEF SubmittedOnce, AttemptBudget, LockCandidate
  <2> QED BY <2>1, <2>2 DEF Budget
<1>13. ASSUME NEW s \in Slots, AckNotQueued(s) PROVE Budget'
  <2>1. TokenMatchesAttempt'
    BY <1>13 DEF TypeOK, Shape, TokenMatchesAttempt, AckNotQueued, IdleSlot
  <2>2. SubmittedOnce' /\ AttemptBudget'
    BY <1>13 DEF SubmittedOnce, AttemptBudget, AckNotQueued
  <2> QED BY <2>1, <2>2 DEF Budget
<1>14. ASSUME NEW s \in Slots, CommitRunning(s) PROVE Budget'
  <2>1. PICK j : ClaimCommits(s, j)
    BY <1>14, ClaimCommitsLemma DEF LocksHeld
  <2>2. SubmittedOnce'
    BY <2>1 DEF SubmittedOnce, ClaimCommits
  <2>3. TokenMatchesAttempt'
    BY <2>1 DEF TypeOK, Shape, FreshTokens, TokenMatchesAttempt, ClaimCommits
  <2>4. AttemptBudget'
    BY <2>1 DEF TypeOK, JobRow, AttemptBudget, ClaimCommits
  <2> QED BY <2>2, <2>3, <2>4 DEF Budget
<1>15. ASSUME NEW s \in Slots, CommitNotRunning(s) PROVE Budget'
  <2>m. Moves(s, "ack")
    BY <1>15, MovesLemma DEF CommitNotRunning, TypeOK
  <2>1. SubmittedOnce'
    BY <1>15, FailEffect DEF TypeOK, Shape, SubmittedOnce, LocksHeld, HandlerLocks, Claiming, JobRow, CommitNotRunning, IfAbsent
  <2>2. TokenMatchesAttempt'
    <3>1. \A i \in Jobs : /\ job'[i].attempts = job[i].attempts
                          /\ job'[i].token \in {job[i].token, NoToken}
      BY <1>15, FailEffect DEF TypeOK, JobRow, CommitNotRunning
    <3> QED BY <2>m, <3>1 DEF Moves, Shape, TokenMatchesAttempt
  <2>3. AttemptBudget'
    BY <1>15, FailEffect DEF TypeOK, Shape, AttemptBudget, LocksHeld, HandlerLocks, Claiming, JobRow, CommitNotRunning
  <2> QED BY <2>1, <2>2, <2>3 DEF Budget
<1>16. ASSUME NEW s \in Slots, ObserveCancellation(s) PROVE Budget'
  <2>m. Moves(s, "cancel")
    BY <1>16, MovesLemma DEF ObserveCancellation, TypeOK
  <2>1. TokenMatchesAttempt'
    BY <1>16, <2>m DEF TypeOK, Shape, TokenMatchesAttempt, Moves, ObserveCancellation
  <2>2. SubmittedOnce' /\ AttemptBudget'
    BY <1>16 DEF SubmittedOnce, AttemptBudget, ObserveCancellation
  <2> QED BY <2>1, <2>2 DEF Budget
<1>17. ASSUME NEW s \in Slots, FinishCompleted(s) PROVE Budget'
  <2>m. Moves(s, "ack")
    BY <1>17, MovesLemma DEF FinishCompleted, Finalise, TypeOK
  <2>1. SubmittedOnce'
    BY <1>17, EndEffects DEF TypeOK, Shape, SubmittedOnce, JobRow, Ends, SlotState, FinishCompleted, Finalise
  <2>2. TokenMatchesAttempt'
    <3>1. \A i \in Jobs : /\ job'[i].attempts = job[i].attempts
                          /\ job'[i].token \in {job[i].token, NoToken}
      BY <1>17, EndEffects DEF TypeOK, SlotState, Ends, FinishCompleted, Finalise
    <3> QED BY <2>m, <3>1 DEF Moves, Shape, TokenMatchesAttempt
  <2>3. AttemptBudget'
    BY <1>17, EndEffects DEF TypeOK, Shape, AttemptBudget, JobRow, Ends, SlotState, FinishCompleted, Finalise
  <2> QED BY <2>1, <2>2, <2>3 DEF Budget
<1>18. ASSUME NEW s \in Slots, FinishCancelled(s) PROVE Budget'
  <2>m. Moves(s, "ack")
    BY <1>18, MovesLemma DEF FinishCancelled, Finalise, TypeOK
  <2>1. SubmittedOnce'
    BY <1>18, EndEffects DEF TypeOK, Shape, SubmittedOnce, JobRow, Ends, SlotState, FinishCancelled, Finalise
  <2>2. TokenMatchesAttempt'
    BY <1>18, <2>m, EndEffects DEF TypeOK, Shape, TokenMatchesAttempt, Moves, JobRow, Ends, SlotState, FinishCancelled, Finalise
  <2>3. AttemptBudget'
    BY <1>18, EndEffects DEF TypeOK, Shape, AttemptBudget, JobRow, Ends, SlotState, FinishCancelled, Finalise
  <2> QED BY <2>1, <2>2, <2>3 DEF Budget
<1>19. ASSUME NEW s \in Slots, FinishFailed(s) PROVE Budget'
  <2>m. Moves(s, "ack")
    BY <1>19, MovesLemma DEF FinishFailed, Finalise, TypeOK
  <2>1. SubmittedOnce'
    BY <1>19, EndEffects DEF TypeOK, Shape, SubmittedOnce, JobRow, Ends, SlotState, FinishFailed, Finalise
  <2>2. TokenMatchesAttempt'
    BY <1>19, <2>m, EndEffects DEF TypeOK, Shape, TokenMatchesAttempt, Moves, JobRow, Ends, SlotState, FinishFailed, Finalise
  <2>3. AttemptBudget'
    BY <1>19, EndEffects DEF TypeOK, Shape, AttemptBudget, JobRow, Ends, SlotState, FinishFailed, Finalise
  <2> QED BY <2>1, <2>2, <2>3 DEF Budget
<1>20. ASSUME NEW s \in Slots, ScheduleRetry(s) PROVE Budget'
  <2>m. Moves(s, "ack")
    BY <1>20, MovesLemma DEF ScheduleRetry, Finalise, TypeOK
  <2>1. SubmittedOnce'
    BY <1>20, EndEffects DEF TypeOK, Shape, SubmittedOnce, Owns, JobRow, Ends, SlotState, ScheduleRetry, Finalise, IfAbsent
  <2>2. TokenMatchesAttempt'
    BY <1>20, <2>m, EndEffects DEF TypeOK, Shape, TokenMatchesAttempt, Owns, Moves, JobRow, Ends, SlotState, ScheduleRetry, Finalise
  <2>3. AttemptBudget'
    BY <1>20, EndEffects DEF TypeOK, Shape, AttemptBudget, TokenMatchesAttempt, Owns, JobRow, Ends, SlotState, ScheduleRetry, Finalise
  <2> QED BY <2>1, <2>2, <2>3 DEF Budget
<1>21. ASSUME NEW s \in Slots, Ack(s) PROVE Budget'
  <2>1. TokenMatchesAttempt'
    BY <1>21 DEF TypeOK, Shape, TokenMatchesAttempt, Ack, IdleSlot
  <2>2. SubmittedOnce' /\ AttemptBudget'
    BY <1>21 DEF SubmittedOnce, AttemptBudget, Ack
  <2> QED BY <2>1, <2>2 DEF Budget
<1>22. ASSUME NEW s \in Slots, Raise(s) PROVE Budget'
  <2>1. TokenMatchesAttempt'
    BY <1>22 DEF TypeOK, Shape, TokenMatchesAttempt, Raise, IdleSlot
  <2>2. SubmittedOnce' /\ AttemptBudget'
    BY <1>22 DEF SubmittedOnce, AttemptBudget, Raise
  <2> QED BY <2>1, <2>2 DEF Budget
<1>23. ASSUME NEW w \in Workers, ClaimExpired(w) PROVE Budget'
  BY <1>23 DEF Budget, SubmittedOnce, TokenMatchesAttempt, AttemptBudget, ClaimExpired
<1>24. ASSUME NEW w \in Workers, RecoveryLocksOwner(w) PROVE Budget'
  BY <1>24 DEF Budget, SubmittedOnce, TokenMatchesAttempt, AttemptBudget, RecoveryLocksOwner
<1>25. ASSUME NEW w \in Workers, CommitRecovered(w) PROVE Budget'
  <2>1. SubmittedOnce'
    BY <1>25, RecoverEffect DEF TypeOK, Shape, SubmittedOnce, LocksHeld, RecoveryLocks, RecState, JobRow, CommitRecovered, IfAbsent
  <2>2. TokenMatchesAttempt'
    BY <1>25, RecoverEffect DEF TypeOK, Shape, TokenMatchesAttempt, LocksHeld, RecoveryLocks, RecState, JobRow, CommitRecovered
  <2>3. AttemptBudget'
    BY <1>25, RecoverEffect DEF TypeOK, Shape, AttemptBudget, LocksHeld, RecoveryLocks, RecState, JobRow, CommitRecovered
  <2> QED BY <2>1, <2>2, <2>3 DEF Budget
<1>26. ASSUME NEW w \in Workers, TaskDies(w) PROVE Budget'
  BY <1>26 DEF Budget, SubmittedOnce, TokenMatchesAttempt, AttemptBudget, TaskDies
<1>27. ASSUME NEW w \in Workers, WorkerCrashes(w) PROVE Budget'
  <2>1. TokenMatchesAttempt'
    BY <1>27 DEF TypeOK, Shape, TokenMatchesAttempt, WorkerCrashes, IdleSlot
  <2>2. SubmittedOnce' /\ AttemptBudget'
    BY <1>27 DEF SubmittedOnce, AttemptBudget, WorkerCrashes
  <2> QED BY <2>1, <2>2 DEF Budget
<1>28. ASSUME NEW w \in Workers, ChannelCloses(w) PROVE Budget'
  <2>1. TokenMatchesAttempt'
    BY <1>28 DEF TypeOK, Shape, TokenMatchesAttempt, ChannelCloses, IdleSlot, SlotState
  <2>2. SubmittedOnce' /\ AttemptBudget'
    BY <1>28 DEF SubmittedOnce, AttemptBudget, ChannelCloses
  <2> QED BY <2>1, <2>2 DEF Budget
<1>29. CASE UNCHANGED vars
  BY <1>29 DEF vars, Budget, SubmittedOnce, TokenMatchesAttempt, AttemptBudget
<1> QED
  BY <1>1, <1>2, <1>3, <1>4, <1>5, <1>6, <1>7, <1>8, <1>9, <1>10, <1>11, <1>12, <1>13, <1>14, <1>15, <1>16, <1>17, <1>18, <1>19, <1>20, <1>21, <1>22, <1>23, <1>24, <1>25, <1>26, <1>27, <1>28, <1>29
  DEF Next, ApiNext, PublisherNext, PublisherStep, HandlerNext, HandlerStep, RecoveryNext,
      RecoveryStep, ProcessNext, HandlerRaises, AbortHandler, RecoveryRaises, AbortRecovery,
      ConnectionLost, AckTimeout

-----------------------------------------------------------------------------
(* No dispatch is lost. *)

Dispatch == NoLostDispatch /\ SentIsLive

\* An undecided delivery of job j.
Carries(r, j) == slot[r].job = j /\ slot[r].held /\ slot[r].pc \in Undecided

\* A channel that closes puts every delivery it carried back into the queue.
LEMMA RedeliveredLive ==
    ASSUME TypeOK, NEW w \in Workers, NEW j \in Jobs, LiveMessage(j),
           ready' = Redelivered(w),
           \A r \in Slots : Proc[r] # w => slot'[r] = slot[r]
    PROVE  LiveMessage(j)'
<1> DEFINE S(i) == {s \in HeldBy(w) : slot[s].job = i}
<1>1. ASSUME NEW i \in Jobs PROVE IsFiniteSet(S(i)) /\ Cardinality(S(i)) \in Nat
  BY TxnAssumption, FS_Subset, FS_CardinalityType DEF HeldBy
<1>2. ready'[j] = ready[j] + Cardinality(S(j)) /\ ready[j] \in Nat
  BY DEF Redelivered, TypeOK
<1>3. CASE ready[j] > 0
  BY <1>1, <1>2, <1>3 DEF LiveMessage
<1>4. CASE \E s \in Slots : Carries(s, j)
  <2>1. PICK s \in Slots : Carries(s, j)
    BY <1>4
  <2>2. CASE Proc[s] = w
    <3>1. S(j) # {}
      BY <2>1, <2>2 DEF HeldBy, Carries
    <3>2. Cardinality(S(j)) # 0
      BY <1>1, <3>1, FS_EmptySet
    <3> QED BY <1>1, <1>2, <3>2 DEF LiveMessage
  <2>3. CASE Proc[s] # w
    BY <2>1, <2>3 DEF LiveMessage, Carries
  <2> QED BY <2>2, <2>3
<1> QED BY <1>3, <1>4 DEF LiveMessage, Carries

\* No step strands a pending or queued job.
LEMMA DispatchStep ==
    ASSUME Inductive, TypeOK', [Next]_vars
    PROVE  Dispatch'
<1> SUFFICES ASSUME TypeOK, Shape, LocksHeld, NoLostDispatch, SentIsLive
             PROVE  Dispatch'
  BY DEF Inductive
<1> USE JobsAssumption, TxnAssumption DEF LocksHeld
<1>1. ASSUME NEW j \in Jobs, CreateJob(j) PROVE Dispatch'
  <2>1. \A i \in Jobs : LiveMessage(i) => LiveMessage(i)'
    BY <1>1 DEF LiveMessage, CreateJob
  <2>2. NoLostDispatch'
    BY <1>1, <2>1, RowEffects DEF TypeOK, NoLostDispatch, CreateJob
  <2>3. SentIsLive'
    BY <1>1, <2>1 DEF SentIsLive, CreateJob, Shape
  <2> QED BY <2>2, <2>3 DEF Dispatch
<1>2. ASSUME NEW j \in Jobs, CancelJob(j) PROVE Dispatch'
  <2>1. \A i \in Jobs : LiveMessage(i) => LiveMessage(i)'
    BY <1>2 DEF LiveMessage, CancelJob
  <2>2. NoLostDispatch'
    <3>1. \A i \in Jobs : job'[i].status \in {"pending", "queued"} => job'[i].status = job[i].status
      <4>1. CASE job' = [job EXCEPT ![j] = CancelPendingOrQueued(@)] /\ job[j].status \in {"pending", "queued"}
        BY <4>1, RowEffects DEF TypeOK
      <4>2. CASE job' = [job EXCEPT ![j] = RequestRunningCancellation(@)]
        BY <4>2, RowEffects DEF TypeOK
      <4> QED BY <1>2, <4>1, <4>2 DEF CancelJob
    <3> QED BY <1>2, <2>1, <3>1 DEF NoLostDispatch, CancelJob
  <2>3. SentIsLive'
    BY <1>2, <2>1 DEF SentIsLive, CancelJob, Shape
  <2> QED BY <2>2, <2>3 DEF Dispatch
<1>3. ASSUME NEW j \in Jobs, LeaseExpires(j) PROVE Dispatch'
  <2>1. \A i \in Jobs : LiveMessage(i) => LiveMessage(i)'
    BY <1>3 DEF LiveMessage, LeaseExpires
  <2>2. NoLostDispatch'
    BY <1>3, <2>1 DEF TypeOK, NoLostDispatch, LeaseExpires, JobRow
  <2>3. SentIsLive'
    BY <1>3, <2>1 DEF SentIsLive, LeaseExpires, Shape
  <2> QED BY <2>2, <2>3 DEF Dispatch
<1>4. ASSUME NEW p \in Publishers, NEW j \in Jobs, NEW e \in Events, LockEvent(p, j, e) PROVE Dispatch'
  <2>1. \A i \in Jobs : LiveMessage(i) => LiveMessage(i)'
    BY <1>4 DEF LiveMessage, LockEvent
  <2>2. NoLostDispatch'
    BY <1>4, <2>1 DEF TypeOK, NoLostDispatch, LockEvent
  <2>3. SentIsLive'
    BY <1>4, <2>1 DEF SentIsLive, LockEvent, TypeOK, PubState, Shape
  <2> QED BY <2>2, <2>3 DEF Dispatch
<1>5. ASSUME NEW p \in Publishers, PublisherLocksJob(p) PROVE Dispatch'
  <2>1. \A i \in Jobs : LiveMessage(i) => LiveMessage(i)'
    BY <1>5 DEF LiveMessage, PublisherLocksJob
  <2>2. NoLostDispatch'
    BY <1>5, <2>1 DEF TypeOK, NoLostDispatch, PublisherLocksJob
  <2>3. SentIsLive'
    BY <1>5, <2>1 DEF SentIsLive, PublisherLocksJob, TypeOK, PubState, Shape
  <2> QED BY <2>2, <2>3 DEF Dispatch
<1>6. ASSUME NEW p \in Publishers, DiscardEvent(p) PROVE Dispatch'
  <2>1. \A i \in Jobs : LiveMessage(i) => LiveMessage(i)'
    BY <1>6 DEF LiveMessage, DiscardEvent
  <2>2. NoLostDispatch'
    BY <1>6, <2>1 DEF TypeOK, NoLostDispatch, DiscardEvent, Shape
  <2>3. SentIsLive'
    BY <1>6, <2>1 DEF SentIsLive, DiscardEvent, TypeOK, PubState, Shape, IdlePub
  <2> QED BY <2>2, <2>3 DEF Dispatch
<1>7. ASSUME NEW p \in Publishers, PublishDispatch(p) PROVE Dispatch'
  <2>1. \A i \in Jobs : LiveMessage(i) => LiveMessage(i)'
    BY <1>7 DEF TypeOK, Shape, LiveMessage, PublishDispatch
  <2>2. NoLostDispatch'
    BY <1>7, <2>1 DEF TypeOK, NoLostDispatch, PublishDispatch
  <2>3. SentIsLive'
    BY <1>7, <2>1 DEF SentIsLive, PublishDispatch, TypeOK, PubState, Shape, LiveMessage
  <2> QED BY <2>2, <2>3 DEF Dispatch
<1>8. ASSUME NEW p \in Publishers, CommitPublished(p) PROVE Dispatch'
  <2>1. \A i \in Jobs : LiveMessage(i) => LiveMessage(i)'
    BY <1>8 DEF LiveMessage, CommitPublished
  <2>2. NoLostDispatch'
    <3>0. pub[p].pc = "commit"
      BY <1>8 DEF CommitPublished
    <3>1. PICK j \in Jobs : /\ pub[p].job = j
                            /\ LiveMessage(j)
                            /\ job[j].status \in {"pending", "queued"}
      BY <3>0 DEF Shape, PublisherLocks, SentIsLive
    <3>4. LiveMessage(j)'
      BY <2>1, <3>1
    <3>2. job'[j].status = "queued"
      BY <1>8, <3>1, RowEffects DEF TypeOK, CommitPublished
    <3>3. \A i \in Jobs : i # j => job'[i] = job[i] /\ outbox'[i] = outbox[i]
      BY <1>8, <3>1 DEF TypeOK, CommitPublished
    <3> QED BY <2>1, <3>1, <3>2, <3>3, <3>4 DEF NoLostDispatch
  <2>3. SentIsLive'
    BY <1>8, <2>1 DEF SentIsLive, CommitPublished, TypeOK, PubState, Shape, IdlePub
  <2> QED BY <2>2, <2>3 DEF Dispatch
<1>9. ASSUME NEW p \in Publishers, PublisherAborts(p) PROVE Dispatch'
  <2>1. \A i \in Jobs : LiveMessage(i) => LiveMessage(i)'
    BY <1>9 DEF LiveMessage, PublisherAborts
  <2>2. NoLostDispatch'
    BY <1>9, <2>1 DEF TypeOK, NoLostDispatch, PublisherAborts
  <2>3. SentIsLive'
    BY <1>9, <2>1 DEF SentIsLive, PublisherAborts, TypeOK, PubState, Shape, IdlePub
  <2> QED BY <2>2, <2>3 DEF Dispatch
<1>10. ASSUME NEW s \in Slots, NEW j \in Jobs, Deliver(s, j) PROVE Dispatch'
  <2>1. \A i \in Jobs : LiveMessage(i) => LiveMessage(i)'
    BY <1>10 DEF TypeOK, LiveMessage, Undecided, Deliver, IdleSlot
  <2>2. NoLostDispatch'
    BY <1>10, <2>1 DEF TypeOK, NoLostDispatch, Deliver
  <2>3. SentIsLive'
    BY <1>10, <2>1 DEF SentIsLive, Deliver, Shape
  <2> QED BY <2>2, <2>3 DEF Dispatch
<1>11. ASSUME NEW s \in Slots, LockOwner(s) PROVE Dispatch'
  <2>m. Moves(s, "job")
    BY <1>11, MovesLemma DEF LockOwner, TypeOK
  <2>1. \A i \in Jobs : LiveMessage(i) => LiveMessage(i)'
    BY <1>11, <2>m DEF LiveMessage, Undecided, Moves, LockOwner
  <2>2. NoLostDispatch'
    BY <1>11, <2>1 DEF TypeOK, NoLostDispatch, LockOwner
  <2>3. SentIsLive'
    BY <1>11, <2>1 DEF SentIsLive, LockOwner, Shape
  <2> QED BY <2>2, <2>3 DEF Dispatch
<1>12. ASSUME NEW s \in Slots, LockCandidate(s) PROVE Dispatch'
  <2>m. Moves(s, ClaimVerdict(slot[s].job))
    BY <1>12, MovesLemma DEF LockCandidate, TypeOK
  <2>1. \A i \in Jobs : LiveMessage(i) => LiveMessage(i)'
    BY <1>12, <2>m DEF LiveMessage, Undecided, Moves, LockCandidate, ClaimVerdict
  <2>2. NoLostDispatch'
    BY <1>12, <2>1 DEF TypeOK, NoLostDispatch, LockCandidate
  <2>3. SentIsLive'
    BY <1>12, <2>1 DEF SentIsLive, LockCandidate, Shape
  <2> QED BY <2>2, <2>3 DEF Dispatch
<1>13. ASSUME NEW s \in Slots, AckNotQueued(s) PROVE Dispatch'
  <2>1. \A i \in Jobs : i # slot[s].job /\ LiveMessage(i) => LiveMessage(i)'
    BY <1>13 DEF TypeOK, LiveMessage, Undecided, AckNotQueued, IdleSlot
  <2>2. NoLostDispatch'
    BY <1>13, <2>1 DEF TypeOK, NoLostDispatch, AckNotQueued
  <2>3. SentIsLive'
    BY <1>13, <2>1 DEF SentIsLive, AckNotQueued, Shape, HandlerLocks, PublisherLocks, Claiming, Free, Txns
  <2> QED BY <2>2, <2>3 DEF Dispatch
<1>14. ASSUME NEW s \in Slots, CommitRunning(s) PROVE Dispatch'
  <2>s. PICK j : ClaimCommits(s, j)
    BY <1>14, ClaimCommitsLemma
  <2>1. \A i \in Jobs : i # slot[s].job /\ LiveMessage(i) => LiveMessage(i)'
    BY <2>s DEF LiveMessage, ClaimCommits
  <2>2. NoLostDispatch'
    BY <2>s, <2>1 DEF NoLostDispatch, ClaimCommits
  <2>3. SentIsLive'
    BY <2>s, <2>1 DEF SentIsLive, Shape, PublisherLocks, ClaimCommits
  <2> QED BY <2>2, <2>3 DEF Dispatch
<1>15. ASSUME NEW s \in Slots, CommitNotRunning(s) PROVE Dispatch'
  <2>m. Moves(s, "ack")
    BY <1>15, MovesLemma DEF CommitNotRunning, TypeOK
  <2>1. \A i \in Jobs : i # slot[s].job /\ LiveMessage(i) => LiveMessage(i)'
    BY <1>15, <2>m DEF LiveMessage, Undecided, Moves, CommitNotRunning
  <2>2. NoLostDispatch'
    BY <1>15, <2>1, FailEffect DEF TypeOK, NoLostDispatch, CommitNotRunning, IfAbsent, Shape, HandlerLocks, Claiming
  <2>3. SentIsLive'
    BY <1>15, <2>1 DEF SentIsLive, CommitNotRunning, Shape, HandlerLocks, PublisherLocks, Claiming, Free
  <2> QED BY <2>2, <2>3 DEF Dispatch
<1>16. ASSUME NEW s \in Slots, ObserveCancellation(s) PROVE Dispatch'
  <2>m. Moves(s, "cancel")
    BY <1>16, MovesLemma DEF ObserveCancellation, TypeOK
  <2>1. \A i \in Jobs : LiveMessage(i) => LiveMessage(i)'
    BY <1>16, <2>m DEF LiveMessage, Undecided, Moves, ObserveCancellation
  <2>2. NoLostDispatch'
    BY <1>16, <2>1 DEF TypeOK, NoLostDispatch, ObserveCancellation
  <2>3. SentIsLive'
    BY <1>16, <2>1 DEF SentIsLive, ObserveCancellation, Shape
  <2> QED BY <2>2, <2>3 DEF Dispatch
<1>17. ASSUME NEW s \in Slots, FinishCompleted(s) PROVE Dispatch'
  <2>m. Moves(s, "ack")
    BY <1>17, MovesLemma DEF FinishCompleted, Finalise, TypeOK
  <2>1. \A i \in Jobs : LiveMessage(i) => LiveMessage(i)'
    BY <1>17, <2>m DEF LiveMessage, Undecided, Moves, FinishCompleted, Finalise
  <2>2. NoLostDispatch'
    BY <1>17, <2>1, EndEffects DEF TypeOK, NoLostDispatch, FinishCompleted, Ends, SlotState, Finalise, Owns
  <2>3. SentIsLive'
    BY <1>17, <2>1 DEF SentIsLive, FinishCompleted, Finalise, Shape
  <2> QED BY <2>2, <2>3 DEF Dispatch
<1>18. ASSUME NEW s \in Slots, FinishCancelled(s) PROVE Dispatch'
  <2>m. Moves(s, "ack")
    BY <1>18, MovesLemma DEF FinishCancelled, Finalise, TypeOK
  <2>1. \A i \in Jobs : LiveMessage(i) => LiveMessage(i)'
    BY <1>18, <2>m DEF LiveMessage, Undecided, Moves, FinishCancelled, Finalise
  <2>2. NoLostDispatch'
    BY <1>18, <2>1, EndEffects DEF TypeOK, NoLostDispatch, FinishCancelled, Ends, SlotState, Finalise, Owns
  <2>3. SentIsLive'
    BY <1>18, <2>1 DEF SentIsLive, FinishCancelled, Finalise, Shape
  <2> QED BY <2>2, <2>3 DEF Dispatch
<1>19. ASSUME NEW s \in Slots, FinishFailed(s) PROVE Dispatch'
  <2>m. Moves(s, "ack")
    BY <1>19, MovesLemma DEF FinishFailed, Finalise, TypeOK
  <2>1. \A i \in Jobs : LiveMessage(i) => LiveMessage(i)'
    BY <1>19, <2>m DEF LiveMessage, Undecided, Moves, FinishFailed, Finalise
  <2>2. NoLostDispatch'
    BY <1>19, <2>1, EndEffects DEF TypeOK, NoLostDispatch, FinishFailed, Ends, SlotState, Finalise, Owns
  <2>3. SentIsLive'
    BY <1>19, <2>1 DEF SentIsLive, FinishFailed, Finalise, Shape
  <2> QED BY <2>2, <2>3 DEF Dispatch
<1>20. ASSUME NEW s \in Slots, ScheduleRetry(s) PROVE Dispatch'
  <2>m. Moves(s, "ack")
    BY <1>20, MovesLemma DEF ScheduleRetry, Finalise, TypeOK
  <2>1. \A i \in Jobs : LiveMessage(i) => LiveMessage(i)'
    BY <1>20, <2>m DEF LiveMessage, Undecided, Moves, ScheduleRetry, Finalise
  <2>2. NoLostDispatch'
    <3> DEFINE j == slot[s].job
    <3>1. \A i \in Jobs : i # j => job'[i] = job[i] /\ outbox'[i] = outbox[i]
      BY <1>20 DEF TypeOK, ScheduleRetry, Finalise
    <3>2. j \in Jobs /\ Ends(job[j], slot[s].token, job'[j], "queued")
      BY <1>20, EndEffects DEF TypeOK, Shape, SlotState, ScheduleRetry, Finalise
    <3>3. outbox'[j] = IF Owns(job[j], slot[s].token) THEN IfAbsent(outbox[j]) ELSE outbox[j]
      BY <1>20, <3>2 DEF TypeOK, ScheduleRetry
    <3>4. IfAbsent(outbox[j]) # {}
      BY DEF IfAbsent
    <3> QED BY <2>1, <3>1, <3>2, <3>3, <3>4 DEF NoLostDispatch, Ends
  <2>3. SentIsLive'
    BY <1>20, <2>1 DEF SentIsLive, ScheduleRetry, Finalise, Shape
  <2> QED BY <2>2, <2>3 DEF Dispatch
<1>21. ASSUME NEW s \in Slots, Ack(s) PROVE Dispatch'
  <2>1. \A i \in Jobs : LiveMessage(i) => LiveMessage(i)'
    BY <1>21 DEF TypeOK, LiveMessage, Undecided, Ack, IdleSlot
  <2>2. NoLostDispatch'
    BY <1>21, <2>1 DEF TypeOK, NoLostDispatch, Ack
  <2>3. SentIsLive'
    BY <1>21, <2>1 DEF SentIsLive, Ack, Shape
  <2> QED BY <2>2, <2>3 DEF Dispatch
<1>22. ASSUME NEW s \in Slots, Raise(s) PROVE Dispatch'
  <2>1. \A i \in Jobs : LiveMessage(i) => LiveMessage(i)'
    BY <1>22 DEF TypeOK, SlotState, LiveMessage, Undecided, Raise, IdleSlot
  <2>2. NoLostDispatch'
    BY <1>22, <2>1 DEF TypeOK, NoLostDispatch, Raise
  <2>3. SentIsLive'
    BY <1>22, <2>1 DEF SentIsLive, Raise, Shape
  <2> QED BY <2>2, <2>3 DEF Dispatch
<1>23. ASSUME NEW w \in Workers, ClaimExpired(w) PROVE Dispatch'
  <2>1. \A i \in Jobs : LiveMessage(i) => LiveMessage(i)'
    BY <1>23 DEF LiveMessage, ClaimExpired
  <2>2. NoLostDispatch'
    BY <1>23, <2>1 DEF TypeOK, NoLostDispatch, ClaimExpired
  <2>3. SentIsLive'
    BY <1>23, <2>1 DEF SentIsLive, ClaimExpired, Shape
  <2> QED BY <2>2, <2>3 DEF Dispatch
<1>24. ASSUME NEW w \in Workers, RecoveryLocksOwner(w) PROVE Dispatch'
  <2>1. \A i \in Jobs : LiveMessage(i) => LiveMessage(i)'
    BY <1>24 DEF LiveMessage, RecoveryLocksOwner
  <2>2. NoLostDispatch'
    BY <1>24, <2>1 DEF TypeOK, NoLostDispatch, RecoveryLocksOwner
  <2>3. SentIsLive'
    BY <1>24, <2>1 DEF SentIsLive, RecoveryLocksOwner, Shape
  <2> QED BY <2>2, <2>3 DEF Dispatch
<1>25. ASSUME NEW w \in Workers, CommitRecovered(w) PROVE Dispatch'
  <2>1. \A i \in Jobs : LiveMessage(i) => LiveMessage(i)'
    BY <1>25 DEF LiveMessage, CommitRecovered
  <2>2. NoLostDispatch'
    BY <1>25, <2>1, RecoverEffect DEF TypeOK, NoLostDispatch, CommitRecovered, IfAbsent, RecoveryLocks, RecState
  <2>3. SentIsLive'
    BY <1>25, <2>1 DEF SentIsLive, CommitRecovered, Shape
  <2> QED BY <2>2, <2>3 DEF Dispatch
<1>26. ASSUME NEW w \in Workers, TaskDies(w) PROVE Dispatch'
  <2>1. \A i \in Jobs : LiveMessage(i) => LiveMessage(i)'
    BY <1>26 DEF LiveMessage, TaskDies
  <2>2. NoLostDispatch'
    BY <1>26, <2>1 DEF TypeOK, NoLostDispatch, TaskDies
  <2>3. SentIsLive'
    BY <1>26, <2>1 DEF SentIsLive, TaskDies, Shape
  <2> QED BY <2>2, <2>3 DEF Dispatch
<1>27. ASSUME NEW w \in Workers, WorkerCrashes(w) PROVE Dispatch'
  <2>1. \A i \in Jobs : LiveMessage(i) => LiveMessage(i)'
    BY <1>27, RedeliveredLive DEF TypeOK, WorkerCrashes
  <2>2. NoLostDispatch'
    BY <1>27, <2>1 DEF TypeOK, NoLostDispatch, WorkerCrashes
  <2>3. SentIsLive'
    BY <1>27, <2>1 DEF SentIsLive, WorkerCrashes, Shape
  <2> QED BY <2>2, <2>3 DEF Dispatch
<1>28. ASSUME NEW w \in Workers, ChannelCloses(w) PROVE Dispatch'
  <2>1. \A i \in Jobs : LiveMessage(i) => LiveMessage(i)'
    BY <1>28, RedeliveredLive DEF TypeOK, ChannelCloses
  <2>2. NoLostDispatch'
    BY <1>28, <2>1 DEF TypeOK, NoLostDispatch, ChannelCloses
  <2>3. SentIsLive'
    BY <1>28, <2>1 DEF SentIsLive, ChannelCloses, Shape
  <2> QED BY <2>2, <2>3 DEF Dispatch
<1>29. CASE UNCHANGED vars
  BY <1>29 DEF vars, Dispatch, NoLostDispatch, SentIsLive, LiveMessage
<1> QED
  BY <1>1, <1>2, <1>3, <1>4, <1>5, <1>6, <1>7, <1>8, <1>9, <1>10, <1>11, <1>12, <1>13, <1>14, <1>15, <1>16, <1>17, <1>18, <1>19, <1>20, <1>21, <1>22, <1>23, <1>24, <1>25, <1>26, <1>27, <1>28, <1>29
  DEF Next, ApiNext, PublisherNext, PublisherStep, HandlerNext, HandlerStep, RecoveryNext,
      RecoveryStep, ProcessNext, HandlerRaises, AbortHandler, RecoveryRaises, AbortRecovery,
      ConnectionLost, AckTimeout

-----------------------------------------------------------------------------
(* The running-job limit. *)

Capacity == RoomReserved /\ RunningLimit

NothingStarts ==
    /\ \A i \in Jobs : job'[i].status = "running" => job[i].status = "running"
    /\ \A r \in Slots : slot'[r].pc = "run" => slot[r].pc = "run" /\ slot'[r].job = slot[r].job

\* The running jobs of an owner can be counted.
LEMMA RunningFinite ==
    \A u : IsFiniteSet(RunningOf(u)) /\ Cardinality(RunningOf(u)) \in Nat
BY JobsAssumption, FS_Subset, FS_CardinalityType DEF RunningOf

\* A step that starts no job cannot exceed the limit.
LEMMA CapacityKept ==
    ASSUME Capacity, NothingStarts
    PROVE  Capacity'
<1>1. ASSUME NEW u PROVE /\ Cardinality(RunningOf(u)') <= Cardinality(RunningOf(u))
                         /\ Cardinality(RunningOf(u)) \in Nat
                         /\ Cardinality(RunningOf(u)') \in Nat
  <2>1. RunningOf(u)' \subseteq RunningOf(u)
    BY DEF NothingStarts, RunningOf
  <2> QED BY <2>1, RunningFinite, FS_Subset, FS_CardinalityType
<1> QED BY <1>1, BoundAssumption DEF Capacity, RoomReserved, RunningLimit, NothingStarts

\* Every step keeps the running-job limit: the one that starts a job holds the
\* owner's row since it counted.
LEMMA CapacityStep ==
    ASSUME Inductive, [Next]_vars
    PROVE  Capacity'
<1> SUFFICES ASSUME TypeOK, Shape, LocksHeld, Capacity
             PROVE  Capacity'
  BY DEF Inductive, Capacity
<1> USE JobsAssumption, TxnAssumption
<1>1. ASSUME NEW j \in Jobs, CreateJob(j) PROVE Capacity'
  <2>1. NothingStarts
    BY <1>1, RowEffects DEF TypeOK, NothingStarts, CreateJob
  <2> QED BY <2>1, CapacityKept
<1>2. ASSUME NEW j \in Jobs, CancelJob(j) PROVE Capacity'
  <2>1. NothingStarts
    BY <1>2, RowEffects DEF TypeOK, NothingStarts, CancelJob
  <2> QED BY <2>1, CapacityKept
<1>3. ASSUME NEW j \in Jobs, LeaseExpires(j) PROVE Capacity'
  <2>1. NothingStarts
    BY <1>3 DEF TypeOK, NothingStarts, LeaseExpires, JobRow
  <2> QED BY <2>1, CapacityKept
<1>4. ASSUME NEW p \in Publishers, NEW j \in Jobs, NEW e \in Events, LockEvent(p, j, e) PROVE Capacity'
  <2>1. NothingStarts
    BY <1>4 DEF TypeOK, NothingStarts, LockEvent
  <2> QED BY <2>1, CapacityKept
<1>5. ASSUME NEW p \in Publishers, PublisherLocksJob(p) PROVE Capacity'
  <2>1. NothingStarts
    BY <1>5 DEF TypeOK, NothingStarts, PublisherLocksJob
  <2> QED BY <2>1, CapacityKept
<1>6. ASSUME NEW p \in Publishers, DiscardEvent(p) PROVE Capacity'
  <2>1. NothingStarts
    BY <1>6 DEF TypeOK, NothingStarts, DiscardEvent
  <2> QED BY <2>1, CapacityKept
<1>7. ASSUME NEW p \in Publishers, PublishDispatch(p) PROVE Capacity'
  <2>1. NothingStarts
    BY <1>7 DEF TypeOK, NothingStarts, PublishDispatch
  <2> QED BY <2>1, CapacityKept
<1>8. ASSUME NEW p \in Publishers, CommitPublished(p) PROVE Capacity'
  <2>1. NothingStarts
    BY <1>8, RowEffects DEF TypeOK, NothingStarts, CommitPublished, Shape, LocksHeld, PublisherLocks
  <2> QED BY <2>1, CapacityKept
<1>9. ASSUME NEW p \in Publishers, PublisherAborts(p) PROVE Capacity'
  <2>1. NothingStarts
    BY <1>9 DEF TypeOK, NothingStarts, PublisherAborts
  <2> QED BY <2>1, CapacityKept
<1>10. ASSUME NEW s \in Slots, NEW j \in Jobs, Deliver(s, j) PROVE Capacity'
  <2>1. NothingStarts
    BY <1>10 DEF TypeOK, NothingStarts, Deliver, IdleSlot, SlotState
  <2> QED BY <2>1, CapacityKept
<1>11. ASSUME NEW s \in Slots, LockOwner(s) PROVE Capacity'
  <2>m. Moves(s, "job")
    BY <1>11, MovesLemma DEF LockOwner, TypeOK
  <2>1. NothingStarts
    BY <1>11, <2>m DEF TypeOK, NothingStarts, LockOwner, Moves
  <2> QED BY <2>1, CapacityKept
<1>12. ASSUME NEW s \in Slots, LockCandidate(s) PROVE Capacity'
  <2>1. Moves(s, ClaimVerdict(slot[s].job))
    BY <1>12, MovesLemma DEF LockCandidate, TypeOK
  <2>2. \A u \in Users : RunningOf(u)' = RunningOf(u)
    BY <1>12 DEF LockCandidate, RunningOf
  <2>3. slot'[s].pc = "run" => Cardinality(RunningOf(Owner[slot[s].job])) < MaxRunning
    BY <2>1, RunningFinite, BoundAssumption DEF Moves, ClaimVerdict
  <2>4. \A r \in Slots : slot'[r].pc = "run" => slot'[r].job = slot[r].job /\ slot[r].job \in Jobs
    BY <1>12, <2>1 DEF LockCandidate, Moves, Shape
  <2>5. \A r \in Slots : slot'[r].pc = "run" =>
            Cardinality(RunningOf(Owner[slot[r].job])) < MaxRunning
    BY <2>1, <2>3 DEF Moves, Capacity, RoomReserved
  <2>6. RoomReserved'
    BY <2>2, <2>4, <2>5 DEF RoomReserved
  <2> QED BY <2>2, <2>6 DEF Capacity, RunningLimit
<1>13. ASSUME NEW s \in Slots, AckNotQueued(s) PROVE Capacity'
  <2>1. NothingStarts
    BY <1>13 DEF TypeOK, NothingStarts, AckNotQueued, IdleSlot, SlotState
  <2> QED BY <2>1, CapacityKept
<1>14. ASSUME NEW s \in Slots, CommitRunning(s) PROVE Capacity'
  <2>1. PICK j : ClaimCommits(s, j)
    BY <1>14, ClaimCommitsLemma DEF LocksHeld
  <2>2. RunningOf(Owner[j])' = RunningOf(Owner[j]) \cup {j} /\ j \notin RunningOf(Owner[j])
    BY <2>1 DEF RunningOf, ClaimCommits
  <2>3. \A u \in Users : u # Owner[j] => RunningOf(u)' = RunningOf(u)
    BY <2>1 DEF RunningOf, ClaimCommits
  <2>4. Cardinality(RunningOf(Owner[j])) < MaxRunning
    BY <2>1 DEF Capacity, RoomReserved, ClaimCommits
  <2>5. Cardinality(RunningOf(Owner[j])') = Cardinality(RunningOf(Owner[j])) + 1
    BY <2>2, RunningFinite, FS_AddElement
  <2>6. RunningLimit'
    BY <2>3, <2>4, <2>5, RunningFinite, BoundAssumption DEF Capacity, RunningLimit
  <2>7. ASSUME NEW r \in Slots, slot'[r].pc = "run"
        PROVE  slot'[r] = slot[r] /\ Owner[slot[r].job] \in Users /\ Owner[slot[r].job] # Owner[j]
    BY <2>1, <2>7 DEF LocksHeld, HandlerLocks, Claiming, Shape, ClaimCommits
  <2>8. RoomReserved'
    BY <2>3, <2>7 DEF Capacity, RoomReserved
  <2> QED BY <2>6, <2>8 DEF Capacity
<1>15. ASSUME NEW s \in Slots, CommitNotRunning(s) PROVE Capacity'
  <2>m. Moves(s, "ack")
    BY <1>15, MovesLemma DEF CommitNotRunning, TypeOK
  <2>1. NothingStarts
    BY <1>15, <2>m, FailEffect DEF TypeOK, NothingStarts, CommitNotRunning, Moves, Shape, LocksHeld, HandlerLocks, Claiming
  <2> QED BY <2>1, CapacityKept
<1>16. ASSUME NEW s \in Slots, ObserveCancellation(s) PROVE Capacity'
  <2>m. Moves(s, "cancel")
    BY <1>16, MovesLemma DEF ObserveCancellation, TypeOK
  <2>1. NothingStarts
    BY <1>16, <2>m DEF TypeOK, NothingStarts, ObserveCancellation, Moves
  <2> QED BY <2>1, CapacityKept
<1>17. ASSUME NEW s \in Slots, FinishCompleted(s) PROVE Capacity'
  <2>m. Moves(s, "ack")
    BY <1>17, MovesLemma DEF FinishCompleted, Finalise, TypeOK
  <2>1. NothingStarts
    BY <1>17, <2>m, EndEffects DEF TypeOK, NothingStarts, FinishCompleted, Finalise, Ends, Owns, SlotState, Moves
  <2> QED BY <2>1, CapacityKept
<1>18. ASSUME NEW s \in Slots, FinishCancelled(s) PROVE Capacity'
  <2>m. Moves(s, "ack")
    BY <1>18, MovesLemma DEF FinishCancelled, Finalise, TypeOK
  <2>1. NothingStarts
    BY <1>18, <2>m, EndEffects DEF TypeOK, NothingStarts, FinishCancelled, Finalise, Ends, Owns, SlotState, Moves
  <2> QED BY <2>1, CapacityKept
<1>19. ASSUME NEW s \in Slots, FinishFailed(s) PROVE Capacity'
  <2>m. Moves(s, "ack")
    BY <1>19, MovesLemma DEF FinishFailed, Finalise, TypeOK
  <2>1. NothingStarts
    BY <1>19, <2>m, EndEffects DEF TypeOK, NothingStarts, FinishFailed, Finalise, Ends, Owns, SlotState, Moves
  <2> QED BY <2>1, CapacityKept
<1>20. ASSUME NEW s \in Slots, ScheduleRetry(s) PROVE Capacity'
  <2>m. Moves(s, "ack")
    BY <1>20, MovesLemma DEF ScheduleRetry, Finalise, TypeOK
  <2>1. NothingStarts
    BY <1>20, <2>m, EndEffects DEF TypeOK, NothingStarts, ScheduleRetry, Finalise, Ends, Owns, SlotState, Moves
  <2> QED BY <2>1, CapacityKept
<1>21. ASSUME NEW s \in Slots, Ack(s) PROVE Capacity'
  <2>1. NothingStarts
    BY <1>21 DEF TypeOK, NothingStarts, Ack, IdleSlot, SlotState
  <2> QED BY <2>1, CapacityKept
<1>22. ASSUME NEW s \in Slots, Raise(s) PROVE Capacity'
  <2>1. NothingStarts
    BY <1>22 DEF TypeOK, NothingStarts, Raise, IdleSlot, SlotState
  <2> QED BY <2>1, CapacityKept
<1>23. ASSUME NEW w \in Workers, ClaimExpired(w) PROVE Capacity'
  <2>1. NothingStarts
    BY <1>23 DEF TypeOK, NothingStarts, ClaimExpired
  <2> QED BY <2>1, CapacityKept
<1>24. ASSUME NEW w \in Workers, RecoveryLocksOwner(w) PROVE Capacity'
  <2>1. NothingStarts
    BY <1>24 DEF TypeOK, NothingStarts, RecoveryLocksOwner
  <2> QED BY <2>1, CapacityKept
<1>25. ASSUME NEW w \in Workers, CommitRecovered(w) PROVE Capacity'
  <2>1. NothingStarts
    BY <1>25, RecoverEffect DEF TypeOK, NothingStarts, CommitRecovered, LocksHeld, RecoveryLocks, RecState
  <2> QED BY <2>1, CapacityKept
<1>26. ASSUME NEW w \in Workers, TaskDies(w) PROVE Capacity'
  <2>1. NothingStarts
    BY <1>26 DEF TypeOK, NothingStarts, TaskDies
  <2> QED BY <2>1, CapacityKept
<1>27. ASSUME NEW w \in Workers, WorkerCrashes(w) PROVE Capacity'
  <2>1. NothingStarts
    BY <1>27 DEF TypeOK, NothingStarts, WorkerCrashes, IdleSlot, SlotState
  <2> QED BY <2>1, CapacityKept
<1>28. ASSUME NEW w \in Workers, ChannelCloses(w) PROVE Capacity'
  <2>1. NothingStarts
    BY <1>28 DEF TypeOK, NothingStarts, ChannelCloses, IdleSlot, SlotState
  <2> QED BY <2>1, CapacityKept
<1>29. CASE UNCHANGED vars
  <2>1. NothingStarts
    BY <1>29 DEF vars, NothingStarts
  <2> QED BY <2>1, CapacityKept
<1> QED
  BY <1>1, <1>2, <1>3, <1>4, <1>5, <1>6, <1>7, <1>8, <1>9, <1>10, <1>11, <1>12, <1>13, <1>14, <1>15, <1>16, <1>17, <1>18, <1>19, <1>20, <1>21, <1>22, <1>23, <1>24, <1>25, <1>26, <1>27, <1>28, <1>29
  DEF Next, ApiNext, PublisherNext, PublisherStep, HandlerNext, HandlerStep, RecoveryNext,
      RecoveryStep, ProcessNext, HandlerRaises, AbortHandler, RecoveryRaises, AbortRecovery,
      ConnectionLost, AckTimeout

-----------------------------------------------------------------------------
(* The invariant and what follows from it. *)

\* The invariant holds before the first request.
LEMMA InductiveInit == Init => Inductive
<1> SUFFICES ASSUME Init PROVE Inductive
  OBVIOUS
<1>1. TypeOK
  BY TypeInit
<1>2. Shape /\ LocksHeld /\ OnePublisherPerJob /\ AtMostOneUnpublished
  BY JobsAssumption DEF Init, IdleSlot, IdlePub, IdleRec, Shape, LocksHeld, HandlerLocks,
     PublisherLocks, RecoveryLocks, Claiming, OnePublisherPerJob, AtMostOneUnpublished
<1>3. SubmittedOnce /\ TokenMatchesAttempt /\ AttemptBudget
  BY MaxTotalNat DEF Init, IdleSlot, NoRow, SubmittedOnce, TokenMatchesAttempt, AttemptBudget
<1>4. NoLostDispatch /\ SentIsLive
  BY DEF Init, NoRow, IdlePub, NoLostDispatch, SentIsLive
<1>5. RoomReserved /\ RunningLimit
  <2>1. \A u \in Users : RunningOf(u) = {}
    BY DEF Init, NoRow, RunningOf
  <2>2. Cardinality({}) = 0
    BY FS_EmptySet
  <2>3. RunningLimit
    BY <2>1, <2>2, BoundAssumption DEF RunningLimit
  <2>4. RoomReserved
    BY DEF Init, IdleSlot, RoomReserved
  <2> QED BY <2>3, <2>4
<1> QED BY <1>1, <1>2, <1>3, <1>4, <1>5 DEF Inductive

\* The invariant survives every step.
LEMMA InductiveStep == Inductive /\ [Next]_vars => Inductive'
<1> SUFFICES ASSUME Inductive, [Next]_vars PROVE Inductive'
  OBVIOUS
<1>1. TypeOK'
  BY TypeStep DEF Inductive
<1> QED BY <1>1, LockingStep, BudgetStep, DispatchStep, CapacityStep
        DEF Inductive, Locking, Budget, Dispatch, Capacity

\* The strengthening all safety theorems rest on: locks, tokens, attempts, events,
\* messages and running jobs stay related as Inductive says, in every state the
\* API, the publishers, the workers and the recovery tasks can reach.
THEOREM InductiveInvariant == Spec => []Inductive
BY InductiveInit, InductiveStep, PTL DEF Spec

\* Every reachable state is well typed: no handler, publisher or recovery task
\* leaves its protocol states and every lock is held by a transaction or free.
THEOREM TypeCorrect == Spec => []TypeOK
<1>1. Inductive => TypeOK
  BY DEF Inductive
<1> QED BY <1>1, InductiveInvariant, PTL

\* A pending job always has an unpublished dispatch event, a queued job has one or
\* has a message some handler will still decide on: outbox, publisher, handler and
\* recovery together never strand a job.
THEOREM DispatchNeverLost == Spec => []NoLostDispatch
<1>1. Inductive => NoLostDispatch
  BY DEF Inductive
<1> QED BY <1>1, InductiveInvariant, PTL

\* create_dispatch_event_if_absent never leaves a job with two unpublished events.
THEOREM SingleUnpublishedEvent == Spec => []AtMostOneUnpublished
<1>1. Inductive => AtMostOneUnpublished
  BY DEF Inductive
<1> QED BY <1>1, InductiveInvariant, PTL

\* The owner's running-job limit holds for any number of workers and handlers.
THEOREM CapacityRespected == Spec => []RunningLimit
<1>1. Inductive => RunningLimit
  BY DEF Inductive
<1> QED BY <1>1, InductiveInvariant, PTL

\* No job is started more often than max_retries + 1 (at most 4) times, and no job
\* waits in the queue without an attempt left.
THEOREM BudgetRespected == Spec => []AttemptBudget
<1>1. Inductive => AttemptBudget
  BY DEF Inductive
<1> QED BY <1>1, InductiveInvariant, PTL

\* Only a finaliser of handler s takes s from its execution to its acknowledgement.
Finishes(s) ==
    FinishCompleted(s) \/ FinishCancelled(s) \/ FinishFailed(s) \/ ScheduleRetry(s)

LEMMA FinisherOnly ==
    ASSUME TypeOK, [Next]_vars, NEW s \in Slots,
           slot[s].pc \in {"exec", "cancel"}, slot'[s].pc = "ack"
    PROVE  Finishes(s)
<1>1. slot'[s] # slot[s]
  OBVIOUS
<1>2. CASE ApiNext
  BY <1>1, <1>2 DEF ApiNext, CreateJob, CancelJob, LeaseExpires
<1>3. ASSUME NEW p \in Publishers, PublisherNext(p) PROVE FALSE
  BY <1>1, <1>3 DEF PublisherNext, PublisherStep, LockEvent, PublisherLocksJob, DiscardEvent,
     PublishDispatch, CommitPublished, PublisherAborts
<1>4. ASSUME NEW r \in Slots, HandlerNext(r) PROVE Finishes(s)
  <2>1. ASSUME NEW j \in Jobs, Deliver(r, j) PROVE FALSE
    BY <2>1 DEF TypeOK, Deliver, IdleSlot
  <2>2. CASE LockOwner(r) \/ LockCandidate(r) \/ AckNotQueued(r)
    BY <2>2 DEF TypeOK, SlotState, LockOwner, LockCandidate, AckNotQueued, IdleSlot
  <2>3. CASE CommitRunning(r) \/ CommitNotRunning(r) \/ ObserveCancellation(r)
    BY <2>3 DEF TypeOK, SlotState, CommitRunning, CommitNotRunning, ObserveCancellation
  <2>4. CASE Ack(r)
    BY <2>4 DEF TypeOK, Ack, IdleSlot
  <2>5. CASE Raise(r)
    BY <2>5 DEF TypeOK, Raise, IdleSlot
  <2>6. CASE Finishes(r)
    <3>1. Moves(r, "ack")
      BY <2>6, MovesLemma DEF Finishes, FinishCompleted, FinishCancelled, FinishFailed,
         ScheduleRetry, Finalise, TypeOK
    <3>2. r = s
      BY <3>1, <1>1 DEF Moves
    <3> QED BY <2>6, <3>2
  <2> QED BY <1>4, <2>1, <2>2, <2>3, <2>4, <2>5, <2>6
          DEF HandlerNext, HandlerStep, HandlerRaises, AbortHandler, Finishes
<1>5. ASSUME NEW w \in Workers, RecoveryNext(w) PROVE FALSE
  BY <1>1, <1>5 DEF RecoveryNext, RecoveryStep, ClaimExpired, RecoveryLocksOwner,
     CommitRecovered, RecoveryRaises, AbortRecovery, TaskDies
<1>6. ASSUME NEW w \in Workers, WorkerCrashes(w) PROVE FALSE
  BY <1>6 DEF WorkerCrashes, IdleSlot
<1>7. ASSUME NEW w \in Workers, ChannelCloses(w) PROVE FALSE
  BY <1>7 DEF TypeOK, SlotState, ChannelCloses, IdleSlot
<1>8. CASE UNCHANGED vars
  BY <1>1, <1>8 DEF vars
<1> QED BY <1>2, <1>3, <1>4, <1>5, <1>6, <1>7, <1>8
        DEF Next, ProcessNext, ConnectionLost, AckTimeout

\* Execution-token fencing: whatever is recovered, redelivered or restarted in
\* between, a handler's outcome changes the row only if the row still runs the
\* attempt that handler was started for.
THEOREM StaleOutcomesDropped == Spec => OutcomeOfCurrentAttempt
<1>1. ASSUME Inductive, [Next]_vars, NEW s \in Slots,
             slot[s].pc \in {"exec", "cancel"}, slot'[s].pc = "ack",
             job'[slot[s].job] # job[slot[s].job]
      PROVE  job[slot[s].job].status = "running" /\ job[slot[s].job].attempts = slot[s].attempt
  <2> DEFINE j == slot[s].job
             t == slot[s].token
  <2>1. TypeOK /\ Shape /\ TokenMatchesAttempt
    BY <1>1 DEF Inductive
  <2>2. j \in Jobs /\ t \in Tokens /\ job[j] \in JobRow
    BY <1>1, <2>1 DEF Shape, TypeOK
  <2>3. Finishes(s)
    BY <1>1, <2>1, FinisherOnly
  <2>4. job'[j] \in {MarkCompleted(job[j], t), MarkCancelled(job[j], t),
                     MarkFailed(job[j], t), RequeueRunning(job[j], t)}
    BY <2>1, <2>2, <2>3 DEF Finishes, FinishCompleted, FinishCancelled, FinishFailed,
       ScheduleRetry, Finalise, TypeOK
  <2>5. Owns(job[j], t)
    BY <1>1, <2>2, <2>4, EndEffects DEF Ends
  <2> QED BY <1>1, <2>1, <2>5 DEF Owns, TokenMatchesAttempt
<1>2. Inductive /\ [Next]_vars =>
        [\A s \in Slots :
          LET j == slot[s].job IN
          (/\ slot[s].pc \in {"exec", "cancel"}
           /\ slot'[s].pc = "ack"
           /\ job'[j] # job[j])
          => (job[j].status = "running" /\ job[j].attempts = slot[s].attempt)]_vars
  BY <1>1
<1> QED BY <1>2, InductiveInvariant, PTL DEF Spec, OutcomeOfCurrentAttempt

-----------------------------------------------------------------------------
(* Cancellation requests. *)

\* No statement resets cancel_requested_at.
LEMMA CancelColumn ==
    ASSUME NEW row \in JobRow, NEW t \in Tokens \cup {NoToken}
    PROVE  /\ CreatePendingJob(row).cancel = row.cancel
           /\ MarkQueued(row).cancel = row.cancel
           /\ MarkRunning(row, t).cancel = row.cancel
           /\ MarkCompleted(row, t).cancel = row.cancel
           /\ MarkFailed(row, t).cancel = row.cancel
           /\ MarkCancelled(row, t).cancel = row.cancel
           /\ RequeueRunning(row, t).cancel = row.cancel
           /\ MarkFailedWithoutExecution(row).cancel = row.cancel
           /\ CancelPendingOrQueued(row).cancel = row.cancel
           /\ row.cancel => RequestRunningCancellation(row).cancel
<1> USE DEF JobRow, LeaveRunning
<1>1. CreatePendingJob(row).cancel = row.cancel
  BY DEF CreatePendingJob
<1>2. MarkQueued(row).cancel = row.cancel
  BY DEF MarkQueued
<1>3. MarkRunning(row, t).cancel = row.cancel
  BY DEF MarkRunning
<1>4. MarkCompleted(row, t).cancel = row.cancel
  BY DEF MarkCompleted
<1>5. MarkFailed(row, t).cancel = row.cancel
  BY DEF MarkFailed
<1>6. MarkCancelled(row, t).cancel = row.cancel
  BY DEF MarkCancelled
<1>7. RequeueRunning(row, t).cancel = row.cancel
  BY DEF RequeueRunning
<1>8. MarkFailedWithoutExecution(row).cancel = row.cancel
  BY DEF MarkFailedWithoutExecution
<1>9. CancelPendingOrQueued(row).cancel = row.cancel
  BY DEF CancelPendingOrQueued
<1>10. row.cancel => RequestRunningCancellation(row).cancel
  BY DEF RequestRunningCancellation
<1> QED BY <1>1, <1>2, <1>3, <1>4, <1>5, <1>6, <1>7, <1>8, <1>9, <1>10

\* What a step may do to the row of a job: keep its token, drop it or give it one
\* nobody has seen; and honour a cancellation request.
RowSteps(old, new) ==
    /\ old.cancel => new.cancel
    /\ new.token \in {old.token, NoToken} \cup FreshTokens
    /\ old.status = "running" /\ new.status = "cancelled" => old.cancel

\* Rows that step so, and handlers that give up for a reason, keep the reason.
LEMMA ReasonsKept ==
    ASSUME TypeOK, Shape, GivesUpOnRequest,
           \A j \in Jobs : RowSteps(job[j], job'[j]),
           \A s \in Slots : slot'[s].pc = "cancel" =>
               \/ slot'[s] = slot[s]
               \/ /\ slot'[s].job = slot[s].job /\ slot'[s].token = slot[s].token
                  /\ slot[s].pc \in {"exec", "cancel"}
                  /\ \/ slot[s].pc = "cancel"
                     \/ job[slot[s].job].token # slot[s].token
                     \/ job[slot[s].job].cancel
    PROVE  GivesUpOnRequest'
<1> SUFFICES ASSUME NEW s \in Slots, slot'[s].pc = "cancel",
                    job'[slot'[s].job].token = slot'[s].token
             PROVE  job'[slot'[s].job].cancel
  BY DEF GivesUpOnRequest
<1>1. /\ slot'[s].job = slot[s].job /\ slot'[s].token = slot[s].token
      /\ slot[s].pc \in {"exec", "cancel"}
      /\ \/ slot[s].pc = "cancel"
         \/ job[slot[s].job].token # slot[s].token
         \/ job[slot[s].job].cancel
  OBVIOUS
<1>2. PICK j \in Jobs : j = slot[s].job
  BY <1>1 DEF Shape
<1>3. slot[s].token \in Tokens /\ slot[s].token # NoToken /\ slot[s].token \notin FreshTokens
  BY <1>1, TokenAssumption DEF Shape, FreshTokens
<1>4. job[j].token = slot[s].token
  BY <1>1, <1>2, <1>3 DEF RowSteps
<1>5. job[j].cancel
  BY <1>1, <1>2, <1>4 DEF GivesUpOnRequest
<1> QED BY <1>1, <1>2, <1>5 DEF RowSteps

\* Every step changes the rows so.
LEMMA RowsStep ==
    ASSUME Inductive, GivesUpOnRequest, [Next]_vars
    PROVE  \A j \in Jobs : RowSteps(job[j], job'[j])
<1> DEFINE Goal == \A j \in Jobs : RowSteps(job[j], job'[j])
<1> SUFFICES ASSUME TypeOK, Shape, LocksHeld PROVE Goal
  BY DEF Inductive
<1>u. ASSUME UNCHANGED job PROVE Goal
  BY <1>u DEF RowSteps
<1>o. ASSUME NEW i \in Jobs, NEW new, job' = [job EXCEPT ![i] = new], RowSteps(job[i], new)
      PROVE  Goal
  BY <1>o DEF TypeOK, RowSteps
<1>j. \A i \in Jobs : job[i] \in JobRow
  BY DEF TypeOK
<1>s. \A s \in Slots : slot[s].token \in Tokens \cup {NoToken}
  BY DEF TypeOK, SlotState
<1>1. ASSUME NEW i \in Jobs, CreateJob(i) PROVE Goal
  <2>1. job' = [job EXCEPT ![i] = CreatePendingJob(job[i])]
    BY <1>1 DEF CreateJob
  <2>2. RowSteps(job[i], CreatePendingJob(job[i]))
    BY <1>j, CancelColumn, RowEffects DEF RowSteps
  <2> QED BY <1>o, <2>1, <2>2
<1>2. ASSUME NEW i \in Jobs, CancelJob(i) PROVE Goal
  <2>1. CASE /\ job[i].status \in {"pending", "queued"}
             /\ job' = [job EXCEPT ![i] = CancelPendingOrQueued(job[i])]
    <3>1. RowSteps(job[i], CancelPendingOrQueued(job[i]))
      BY <1>j, <2>1, CancelColumn, RowEffects DEF RowSteps
    <3> QED BY <1>o, <2>1, <3>1
  <2>2. CASE job' = [job EXCEPT ![i] = RequestRunningCancellation(job[i])]
    <3>1. RowSteps(job[i], RequestRunningCancellation(job[i]))
      BY <1>j, CancelColumn, RowEffects DEF RowSteps
    <3> QED BY <1>o, <2>2, <3>1
  <2> QED BY <1>2, <2>1, <2>2 DEF CancelJob
<1>3. ASSUME NEW i \in Jobs, LeaseExpires(i) PROVE Goal
  BY <1>3 DEF LeaseExpires, TypeOK, JobRow, RowSteps
<1>4. ASSUME NEW p \in Publishers, CommitPublished(p) PROVE Goal
  <2>1. PICK i \in Jobs : i = pub[p].job
    BY <1>4 DEF CommitPublished, Shape
  <2>2. job' = [job EXCEPT ![i] = MarkQueued(job[i])]
    BY <1>4, <2>1 DEF CommitPublished
  <2>3. RowSteps(job[i], MarkQueued(job[i]))
    BY <1>j, CancelColumn, RowEffects DEF RowSteps
  <2> QED BY <1>o, <2>2, <2>3
<1>5. ASSUME NEW s \in Slots, CommitRunning(s) PROVE Goal
  <2>1. PICK i \in Jobs : i = slot[s].job
    BY <1>5 DEF CommitRunning, Shape
  <2>2. PICK t \in FreshTokens : t = CHOOSE x \in FreshTokens : TRUE
    BY <1>5 DEF CommitRunning
  <2>3. job' = [job EXCEPT ![i] = MarkRunning(job[i], t)]
    BY <1>5, <2>1, <2>2 DEF CommitRunning
  <2>4. t \in Tokens /\ job[i].status = "queued"
    BY <1>5, <2>1 DEF FreshTokens, CommitRunning, LocksHeld, HandlerLocks, Claiming
  <2>5. RowSteps(job[i], MarkRunning(job[i], t))
    BY <1>j, <2>4, CancelColumn, StartEffect DEF RowSteps
  <2> QED BY <1>o, <2>3, <2>5
<1>6. ASSUME NEW s \in Slots, CommitNotRunning(s) PROVE Goal
  <2>1. PICK i \in Jobs : i = slot[s].job
    BY <1>6 DEF CommitNotRunning, Shape
  <2>2. CASE job' = [job EXCEPT ![i] = MarkFailedWithoutExecution(job[i])]
    <3>1. RowSteps(job[i], MarkFailedWithoutExecution(job[i]))
      <4>1. MarkFailedWithoutExecution(job[i]).cancel = job[i].cancel
        BY <1>j, CancelColumn
      <4> QED BY <1>j, <4>1, FailEffect DEF RowSteps
    <3> QED BY <1>o, <2>2, <3>1
  <2>3. CASE job' = [job EXCEPT ![i] = job[i]]
    BY <1>u, <2>3 DEF TypeOK
  <2> QED BY <1>6, <2>1, <2>2, <2>3 DEF CommitNotRunning
<1>7. ASSUME NEW s \in Slots, Finishes(s) PROVE Goal
  <2>1. PICK i \in Jobs : i = slot[s].job
    BY <1>7 DEF Finishes, FinishCompleted, FinishCancelled, FinishFailed, ScheduleRetry, Shape
  <2>2. PICK t \in Tokens \cup {NoToken} : t = slot[s].token
    BY <1>s
  <2>3. CASE FinishCancelled(s)
    <3>1. job' = [job EXCEPT ![i] = MarkCancelled(job[i], t)]
      BY <2>1, <2>2, <2>3 DEF FinishCancelled, Finalise
    <3>2. Owns(job[i], t) => job[i].cancel
      BY <2>1, <2>2, <2>3 DEF FinishCancelled, Owns, GivesUpOnRequest
    <3>3. RowSteps(job[i], MarkCancelled(job[i], t))
      BY <1>j, <3>2, CancelColumn, EndEffects DEF RowSteps, Ends
    <3> QED BY <1>o, <3>1, <3>3
  <2>4. CASE FinishCompleted(s)
    <3>1. job' = [job EXCEPT ![i] = MarkCompleted(job[i], t)]
      BY <2>1, <2>2, <2>4 DEF FinishCompleted, Finalise
    <3>2. RowSteps(job[i], MarkCompleted(job[i], t))
      BY <1>j, CancelColumn, EndEffects DEF RowSteps, Ends
    <3> QED BY <1>o, <3>1, <3>2
  <2>5. CASE FinishFailed(s)
    <3>1. job' = [job EXCEPT ![i] = MarkFailed(job[i], t)]
      BY <2>1, <2>2, <2>5 DEF FinishFailed, Finalise
    <3>2. RowSteps(job[i], MarkFailed(job[i], t))
      BY <1>j, CancelColumn, EndEffects DEF RowSteps, Ends
    <3> QED BY <1>o, <3>1, <3>2
  <2>6. CASE ScheduleRetry(s)
    <3>1. job' = [job EXCEPT ![i] = RequeueRunning(job[i], t)]
      BY <2>1, <2>2, <2>6 DEF ScheduleRetry, Finalise
    <3>2. RowSteps(job[i], RequeueRunning(job[i], t))
      BY <1>j, CancelColumn, EndEffects DEF RowSteps, Ends
    <3> QED BY <1>o, <3>1, <3>2
  <2> QED BY <1>7, <2>3, <2>4, <2>5, <2>6 DEF Finishes
<1>8. ASSUME NEW w \in Workers, CommitRecovered(w) PROVE Goal
  <2> SUFFICES ASSUME NEW i \in Jobs PROVE RowSteps(job[i], job'[i])
    OBVIOUS
  <2>1. CASE i \in rec[w].batch
    <3>1. job'[i] = RecoveredRow(job[i]) /\ job[i].status = "running"
      BY <1>8, <2>1 DEF CommitRecovered, LocksHeld, RecoveryLocks
    <3>2. job[i].token \in Tokens \cup {NoToken}
      BY <1>j DEF JobRow
    <3>3. RecoveredRow(job[i]).cancel = job[i].cancel
      BY <1>j, <3>2, CancelColumn DEF RecoveredRow
    <3> QED BY <1>j, <3>1, <3>3, RecoverEffect DEF RowSteps
  <2>2. CASE i \notin rec[w].batch
    BY <1>8, <2>2 DEF CommitRecovered, RowSteps
  <2> QED BY <2>1, <2>2
<1>9. ASSUME NEW p \in Publishers, PublisherNext(p) PROVE Goal
  BY <1>9, <1>4, <1>u DEF PublisherNext, PublisherStep, LockEvent, PublisherLocksJob, DiscardEvent,
     PublishDispatch, PublisherAborts
<1>10. ASSUME NEW s \in Slots, HandlerNext(s) PROVE Goal
  BY <1>10, <1>5, <1>6, <1>7, <1>u DEF HandlerNext, HandlerStep, Deliver, LockOwner, LockCandidate,
     AckNotQueued, Finishes, Ack, ObserveCancellation, HandlerRaises, AbortHandler, Raise
<1>11. ASSUME NEW w \in Workers, RecoveryNext(w) \/ ProcessNext(w) PROVE Goal
  BY <1>11, <1>8, <1>u DEF RecoveryNext, RecoveryStep, ClaimExpired, RecoveryLocksOwner,
     RecoveryRaises, AbortRecovery, TaskDies, ProcessNext, WorkerCrashes, ConnectionLost,
     AckTimeout, ChannelCloses
<1>12. CASE UNCHANGED vars
  BY <1>12, <1>u DEF vars
<1> HIDE DEF Goal
<1> QED BY <1>1, <1>2, <1>3, <1>9, <1>10, <1>11, <1>12 DEF Next, ApiNext

\* A handler turns to the cancellation only at a poll, and keeps its message.
LEMMA GivingUp ==
    ASSUME Inductive, [Next]_vars, NEW s \in Slots, slot'[s].pc = "cancel"
    PROVE  \/ slot'[s] = slot[s]
           \/ /\ slot'[s].job = slot[s].job /\ slot'[s].token = slot[s].token
              /\ slot[s].pc \in {"exec", "cancel"}
              /\ \/ slot[s].pc = "cancel"
                 \/ job[slot[s].job].token # slot[s].token
                 \/ job[slot[s].job].cancel
<1> DEFINE Goal == \/ slot'[s] = slot[s]
                   \/ /\ slot'[s].job = slot[s].job /\ slot'[s].token = slot[s].token
                      /\ slot[s].pc \in {"exec", "cancel"}
                      /\ \/ slot[s].pc = "cancel"
                         \/ job[slot[s].job].token # slot[s].token
                         \/ job[slot[s].job].cancel
<1>t. TypeOK
  BY DEF Inductive
<1>u. ASSUME UNCHANGED slot PROVE Goal
  BY <1>u
<1>1. ASSUME NEW r \in Slots, HandlerNext(r) PROVE Goal
  <2>1. ASSUME NEW j \in Jobs, Deliver(r, j) PROVE Goal
    BY <1>t, <2>1 DEF TypeOK, Deliver, IdleSlot
  <2>2. CASE LockOwner(r)
    <3>1. Moves(r, "job")
      BY <1>t, <2>2, MovesLemma DEF LockOwner, TypeOK
    <3> QED BY <3>1 DEF Moves
  <2>3. CASE LockCandidate(r)
    <3>1. Moves(r, ClaimVerdict(slot[r].job))
      BY <1>t, <2>3, MovesLemma DEF LockCandidate, TypeOK
    <3> QED BY <3>1 DEF Moves, ClaimVerdict
  <2>4. CASE AckNotQueued(r) \/ Ack(r)
    BY <1>t, <2>4 DEF TypeOK, AckNotQueued, Ack, IdleSlot
  <2>5. CASE CommitRunning(r)
    <3>1. slot'[r].pc = "exec" /\ \A q \in Slots : q # r => slot'[q] = slot[q]
      BY <1>t, <2>5, Zenon DEF CommitRunning, TypeOK, SlotState
    <3> QED BY <3>1
  <2>6. CASE CommitNotRunning(r) \/ Finishes(r)
    <3>1. Moves(r, "ack")
      BY <1>t, <2>6, MovesLemma DEF CommitNotRunning, Finishes, FinishCompleted, FinishCancelled,
         FinishFailed, ScheduleRetry, Finalise, TypeOK
    <3> QED BY <3>1 DEF Moves
  <2>7. CASE ObserveCancellation(r)
    <3>1. Moves(r, "cancel")
      BY <1>t, <2>7, MovesLemma DEF ObserveCancellation, TypeOK
    <3> QED BY <2>7, <3>1 DEF Moves, ObserveCancellation
  <2>8. CASE Raise(r)
    BY <1>t, <2>8 DEF TypeOK, Raise, IdleSlot
  <2> HIDE DEF Goal
  <2> QED BY <1>1, <2>1, <2>2, <2>3, <2>4, <2>5, <2>6, <2>7, <2>8
          DEF HandlerNext, HandlerStep, Finishes, HandlerRaises, AbortHandler
<1>2. ASSUME NEW w \in Workers, WorkerCrashes(w) PROVE Goal
  BY <1>2 DEF WorkerCrashes, IdleSlot
<1>3. ASSUME NEW w \in Workers, ChannelCloses(w) PROVE Goal
  BY <1>t, <1>3 DEF TypeOK, SlotState, ChannelCloses, IdleSlot
<1>4. CASE ApiNext
  BY <1>4, <1>u DEF ApiNext, CreateJob, CancelJob, LeaseExpires
<1>5. ASSUME NEW p \in Publishers, PublisherNext(p) PROVE Goal
  BY <1>5, <1>u DEF PublisherNext, PublisherStep, LockEvent, PublisherLocksJob, DiscardEvent,
     PublishDispatch, CommitPublished, PublisherAborts
<1>6. ASSUME NEW w \in Workers, RecoveryNext(w) PROVE Goal
  BY <1>6, <1>u DEF RecoveryNext, RecoveryStep, ClaimExpired, RecoveryLocksOwner,
     CommitRecovered, RecoveryRaises, AbortRecovery, TaskDies
<1>7. CASE UNCHANGED vars
  BY <1>7, <1>u DEF vars
<1>p. ASSUME NEW w \in Workers, ProcessNext(w) PROVE Goal
  BY <1>p, <1>2, <1>3 DEF ProcessNext, ConnectionLost, AckTimeout
<1> QED BY <1>1, <1>4, <1>5, <1>6, <1>7, <1>p DEF Next

\* No retry, recovery or restart forgets a cancellation request, and no running job
\* is cancelled without one: a handler that gave up because another execution has
\* its job cannot record that.
THEOREM RequestsHonoured == Spec => CancellationHonoured
<1>1. Init => GivesUpOnRequest
  BY DEF Init, IdleSlot, GivesUpOnRequest
<1>2. Inductive /\ GivesUpOnRequest /\ [Next]_vars => GivesUpOnRequest'
  <2> SUFFICES ASSUME Inductive, GivesUpOnRequest, [Next]_vars PROVE GivesUpOnRequest'
    OBVIOUS
  <2>1. \A j \in Jobs : RowSteps(job[j], job'[j])
    BY RowsStep
  <2> QED BY <2>1, GivingUp, ReasonsKept DEF Inductive
<1>3. Inductive /\ GivesUpOnRequest /\ [Next]_vars =>
        [\A j \in Jobs :
          /\ job[j].cancel => job'[j].cancel
          /\ job[j].status = "running" /\ job'[j].status = "cancelled" => job[j].cancel]_vars
  BY RowsStep DEF RowSteps
<1>4. Spec => []GivesUpOnRequest
  BY <1>1, <1>2, InductiveInvariant, PTL DEF Spec
<1> QED BY <1>3, <1>4, InductiveInvariant, PTL DEF Spec, CancellationHonoured
=============================================================================
