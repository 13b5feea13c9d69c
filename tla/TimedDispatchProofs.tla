-------------------------- MODULE TimedDispatchProofs --------------------------
(***************************************************************************)
(* Proofs about TimedDispatch: it is the dispatch pipeline with times      *)
(* added, so every theorem about the pipeline holds of it too, and the     *)
(* delay a retry or a deferral announces is kept.                          *)
(***************************************************************************)
EXTENDS TimedDispatch, JobLifecycleProofs

-----------------------------------------------------------------------------
(* The untimed pipeline. *)

\* The steps of the pipeline other than the commit of a claim.
OtherStep ==
    \/ ApiNext
    \/ \E p \in Publishers : PublisherNext(p)
    \/ \E s \in Slots : \/ \E j \in Jobs : Deliver(s, j)
                        \/ LockOwner(s) \/ LockCandidate(s) \/ AckNotQueued(s)
                        \/ CommitNotRunning(s) \/ Finishes(s) \/ Ack(s)
                        \/ ObserveCancellation(s) \/ HandlerRaises(s) \/ AbortHandler(s)
    \/ \E w \in Workers : RecoveryNext(w) \/ ProcessNext(w)

\* A step of the timed pipeline leaves the pipeline alone, commits a claim, or is
\* another step of the pipeline.
LEMMA TimedStepCases ==
    ASSUME [TimedNext]_timedVars
    PROVE  UNCHANGED vars \/ OtherStep \/ \E s \in Slots : TimedCommitRunning(s)
<1>1. CASE Tick
  BY <1>1 DEF Tick
<1>2. ASSUME NEW j \in Jobs, TimedCreateJob(j) \/ CancelJob(j) \/ LeaseExpires(j) PROVE OtherStep
  BY <1>2 DEF TimedCreateJob, OtherStep, ApiNext
<1>3. ASSUME NEW p \in Publishers, ClaimDueBatch(p) \/ RecordPublishFailure(p) PROVE UNCHANGED vars
  BY <1>3 DEF ClaimDueBatch, RecordPublishFailure
<1>4. ASSUME NEW p \in Publishers, NEW j \in Jobs, NEW e \in Events,
             TimedLockEvent(p, j, e) \/ SkipLockedEvent(p, j, e)
      PROVE  UNCHANGED vars \/ OtherStep
  BY <1>4 DEF TimedLockEvent, SkipLockedEvent, OtherStep, PublisherNext
<1>5. ASSUME NEW p \in Publishers, PublisherLocksJob(p) \/ PublishDispatch(p) \/ EventPublished(p)
      PROVE  OtherStep
  BY <1>5 DEF EventPublished, OtherStep, PublisherNext, PublisherStep
<1>6. ASSUME NEW p \in Publishers, PublishFails(p) \/ PublisherCrashes(p) PROVE OtherStep
  BY <1>6 DEF PublishFails, PublisherCrashes, OtherStep, PublisherNext
<1>7. ASSUME NEW s \in Slots, TimedHandlerStep(s) PROVE OtherStep \/ TimedCommitRunning(s)
  BY <1>7 DEF TimedHandlerStep, TimedCommitNotRunning, TimedScheduleRetry, OtherStep, Finishes
<1>8. ASSUME NEW s \in Slots, \/ \E j \in Jobs : Deliver(s, j)
                              \/ ObserveCancellation(s) \/ HandlerRaises(s) \/ AbortHandler(s)
      PROVE OtherStep
  BY <1>8 DEF OtherStep
<1>9. ASSUME NEW w \in Workers, \/ TimedRecoveryStep(w) \/ TimedRedelivery(w)
                                \/ RecoveryRaises(w) \/ AbortRecovery(w)
      PROVE OtherStep
  BY <1>9 DEF TimedRecoveryStep, TimedCommitRecovered, TimedRedelivery, OtherStep, RecoveryNext, RecoveryStep
<1>10. CASE UNCHANGED timedVars
  BY <1>10 DEF timedVars
<1> QED BY <1>1, <1>2, <1>3, <1>4, <1>5, <1>6, <1>7, <1>8, <1>9, <1>10
        DEF TimedNext, TimedPublisherStep

\* Every step of the timed pipeline is a step of the pipeline, or leaves it alone.
LEMMA TimedStepIsStep ==
    ASSUME [TimedNext]_timedVars
    PROVE  [Next]_vars
<1>1. OtherStep => Next
  BY DEF OtherStep, Next, HandlerNext, HandlerStep, Finishes
<1>2. (\E s \in Slots : TimedCommitRunning(s)) => Next
  BY DEF TimedCommitRunning, Next, HandlerNext, HandlerStep
<1> QED BY <1>1, <1>2, TimedStepCases

\* The timed pipeline is the pipeline: what is proved of JobDispatch holds of it.
THEOREM TimedIsDispatch == TimedSpec => Spec
<1>1. TimedInit => Init
  BY DEF TimedInit
<1> QED BY <1>1, TimedStepIsStep, PTL DEF TimedSpec, Spec

\* With real delays, batches of ids, failed publications and publishers that die,
\* no dispatch is lost, none is doubled, and the limits on running jobs and on
\* attempts hold.
THEOREM TimedPipelineSafe ==
    TimedSpec => [](NoLostDispatch /\ AtMostOneUnpublished /\ RunningLimit /\ AttemptBudget)
BY TimedIsDispatch, DispatchNeverLost, SingleUnpublishedEvent, CapacityRespected, BudgetRespected, PTL

-----------------------------------------------------------------------------
(* What the pipeline's invariants leave to be said for the timed one. *)

\* A running job has used at least the attempt it is running.
AttemptCounted == \A j \in Jobs : job[j].status = "running" => job[j].attempts >= 1

Untimed == Inductive /\ FailBranchUnused /\ AttemptCounted

\* The life cycle counts an attempt when it starts one.
LEMMA AttemptCountedStep ==
    ASSUME TypeOK, AttemptCounted, [Lifecycle!Next]_(Lifecycle!vars)
    PROVE  AttemptCounted'
<1> DEFINE st == [j \in Jobs |-> job[j].status]
           at == [j \in Jobs |-> job[j].attempts]
           st2 == [j \in Jobs |-> job'[j].status]
           at2 == [j \in Jobs |-> job'[j].attempts]
<1>1. SUFFICES ASSUME NEW j \in Jobs, st2[j] = "running" PROVE at2[j] >= 1
  BY DEF AttemptCounted
<1>2. at[j] \in Nat /\ (st[j] = "running" => at[j] >= 1)
  BY DEF AttemptCounted, TypeOK, JobRow
<1>3. CASE UNCHANGED Lifecycle!vars
  <2>1. st2 = st /\ at2 = at
    BY <1>3 DEF Lifecycle!vars
  <2> QED BY <1>1, <1>2, <2>1
<1>4. ASSUME NEW i \in Jobs, NEW from, NEW to, to # "running", Lifecycle!Move(i, from, to)
      PROVE at2[j] >= 1
  <2>1. st2 = [st EXCEPT ![i] = to] /\ at2 = at
    BY <1>4 DEF Lifecycle!Move
  <2> HIDE DEF st, at, st2, at2
  <2>2. j # i /\ st2[j] = st[j]
    BY <1>1, <1>4, <2>1 DEF st
  <2> QED BY <1>1, <1>2, <2>1, <2>2
<1>5. ASSUME NEW i \in Jobs, Lifecycle!Start(i) PROVE at2[j] >= 1
  <2>1. st2 = [st EXCEPT ![i] = "running"] /\ at2 = [at EXCEPT ![i] = @ + 1]
    BY <1>5 DEF Lifecycle!Start
  <2>2. j = i => at2[j] = at[j] + 1
    BY <2>1
  <2>3. j # i => at2[j] = at[j] /\ st2[j] = st[j]
    BY <2>1
  <2> HIDE DEF st, at, st2, at2
  <2> QED BY <1>1, <1>2, <2>2, <2>3
<1>6. ASSUME NEW S \in SUBSET Jobs, Lifecycle!AttemptLost(S) PROVE at2[j] >= 1
  <2>1. PICK to \in [S -> {"queued", "failed"}] :
           st2 = [i \in Jobs |-> IF i \in S THEN to[i] ELSE st[i]]
    BY <1>6 DEF Lifecycle!AttemptLost
  <2>2. at2 = at
    BY <1>6 DEF Lifecycle!AttemptLost
  <2>3. j \notin S /\ st2[j] = st[j]
    BY <1>1, <2>1
  <2> QED BY <1>1, <1>2, <2>2, <2>3
<1> QED BY <1>3, <1>4, <1>5, <1>6 DEF Lifecycle!Next, Lifecycle!Submit, Lifecycle!Enqueue,
           Lifecycle!Complete, Lifecycle!Cancel

\* The invariant of the pipeline with the two facts of the life cycle.
LEMMA UntimedStep ==
    ASSUME Untimed, [Next]_vars
    PROVE  Untimed'
BY InductiveStep, FailBranchStep, LifecycleStep, AttemptCountedStep DEF Untimed, Inductive

\* It holds initially.
LEMMA UntimedInit == Init => Untimed
BY InductiveInit DEF Untimed, Init, FailBranchUnused, AttemptCounted, IdleSlot, NoRow

\* A step that starts no execution and submits nothing new.
NothingNew == \A j \in Jobs : job'[j].status \in {"absent", "running"} => job'[j].status = job[j].status

\* Only the commit of a claim starts an execution.
LEMMA NothingNewLemma ==
    ASSUME Inductive, OtherStep
    PROVE  NothingNew
<1> SUFFICES ASSUME TypeOK, Shape, LocksHeld PROVE NothingNew
  BY DEF Inductive
<1>1. CASE UNCHANGED job
  BY <1>1 DEF NothingNew
<1>2. ASSUME NEW j \in Jobs, CreateJob(j) \/ CancelJob(j) \/ LeaseExpires(j) PROVE NothingNew
  <2>1. job[j] \in JobRow /\ NoToken \in Tokens \cup {NoToken}
    BY DEF TypeOK
  <2>2. \A i \in Jobs : i # j => job'[i] = job[i]
    BY <1>2 DEF CreateJob, CancelJob, LeaseExpires, TypeOK
  <2>3. job'[j].status \in {"pending", "cancelled", job[j].status}
    BY <1>2, <2>1, RowEffects DEF CreateJob, CancelJob, LeaseExpires, TypeOK, JobRow
  <2> QED BY <2>2, <2>3 DEF NothingNew
<1>3. ASSUME NEW p \in Publishers, PublisherNext(p) PROVE NothingNew
  <2>1. CASE CommitPublished(p)
    <3>1. pub[p].job \in Jobs /\ job[pub[p].job] \in JobRow /\ NoToken \in Tokens \cup {NoToken}
      BY <2>1 DEF CommitPublished, Shape, TypeOK
    <3>2. job'[pub[p].job] = MarkQueued(job[pub[p].job])
          /\ \A i \in Jobs : i # pub[p].job => job'[i] = job[i]
      BY <2>1, <3>1 DEF CommitPublished, TypeOK
    <3> QED BY <3>1, <3>2, RowEffects DEF NothingNew
  <2> QED BY <1>1, <1>3, <2>1 DEF PublisherNext, PublisherStep, LockEvent, PublisherLocksJob,
             DiscardEvent, PublishDispatch, PublisherAborts
<1>4. ASSUME NEW s \in Slots, CommitNotRunning(s) PROVE NothingNew
  <2>1. slot[s].job \in Jobs /\ job[slot[s].job] \in JobRow
    BY <1>4 DEF CommitNotRunning, Shape, TypeOK
  <2>2. /\ \/ job'[slot[s].job] = job[slot[s].job]
           \/ job'[slot[s].job] = MarkFailedWithoutExecution(job[slot[s].job])
        /\ \A i \in Jobs : i # slot[s].job => job'[i] = job[i]
    BY <1>4, <2>1 DEF CommitNotRunning, TypeOK
  <2> QED BY <2>1, <2>2, FailEffect DEF NothingNew
<1>5. ASSUME NEW s \in Slots, Finishes(s) PROVE NothingNew
  <2>1. /\ slot[s].job \in Jobs /\ job[slot[s].job] \in JobRow
        /\ slot[s].token \in Tokens \cup {NoToken}
    BY <1>5 DEF Finishes, FinishCompleted, FinishCancelled, FinishFailed, ScheduleRetry, Shape, TypeOK
  <2>2. /\ job'[slot[s].job] \in {MarkCompleted(job[slot[s].job], slot[s].token),
                                  MarkCancelled(job[slot[s].job], slot[s].token),
                                  MarkFailed(job[slot[s].job], slot[s].token),
                                  RequeueRunning(job[slot[s].job], slot[s].token)}
        /\ \A i \in Jobs : i # slot[s].job => job'[i] = job[i]
    BY <1>5, <2>1 DEF Finishes, FinishCompleted, FinishCancelled, FinishFailed,
       ScheduleRetry, Finalise, TypeOK
  <2> QED BY <2>1, <2>2, EndEffects DEF NothingNew, Ends
<1>6. ASSUME NEW s \in Slots, \/ \E j \in Jobs : Deliver(s, j)
                              \/ LockOwner(s) \/ LockCandidate(s) \/ AckNotQueued(s) \/ Ack(s)
                              \/ ObserveCancellation(s) \/ Raise(s)
      PROVE NothingNew
  BY <1>1, <1>6 DEF Deliver, LockOwner, LockCandidate, AckNotQueued, Ack, ObserveCancellation, Raise
<1>7. ASSUME NEW w \in Workers, CommitRecovered(w) PROVE NothingNew
  BY <1>7, RecoverEffect DEF CommitRecovered, LocksHeld, RecoveryLocks, TypeOK, RecState, NothingNew
<1>8. ASSUME NEW w \in Workers, \/ ClaimExpired(w) \/ RecoveryLocksOwner(w) \/ TaskDies(w)
                                \/ WorkerCrashes(w) \/ ChannelCloses(w)
      PROVE NothingNew
  BY <1>1, <1>8 DEF ClaimExpired, RecoveryLocksOwner, TaskDies, WorkerCrashes, ChannelCloses
<1> QED BY <1>2, <1>3, <1>4, <1>5, <1>6, <1>7, <1>8
        DEF OtherStep, ApiNext, RecoveryNext, RecoveryStep, ProcessNext, HandlerRaises,
            AbortHandler, RecoveryRaises, AbortRecovery, ConnectionLost, AckTimeout
-----------------------------------------------------------------------------
(* Types. *)

\* One unit less is a natural number, and takes the order along.
LEMMA LessNat == \A m, n \in Nat : Less(n) \in Nat /\ (m >= n => Less(m) >= Less(n)) /\ Less(0) = 0
BY DEF Less

\* The back-off of a failed publication is a natural number.
LEMMA BackoffNat == \A n : ComputeRetryDelay(n) \in Nat
BY TimeAssumption DEF ComputeRetryDelay

\* Inserting events with a delay keeps the times of the events well typed.
LEMMA AvailableType ==
    ASSUME TimedTypeOK, NEW d \in Nat, Available(d)
    PROVE  due' \in [Jobs -> [Events -> Nat]] /\ tries' \in [Jobs -> [Events -> Nat]]
BY DEF TimedTypeOK, Available

\* The delay of a retry is one of the three configured ones.
LEMMA RetryDelayNat ==
    ASSUME Untimed, NEW s \in Slots, ScheduleRetry(s), Owns(job[slot[s].job], slot[s].token)
    PROVE  RetryDelay[slot[s].attempt] \in Nat
<1>1. slot[s].job \in Jobs /\ slot[s].attempt < MaxTotal /\ slot[s].pc = "exec"
  BY DEF Untimed, Inductive, Shape, ScheduleRetry
<1>2. job[slot[s].job].attempts \in Nat
  BY <1>1 DEF Untimed, Inductive, TypeOK, JobRow
<1>3. slot[s].attempt = job[slot[s].job].attempts /\ job[slot[s].job].attempts >= 1
  BY <1>1 DEF Untimed, Inductive, TokenMatchesAttempt, AttemptCounted, Owns
<1>4. slot[s].attempt \in 1 .. 3
  BY <1>1, <1>2, <1>3, MaxRetriesAssumption DEF MaxTotal
<1> QED BY <1>4, TimeAssumption

\* What Postpone does: some natural number d is promised, and due, for the job.
PostponedBy(s, d) ==
    /\ leftover' = [leftover EXCEPT ![slot[s].job] = OlderDispatch(s)]
    /\ owed' = [owed EXCEPT ![slot[s].job] = d]
    /\ Available(d)
    /\ UNCHANGED <<claimed, failure>>

\* A postponement promises what is left of the delay.
LEMMA PostponeLemma ==
    ASSUME NEW s \in Slots, NEW delay \in Nat, Postpone(s, delay)
    PROVE  \E d \in Nat : PostponedBy(s, d)
<1>1. PICK waited \in 0 .. delay :
          /\ owed' = [owed EXCEPT ![slot[s].job] = delay - waited]
          /\ Available(delay - waited)
  BY DEF Postpone
<1>2. PICK d \in Nat : d = delay - waited
  OBVIOUS
<1>3. owed' = [owed EXCEPT ![slot[s].job] = d] /\ Available(d)
  BY <1>1, <1>2
<1> QED BY <1>2, <1>3 DEF Postpone, PostponedBy

\* The two actions that postpone a job: the job then waits, and keeps its event if
\* it had one.
LEMMA PostponingSteps ==
    ASSUME Untimed, NEW s \in Slots, TimedCommitNotRunning(s) \/ TimedScheduleRetry(s)
    PROVE  \/ UNCHANGED times /\ (CommitNotRunning(s) \/ ScheduleRetry(s)) /\ UNCHANGED outbox
           \/ /\ \E d \in Nat : PostponedBy(s, d)
              /\ slot[s].job \in Jobs
              /\ job'[slot[s].job].status = "queued"
              /\ outbox' = [outbox EXCEPT ![slot[s].job] = IfAbsent(@)]
              /\ Moves(s, "ack")
              /\ UNCHANGED <<ready, pub>>
<1>1. CASE TimedCommitNotRunning(s)
  <2>1. slot[s].pc = "defer" /\ Postpone(s, DeferDelay) /\ CommitNotRunning(s)
    BY <1>1 DEF TimedCommitNotRunning, Untimed, FailBranchUnused
  <2>2. slot[s].job \in Jobs /\ job[slot[s].job].status = "queued"
    BY <2>1 DEF Untimed, Inductive, Shape, LocksHeld, HandlerLocks, Claiming
  <2>3. UNCHANGED job /\ outbox' = [outbox EXCEPT ![slot[s].job] = IfAbsent(@)]
    BY <2>1 DEF CommitNotRunning, Untimed, Inductive, TypeOK
  <2>4. Moves(s, "ack") /\ UNCHANGED <<ready, pub>>
    BY <2>1, MovesLemma DEF CommitNotRunning, Untimed, Inductive, TypeOK
  <2>5. \E d \in Nat : PostponedBy(s, d)
    BY <2>1, PostponeLemma, TimeAssumption
  <2> QED BY <2>2, <2>3, <2>4, <2>5
<1>2. CASE TimedScheduleRetry(s) /\ Owns(job[slot[s].job], slot[s].token)
  <2>1. ScheduleRetry(s) /\ Postpone(s, RetryDelay[slot[s].attempt])
    BY <1>2 DEF TimedScheduleRetry
  <2>2. slot[s].job \in Jobs /\ slot[s].token \in Tokens \cup {NoToken} /\ job[slot[s].job] \in JobRow
    BY <2>1 DEF ScheduleRetry, Untimed, Inductive, Shape, TypeOK
  <2>3. job'[slot[s].job] = RequeueRunning(job[slot[s].job], slot[s].token)
    BY <2>1, <2>2 DEF ScheduleRetry, Finalise, Untimed, Inductive, TypeOK
  <2>4. job'[slot[s].job].status = "queued"
    BY <1>2, <2>2, <2>3, EndEffects DEF Ends
  <2>5. outbox' = [outbox EXCEPT ![slot[s].job] = IfAbsent(@)]
    BY <1>2, <2>1 DEF ScheduleRetry
  <2>6. Moves(s, "ack") /\ UNCHANGED <<ready, pub>>
    BY <2>1, MovesLemma DEF ScheduleRetry, Finalise, Untimed, Inductive, TypeOK
  <2>7. RetryDelay[slot[s].attempt] \in Nat
    BY <1>2, <2>1, RetryDelayNat
  <2>8. PICK d \in Nat : d = RetryDelay[slot[s].attempt]
    BY <2>7
  <2>9. Postpone(s, d)
    BY <2>1, <2>8
  <2>10. \E dd \in Nat : PostponedBy(s, dd)
    BY <2>9, PostponeLemma
  <2> QED BY <2>2, <2>4, <2>5, <2>6, <2>10
<1>3. CASE TimedScheduleRetry(s) /\ ~Owns(job[slot[s].job], slot[s].token)
  BY <1>3 DEF TimedScheduleRetry, ScheduleRetry, Untimed, Inductive, TypeOK
<1> QED BY <1>1, <1>2, <1>3

\* Every step keeps the times well typed.
LEMMA TimedTypeStep ==
    ASSUME Untimed, Untimed', TimedTypeOK, [TimedNext]_timedVars
    PROVE  TimedTypeOK'
<1> SUFFICES ASSUME TypeOK, TypeOK', Shape PROVE TimedTypeOK'
  BY DEF Untimed, Inductive
<1>1. CASE UNCHANGED times
  BY <1>1 DEF TimedTypeOK, times
<1>2. CASE Tick
  <2>1. due' \in [Jobs -> [Events -> Nat]] /\ owed' \in [Jobs -> Nat]
    BY <1>2, LessNat DEF Tick, TimedTypeOK
  <2>2. failure' \in [Publishers -> FailureRecord \cup {NoFailure}]
    <3>1. \A p \in Publishers : failure[p] # NoFailure =>
             [failure[p] EXCEPT !.left = Less(@)] \in FailureRecord
      BY LessNat DEF TimedTypeOK, FailureRecord
    <3> QED BY <1>2, <3>1 DEF Tick
  <2> QED BY <1>2, <2>1, <2>2 DEF Tick, TimedTypeOK
<1>3. ASSUME NEW j \in Jobs, TimedCreateJob(j) PROVE TimedTypeOK'
  BY <1>3, AvailableType DEF TimedCreateJob, TimedTypeOK
<1>4. ASSUME NEW p \in Publishers, ClaimDueBatch(p) PROVE TimedTypeOK'
  BY <1>4 DEF ClaimDueBatch, DueEvents, TimedTypeOK
<1>5. ASSUME NEW p \in Publishers, NEW j \in Jobs, NEW e \in Events,
             TimedLockEvent(p, j, e) \/ SkipLockedEvent(p, j, e)
      PROVE TimedTypeOK'
  BY <1>5 DEF TimedLockEvent, SkipLockedEvent, TimedTypeOK
<1>6. ASSUME NEW p \in Publishers, EventPublished(p) PROVE TimedTypeOK'
  BY <1>6, AvailableType DEF EventPublished, Forget, TimedTypeOK
<1>7. ASSUME NEW p \in Publishers, RecordPublishFailure(p) PROVE TimedTypeOK'
  <2>1. failure[p] \in FailureRecord
    BY <1>7 DEF RecordPublishFailure, TimedTypeOK
  <2>2. PICK j \in Jobs, e \in Events, n \in Nat :
            failure[p].job = j /\ failure[p].event = e /\ failure[p].left = n
    BY <2>1 DEF FailureRecord
  <2>3. due' = [due EXCEPT ![j][e] = n] /\ tries' = [tries EXCEPT ![j][e] = @ + 1]
    BY <1>7, <2>2 DEF RecordPublishFailure
  <2>4. due' \in [Jobs -> [Events -> Nat]]
    BY <2>3 DEF TimedTypeOK
  <2>5. tries' \in [Jobs -> [Events -> Nat]]
    BY <2>3 DEF TimedTypeOK
  <2> QED BY <1>7, <2>4, <2>5 DEF RecordPublishFailure, TimedTypeOK
<1>8. ASSUME NEW p \in Publishers, PublishFails(p) PROVE TimedTypeOK'
  <2>1. pub[p].job \in Jobs /\ pub[p].event \in Events
    BY <1>8 DEF PublishFails, Shape, TypeOK
  <2>2. [job |-> pub[p].job, event |-> pub[p].event,
         left |-> ComputeRetryDelay(tries[pub[p].job][pub[p].event] + 1)] \in FailureRecord
    BY <2>1, BackoffNat DEF FailureRecord
  <2> QED BY <1>8, <2>2 DEF PublishFails, TimedTypeOK
<1>9. ASSUME NEW p \in Publishers, PublisherCrashes(p) PROVE TimedTypeOK'
  BY <1>9 DEF PublisherCrashes, TimedTypeOK
<1>10. ASSUME NEW s \in Slots, TimedCommitRunning(s) PROVE TimedTypeOK'
  BY <1>10 DEF TimedCommitRunning, TimedTypeOK
<1>11. ASSUME NEW s \in Slots, NEW d \in Nat, PostponedBy(s, d) PROVE TimedTypeOK'
  <2>1. OlderDispatch(s) \in BOOLEAN
    BY DEF OlderDispatch
  <2> QED BY <1>11, <2>1, AvailableType DEF PostponedBy, TimedTypeOK
<1>12. ASSUME NEW w \in Workers, TimedCommitRecovered(w) PROVE TimedTypeOK'
  BY <1>12, AvailableType DEF TimedCommitRecovered, TimedTypeOK
<1>13. ASSUME NEW w \in Workers, TimedRedelivery(w) PROVE TimedTypeOK'
  BY <1>13 DEF TimedRedelivery, TimedTypeOK
<1> QED BY <1>1, <1>2, <1>3, <1>4, <1>5, <1>6, <1>7, <1>8, <1>9, <1>10, <1>11, <1>12, <1>13,
           PostponingSteps
        DEF TimedNext, TimedPublisherStep, TimedHandlerStep, TimedRecoveryStep, timedVars
-----------------------------------------------------------------------------
(* What a publisher remembers. *)

\* Nothing that was unpublished gets published.
Grows == \A j \in Jobs : outbox[j] \subseteq outbox'[j]

\* A publisher that learns nothing new remembers unpublished events while none is
\* published.
LEMMA RemembersKept ==
    ASSUME TimedTypeOK, RemembersUnpublished, Grows,
           \A p \in Publishers : claimed'[p] \subseteq claimed[p],
           \A p \in Publishers : failure'[p] \in {failure[p], NoFailure}
    PROVE  RemembersUnpublished'
<1>1. ASSUME NEW p \in Publishers, NEW je \in claimed'[p] PROVE je[2] \in outbox'[je[1]]
  <2>1. je \in claimed[p] /\ je[1] \in Jobs
    BY <1>1 DEF TimedTypeOK
  <2> QED BY <2>1 DEF RemembersUnpublished, Grows
<1>2. ASSUME NEW p \in Publishers, failure'[p] # NoFailure
      PROVE  failure'[p].event \in outbox'[failure'[p].job]
  <2>1. failure'[p] = failure[p] /\ failure[p] \in FailureRecord
    BY <1>2 DEF TimedTypeOK
  <2> QED BY <1>2, <2>1 DEF RemembersUnpublished, Grows, FailureRecord
<1> QED BY <1>1, <1>2 DEF RemembersUnpublished

\* Publishing an event makes every publisher forget it.
LEMMA RemembersPublished ==
    ASSUME TimedTypeOK, RemembersUnpublished, NEW j \in Jobs, NEW e \in Events,
           \A i \in Jobs : i # j => outbox'[i] = outbox[i],
           outbox'[j] = outbox[j] \ {e}, Forget(j, e)
    PROVE  RemembersUnpublished'
<1>1. ASSUME NEW p \in Publishers, NEW je \in claimed'[p] PROVE je[2] \in outbox'[je[1]]
  <2>1. je \in claimed[p] /\ je # <<j, e>> /\ je \in Jobs \X Events
    BY <1>1 DEF Forget, TimedTypeOK
  <2>2. je[2] \in outbox[je[1]] /\ ~(je[1] = j /\ je[2] = e) /\ je[1] \in Jobs
    BY <2>1 DEF RemembersUnpublished
  <2> QED BY <2>2
<1>2. ASSUME NEW p \in Publishers, failure'[p] # NoFailure
      PROVE  failure'[p].event \in outbox'[failure'[p].job]
  <2>1. /\ failure'[p] = failure[p] /\ failure[p] \in FailureRecord
        /\ ~(failure[p].job = j /\ failure[p].event = e)
    BY <1>2 DEF Forget, TimedTypeOK
  <2> QED BY <1>2, <2>1 DEF RemembersUnpublished, FailureRecord
<1> QED BY <1>1, <1>2 DEF RemembersUnpublished

\* Every step keeps the memory of the publishers within the unpublished events.
LEMMA RemembersStep ==
    ASSUME Untimed, TimedTypeOK, RemembersUnpublished, [TimedNext]_timedVars
    PROVE  RemembersUnpublished'
<1> SUFFICES ASSUME TypeOK, Shape, SubmittedOnce PROVE RemembersUnpublished'
  BY DEF Untimed, Inductive
<1>g. ASSUME NEW ev PROVE ev \subseteq IfAbsent(ev)
  BY DEF IfAbsent
<1>1. CASE UNCHANGED times /\ UNCHANGED outbox
  BY <1>1, RemembersKept DEF times, Grows
<1>2. CASE Tick
  BY <1>2 DEF Tick, vars, RemembersUnpublished, TimedTypeOK, FailureRecord
<1>3. ASSUME NEW j \in Jobs, TimedCreateJob(j) PROVE RemembersUnpublished'
  <2>1. Grows
    BY <1>3 DEF TimedCreateJob, CreateJob, SubmittedOnce, Grows, TypeOK
  <2> QED BY <1>3, <2>1, RemembersKept DEF TimedCreateJob
<1>4. ASSUME NEW p \in Publishers, ClaimDueBatch(p) PROVE RemembersUnpublished'
  BY <1>4 DEF ClaimDueBatch, DueEvents, vars, RemembersUnpublished, TimedTypeOK
<1>5. ASSUME NEW p \in Publishers, NEW j \in Jobs, NEW e \in Events,
             TimedLockEvent(p, j, e) \/ SkipLockedEvent(p, j, e)
      PROVE RemembersUnpublished'
  <2>1. UNCHANGED <<outbox, failure>> /\ claimed' = [claimed EXCEPT ![p] = @ \ {<<j, e>>}]
    BY <1>5 DEF TimedLockEvent, LockEvent, SkipLockedEvent, vars
  <2> QED BY <2>1, RemembersKept DEF Grows, TimedTypeOK
<1>6. ASSUME NEW p \in Publishers, EventPublished(p) PROVE RemembersUnpublished'
  <2>1. PICK j \in Jobs, e \in Events : pub[p].job = j /\ pub[p].event = e
    BY <1>6 DEF EventPublished, DiscardEvent, CommitPublished, Shape, TypeOK
  <2>2. outbox' = [outbox EXCEPT ![j] = @ \ {e}] /\ Forget(j, e)
    BY <1>6, <2>1 DEF EventPublished, DiscardEvent, CommitPublished
  <2> QED BY <2>2, RemembersPublished DEF TypeOK
<1>7. ASSUME NEW p \in Publishers, RecordPublishFailure(p) PROVE RemembersUnpublished'
  BY <1>7, RemembersKept DEF RecordPublishFailure, vars, Grows, TimedTypeOK
<1>8. ASSUME NEW p \in Publishers, PublishFails(p) PROVE RemembersUnpublished'
  <2>1. pub[p].event \in outbox[pub[p].job] /\ UNCHANGED <<outbox, claimed>>
    BY <1>8 DEF PublishFails, PublisherAborts, Shape
  <2> QED BY <1>8, <2>1 DEF PublishFails, RemembersUnpublished, TimedTypeOK
<1>9. ASSUME NEW p \in Publishers, PublisherCrashes(p) PROVE RemembersUnpublished'
  BY <1>9, RemembersKept DEF PublisherCrashes, PublisherAborts, Grows, TimedTypeOK
<1>10. ASSUME NEW s \in Slots, TimedCommitRunning(s) PROVE RemembersUnpublished'
  BY <1>10, RemembersKept DEF TimedCommitRunning, CommitRunning, Grows
<1>11. ASSUME NEW s \in Slots, TimedCommitNotRunning(s) \/ TimedScheduleRetry(s)
       PROVE RemembersUnpublished'
  <2>1. CASE UNCHANGED times /\ UNCHANGED outbox
    BY <1>1, <2>1
  <2>2. CASE /\ \E d \in Nat : PostponedBy(s, d)
             /\ outbox' = [outbox EXCEPT ![slot[s].job] = IfAbsent(@)]
    <3>1. UNCHANGED <<claimed, failure>>
      BY <2>2 DEF PostponedBy
    <3>2. Grows
      BY <1>g, <2>2 DEF Grows, TypeOK
    <3> QED BY <3>1, <3>2, RemembersKept
  <2> QED BY <1>11, <2>1, <2>2, PostponingSteps
<1>12. ASSUME NEW w \in Workers, TimedCommitRecovered(w) PROVE RemembersUnpublished'
  <2>1. Grows
    BY <1>g, <1>12 DEF TimedCommitRecovered, CommitRecovered, Grows
  <2> QED BY <1>12, <2>1, RemembersKept DEF TimedCommitRecovered
<1>13. ASSUME NEW w \in Workers, TimedRedelivery(w) PROVE RemembersUnpublished'
  <2>1. UNCHANGED outbox
    BY <1>13 DEF TimedRedelivery, ProcessNext, WorkerCrashes, ConnectionLost, AckTimeout, ChannelCloses
  <2> QED BY <1>13, <2>1, RemembersKept DEF TimedRedelivery, Grows
<1>14. ASSUME NEW j \in Jobs, CancelJob(j) \/ LeaseExpires(j) PROVE UNCHANGED outbox
  BY <1>14 DEF CancelJob, LeaseExpires
<1>15. ASSUME NEW p \in Publishers, PublisherLocksJob(p) \/ PublishDispatch(p) PROVE UNCHANGED outbox
  BY <1>15 DEF PublisherLocksJob, PublishDispatch
<1>16. ASSUME NEW s \in Slots,
              \/ LockOwner(s) \/ LockCandidate(s) \/ AckNotQueued(s) \/ FinishCompleted(s)
              \/ FinishCancelled(s) \/ FinishFailed(s) \/ Ack(s)
              \/ (\E j \in Jobs : Deliver(s, j))
              \/ ObserveCancellation(s) \/ HandlerRaises(s) \/ AbortHandler(s)
       PROVE UNCHANGED outbox
  BY <1>16 DEF LockOwner, LockCandidate, AckNotQueued, FinishCompleted, FinishCancelled,
     FinishFailed, Ack, Deliver, ObserveCancellation, HandlerRaises, AbortHandler, Raise
<1>17. ASSUME NEW w \in Workers, \/ ClaimExpired(w) \/ RecoveryLocksOwner(w)
                                 \/ RecoveryRaises(w) \/ AbortRecovery(w)
       PROVE UNCHANGED outbox
  BY <1>17 DEF ClaimExpired, RecoveryLocksOwner, RecoveryRaises, AbortRecovery, TaskDies
<1>18. CASE UNCHANGED timedVars
  BY <1>1, <1>18 DEF timedVars, vars
<1> QED BY <1>1, <1>2, <1>3, <1>4, <1>5, <1>6, <1>7, <1>8, <1>9, <1>10, <1>11, <1>12, <1>13,
           <1>14, <1>15, <1>16, <1>17, <1>18
        DEF TimedNext, TimedPublisherStep, TimedHandlerStep, TimedRecoveryStep

-----------------------------------------------------------------------------
(* Delays. *)

\* Only a job that waits is owed a delay: the delay ends when an execution starts,
\* and begins when the job is put back into the queue.
LEMMA OwedStep ==
    ASSUME Untimed, TimedTypeOK, OwedWhileWaiting, [TimedNext]_timedVars
    PROVE  OwedWhileWaiting'
<1>1. Inductive /\ TypeOK
  BY DEF Untimed, Inductive
<1>2. ASSUME NEW s \in Slots, TimedCommitRunning(s) PROVE OwedWhileWaiting'
  <2>1. ClaimCommits(s, slot[s].job)
    BY <1>1, <1>2, ClaimCommitsLemma DEF TimedCommitRunning, Inductive, LocksHeld
  <2> QED BY <1>2, <2>1 DEF TimedCommitRunning, ClaimCommits, OwedWhileWaiting, TimedTypeOK
<1>3. ASSUME UNCHANGED vars \/ OtherStep PROVE NothingNew
  BY <1>1, <1>3, NothingNewLemma DEF vars, NothingNew
<1>4. ASSUME NothingNew, UNCHANGED owed PROVE OwedWhileWaiting'
  BY <1>4 DEF NothingNew, OwedWhileWaiting
<1>5. CASE Tick
  BY <1>5, LessNat DEF Tick, vars, OwedWhileWaiting, TimedTypeOK
<1>6. ASSUME NEW s \in Slots, TimedCommitNotRunning(s) \/ TimedScheduleRetry(s)
      PROVE OwedWhileWaiting'
  <2>1. NothingNew
    BY <1>3, <1>6 DEF OtherStep, TimedCommitNotRunning, TimedScheduleRetry, Finishes
  <2>2. CASE UNCHANGED times
    BY <1>4, <2>1, <2>2 DEF times
  <2>3. CASE /\ \E d \in Nat : PostponedBy(s, d)
             /\ slot[s].job \in Jobs
             /\ job'[slot[s].job].status = "queued"
    BY <2>1, <2>3 DEF PostponedBy, NothingNew, OwedWhileWaiting, TimedTypeOK
  <2> QED BY <1>6, <2>2, <2>3, PostponingSteps
<1>7. CASE UNCHANGED owed
  BY <1>2, <1>3, <1>4, <1>7, TimedStepCases
<1>8. ASSUME NEW p \in Publishers, \/ ClaimDueBatch(p) \/ TimedPublisherStep(p)
                                   \/ PublishFails(p) \/ PublisherCrashes(p)
      PROVE UNCHANGED owed
  BY <1>8 DEF ClaimDueBatch, TimedPublisherStep, PublishFails, PublisherCrashes, TimedLockEvent,
     SkipLockedEvent, EventPublished, RecordPublishFailure, times
<1>9. ASSUME NEW w \in Workers, TimedRecoveryStep(w) \/ TimedRedelivery(w) PROVE UNCHANGED owed
  BY <1>9 DEF TimedRecoveryStep, TimedCommitRecovered, TimedRedelivery, times
<1>10. ASSUME NEW j \in Jobs, TimedCreateJob(j) PROVE UNCHANGED owed
  BY <1>10 DEF TimedCreateJob
<1>11. CASE UNCHANGED times \/ UNCHANGED timedVars
  BY <1>7, <1>11 DEF times, timedVars
<1> QED BY <1>2, <1>5, <1>6, <1>7, <1>8, <1>9, <1>10, <1>11 DEF TimedNext, TimedHandlerStep,
           TimedRecoveryStep
\* A step gives job j no new event, message, handler or publisher.
Undisturbed(j) ==
    /\ outbox'[j] \subseteq outbox[j]
    /\ ready'[j] = ready[j]
    /\ \A s \in Slots : slot'[s].pc \in MayStart /\ slot'[s].job = j
                        => slot[s].pc \in MayStart /\ slot[s].job = j
    /\ \A p \in Publishers : pub'[p].pc # "idle" /\ pub'[p].job = j
                             => pub[p].pc # "idle" /\ pub[p].job = j

\* A step leaves the times of job j's events, its promise and what publishers
\* remember of it alone.
TimesKept(j) ==
    /\ \A e \in outbox'[j] : due'[j][e] = due[j][e]
    /\ owed'[j] = owed[j]
    /\ \A p \in Publishers : \A je \in claimed'[p] : je[1] = j => je \in claimed[p]
    /\ \A p \in Publishers : failure'[p] # NoFailure /\ failure'[p].job = j
                             => failure[p] # NoFailure /\ failure[p].job = j

\* An undisturbed job goes on waiting.
LEMMA StaysWaiting ==
    ASSUME NEW j \in Jobs, Waiting(j), Undisturbed(j), TimesKept(j)
    PROVE  Waiting(j)'
BY DEF Waiting, Undisturbed, TimesKept

\* A handler that does not receive a message starts nothing it could not start.
LEMMA HandlersUndisturbed ==
    ASSUME TypeOK, Shape, NEW s \in Slots,
           \/ LockOwner(s) \/ LockCandidate(s) \/ AckNotQueued(s) \/ Ack(s) \/ Finishes(s)
           \/ ObserveCancellation(s) \/ Raise(s) \/ CommitRunning(s) \/ CommitNotRunning(s)
    PROVE  \A r \in Slots : slot'[r].pc \in MayStart =>
              slot[r].pc \in MayStart /\ slot'[r].job = slot[r].job
<1>1. CASE LockOwner(s) \/ LockCandidate(s)
  <2>1. PICK c \in {"job", "run", "defer", "fail"} : slot' = [slot EXCEPT ![s].pc = c]
    BY <1>1 DEF LockOwner, LockCandidate, ClaimVerdict
  <2>2. slot[s].pc \in MayStart
    BY <1>1 DEF LockOwner, LockCandidate, MayStart
  <2> QED BY <2>1, <2>2, MovesLemma DEF TypeOK, Moves
<1>2. CASE AckNotQueued(s) \/ Ack(s)
  BY <1>2 DEF AckNotQueued, Ack, IdleSlot, TypeOK, MayStart
<1>3. CASE Finishes(s) \/ CommitNotRunning(s)
  <2>1. Moves(s, "ack")
    BY <1>3, MovesLemma DEF Finishes, FinishCompleted, FinishCancelled, FinishFailed, ScheduleRetry,
       Finalise, CommitNotRunning, TypeOK
  <2> QED BY <2>1 DEF Moves, MayStart
<1>4. CASE ObserveCancellation(s)
  BY <1>4, MovesLemma DEF ObserveCancellation, TypeOK, Moves, MayStart
<1>5. CASE Raise(s)
  BY <1>5 DEF Raise, IdleSlot, TypeOK, MayStart
<1>6. CASE CommitRunning(s)
  <2>1. slot'[s].pc = "exec" /\ \A r \in Slots : r # s => slot'[r] = slot[r]
    BY <1>6, Zenon DEF CommitRunning, TypeOK, SlotState
  <2> QED BY <2>1 DEF MayStart
<1> QED BY <1>1, <1>2, <1>3, <1>4, <1>5, <1>6

\* While a delay runs nothing but its end, or an older message that is delivered
\* again, gives the job a message, a publisher or an event that is due.
LEMMA DelayStep ==
    ASSUME Untimed, TimedTypeOK, RemembersUnpublished, OwedWhileWaiting, DelayRuns,
           [TimedNext]_timedVars
    PROVE  DelayRuns'
<1> SUFFICES ASSUME NEW j \in Jobs, owed'[j] # 0, ~leftover'[j] PROVE Waiting(j)'
  BY DEF DelayRuns
<1>t. TypeOK /\ Shape /\ LocksHeld /\ Inductive
  BY DEF Untimed, Inductive
<1>w. owed[j] # 0 /\ ~leftover[j] => Waiting(j)
  BY DEF DelayRuns
<1>1. ASSUME UNCHANGED times, Waiting(j) => Undisturbed(j) PROVE Waiting(j)'
  <2>1. Waiting(j) /\ TimesKept(j)
    BY <1>1, <1>w DEF times, TimesKept
  <2> QED BY <1>1, <2>1, StaysWaiting
<1>2. CASE Tick
  <2>1. owed'[j] = Less(owed[j]) /\ owed[j] \in Nat /\ leftover' = leftover
    BY <1>2 DEF Tick, TimedTypeOK
  <2>2. Waiting(j)
    BY <2>1, <1>w, LessNat
  <2>3. \A e \in outbox[j] : due'[j][e] >= owed'[j]
    <3> SUFFICES ASSUME NEW e \in outbox[j] PROVE due'[j][e] >= owed'[j]
      OBVIOUS
    <3>1. e \in Events /\ due[j][e] \in Nat /\ due'[j][e] = Less(due[j][e]) /\ due[j][e] >= owed[j]
      BY <1>2, <2>2, <1>t DEF Tick, TimedTypeOK, TypeOK, Waiting
    <3> QED BY <2>1, <3>1, LessNat
  <2>4. \A p \in Publishers : failure'[p] # NoFailure => failure[p] # NoFailure /\ failure'[p].job = failure[p].job
    BY <1>2 DEF Tick, TimedTypeOK, FailureRecord
  <2> QED BY <1>2, <2>2, <2>3, <2>4 DEF Tick, vars, Waiting
<1>3. ASSUME NEW i \in Jobs, TimedCreateJob(i) PROVE Waiting(j)'
  <2>1. Waiting(j) /\ i # j
    BY <1>3, <1>w DEF TimedCreateJob, CreateJob, OwedWhileWaiting
  <2>2. Undisturbed(j)
    BY <1>3, <1>t, <2>1 DEF TimedCreateJob, CreateJob, Undisturbed, TypeOK
  <2>3. TimesKept(j)
    BY <1>3, <1>t, <2>2 DEF TimedCreateJob, Available, Undisturbed, TimesKept, TypeOK
  <2> QED BY <2>1, <2>2, <2>3, StaysWaiting
<1>4. ASSUME NEW p \in Publishers, ClaimDueBatch(p) PROVE Waiting(j)'
  <2>1. Waiting(j)
    BY <1>4, <1>w DEF ClaimDueBatch
  <2>2. \A je \in DueEvents : je[1] # j
    <3> SUFFICES ASSUME NEW je \in DueEvents, je[1] = j PROVE FALSE
      OBVIOUS
    <3>1. je[2] \in outbox[j] /\ due[j][je[2]] = 0
      BY DEF DueEvents
    <3>2. owed[j] \in Nat /\ owed[j] # 0
      BY <1>4 DEF ClaimDueBatch, TimedTypeOK
    <3> QED BY <2>1, <3>1, <3>2 DEF Waiting
  <2>3. \A q \in Publishers : \A je \in claimed'[q] : je[1] # j
    BY <1>4, <2>1, <2>2 DEF ClaimDueBatch, Waiting, TimedTypeOK
  <2> QED BY <1>4, <2>1, <2>3 DEF ClaimDueBatch, vars, Waiting
<1>5. ASSUME NEW p \in Publishers, NEW i \in Jobs, NEW e \in Events, TimedLockEvent(p, i, e)
      PROVE Waiting(j)'
  <2>1. Waiting(j)
    BY <1>5, <1>w DEF TimedLockEvent
  <2>2. i # j
    BY <1>5, <2>1 DEF TimedLockEvent, Waiting
  <2>3. Undisturbed(j)
    BY <1>5, <1>t, <2>2 DEF TimedLockEvent, LockEvent, Undisturbed, TypeOK
  <2>4. TimesKept(j)
    BY <1>5 DEF TimedLockEvent, TimesKept, TimedTypeOK
  <2> QED BY <2>1, <2>3, <2>4, StaysWaiting
<1>6. ASSUME NEW p \in Publishers, NEW i \in Jobs, NEW e \in Events, SkipLockedEvent(p, i, e)
      PROVE Waiting(j)'
  <2>1. Waiting(j) /\ Undisturbed(j)
    BY <1>6, <1>w DEF SkipLockedEvent, vars, Undisturbed
  <2>2. TimesKept(j)
    BY <1>6 DEF SkipLockedEvent, TimesKept, TimedTypeOK
  <2> QED BY <2>1, <2>2, StaysWaiting
<1>7. ASSUME NEW p \in Publishers, EventPublished(p) PROVE Waiting(j)'
  <2>1. Waiting(j)
    BY <1>7, <1>w DEF EventPublished
  <2>2. Undisturbed(j)
    BY <1>7, <1>t DEF EventPublished, DiscardEvent, CommitPublished, IdlePub, Undisturbed, TypeOK
  <2>3. TimesKept(j)
    BY <1>7, <1>t, <2>2 DEF EventPublished, Available, Forget, Undisturbed, TimesKept, TypeOK
  <2> QED BY <2>1, <2>2, <2>3, StaysWaiting
<1>8. ASSUME NEW p \in Publishers, RecordPublishFailure(p) PROVE Waiting(j)'
  <2>1. Waiting(j) /\ Undisturbed(j)
    BY <1>8, <1>w DEF RecordPublishFailure, vars, Undisturbed
  <2>2. failure[p].job # j
    BY <1>8, <2>1 DEF RecordPublishFailure, Waiting
  <2>3. due'[j] = due[j]
    BY <1>8, <2>2 DEF RecordPublishFailure, TimedTypeOK
  <2>4. TimesKept(j)
    BY <1>8, <2>3 DEF RecordPublishFailure, TimesKept, TimedTypeOK
  <2> QED BY <2>1, <2>4, StaysWaiting
<1>9. ASSUME NEW p \in Publishers, PublishFails(p) PROVE Waiting(j)'
  <2>1. Waiting(j)
    BY <1>9, <1>w DEF PublishFails
  <2>2. Undisturbed(j)
    BY <1>9, <1>t DEF PublishFails, PublisherAborts, IdlePub, Undisturbed, TypeOK
  <2>3. pub[p].job # j
    BY <1>9, <2>1 DEF PublishFails, Waiting
  <2>4. TimesKept(j)
    BY <1>9, <2>3 DEF PublishFails, TimesKept, TimedTypeOK
  <2> QED BY <2>1, <2>2, <2>4, StaysWaiting
<1>10. ASSUME NEW p \in Publishers, PublisherCrashes(p) PROVE Waiting(j)'
  <2>1. Waiting(j)
    BY <1>10, <1>w DEF PublisherCrashes
  <2>2. Undisturbed(j)
    BY <1>10, <1>t DEF PublisherCrashes, PublisherAborts, IdlePub, Undisturbed, TypeOK
  <2>3. TimesKept(j)
    BY <1>10 DEF PublisherCrashes, TimesKept, TimedTypeOK
  <2> QED BY <2>1, <2>2, <2>3, StaysWaiting
<1>11. ASSUME NEW s \in Slots, TimedCommitRunning(s) PROVE Waiting(j)'
  <2>1. slot[s].job # j /\ Waiting(j)
    BY <1>11, <1>w DEF TimedCommitRunning, TimedTypeOK
  <2>2. Undisturbed(j)
    BY <1>11, <1>t, HandlersUndisturbed DEF TimedCommitRunning, CommitRunning, Undisturbed
  <2>3. TimesKept(j)
    BY <1>11, <2>1 DEF TimedCommitRunning, CommitRunning, TimesKept, TimedTypeOK
  <2> QED BY <2>1, <2>2, <2>3, StaysWaiting
<1>12. ASSUME NEW s \in Slots, NEW d \in Nat, PostponedBy(s, d), slot[s].job \in Jobs,
              outbox' = [outbox EXCEPT ![slot[s].job] = IfAbsent(@)],
              Moves(s, "ack"), UNCHANGED <<ready, pub>>
       PROVE Waiting(j)'
  <2>1. \A r \in Slots : slot'[r].pc \in MayStart =>
              r # s /\ slot[r].pc \in MayStart /\ slot'[r].job = slot[r].job
    BY <1>12 DEF Moves, MayStart
  <2>2. CASE slot[s].job # j
    <3>1. Waiting(j)
      BY <1>12, <2>2, <1>w DEF PostponedBy, TimedTypeOK
    <3>2. Undisturbed(j)
      BY <1>12, <1>t, <2>1, <2>2 DEF Undisturbed, TypeOK
    <3>3. TimesKept(j)
      BY <1>12, <1>t, <2>2, <3>2 DEF PostponedBy, Available, Undisturbed, TimesKept, TimedTypeOK, TypeOK
    <3> QED BY <3>1, <3>2, <3>3, StaysWaiting
  <2>3. CASE slot[s].job = j
    <3>1. owed'[j] = d /\ ~OlderDispatch(s)
      BY <1>12, <2>3 DEF PostponedBy, TimedTypeOK
    <3>2. /\ outbox[j] = {} /\ ~(ready[j] > 0)
          /\ \A r \in Slots \ {s} : ~(slot[r].job = j /\ slot[r].pc \in Undecided)
      BY <2>3, <3>1 DEF OlderDispatch
    <3>3. ready'[j] = 0
      BY <1>12, <1>t, <3>2 DEF TypeOK
    <3>4. \A e \in outbox'[j] : due'[j][e] >= owed'[j]
      <4>1. \A e \in outbox'[j] : due'[j][e] = d
        BY <1>12, <1>t, <2>3, <3>2, NewEventIn DEF PostponedBy, Available, TypeOK
      <4> QED BY <3>1, <4>1
    <3>5. \A r \in Slots : slot'[r].pc \in MayStart => slot'[r].job # j
      BY <2>1, <3>2 DEF MayStart, Undecided
    <3>6. \A p \in Publishers : pub'[p].pc # "idle" => pub'[p].job # j
      BY <1>12, <1>t, <3>2 DEF Shape
    <3>7. \A p \in Publishers : /\ \A je \in claimed'[p] : je[1] # j
                                /\ failure'[p] # NoFailure => failure'[p].job # j
      BY <1>12, <3>2 DEF PostponedBy, RemembersUnpublished
    <3> QED BY <3>3, <3>4, <3>5, <3>6, <3>7 DEF Waiting
  <2> QED BY <2>2, <2>3
<1>13. ASSUME NEW w \in Workers, TimedCommitRecovered(w) PROVE Waiting(j)'
  <2>1. Waiting(j) /\ owed[j] # 0
    BY <1>13, <1>w DEF TimedCommitRecovered
  <2>2. j \notin rec[w].batch
    BY <1>t, <2>1 DEF LocksHeld, RecoveryLocks, OwedWhileWaiting
  <2>3. Undisturbed(j)
    BY <1>13, <2>2 DEF TimedCommitRecovered, CommitRecovered, Undisturbed
  <2>4. TimesKept(j)
    BY <1>13, <1>t, <2>3 DEF TimedCommitRecovered, Available, Undisturbed, TimesKept, TypeOK
  <2> QED BY <2>1, <2>3, <2>4, StaysWaiting
<1>14. ASSUME NEW w \in Workers, TimedRedelivery(w) PROVE Waiting(j)'
  <2>1. ~leftover[j] /\ (\A s \in HeldBy(w) : slot[s].job # j) /\ Waiting(j)
    BY <1>14, <1>w DEF TimedRedelivery
  <2>2. Redelivered(w)[j] = ready[j]
    <3> DEFINE S == {s \in HeldBy(w) : slot[s].job = j}
    <3>1. S = {}
      BY <2>1
    <3>2. Redelivered(w)[j] = ready[j] + Cardinality(S) /\ ready[j] \in Nat
      BY <1>t DEF Redelivered, TypeOK
    <3> HIDE DEF S
    <3>3. Cardinality(S) = 0
      BY <3>1, FS_EmptySet
    <3> QED BY <3>2, <3>3
  <2>3. ready'[j] = ready[j] /\ UNCHANGED <<outbox, pub>>
    BY <1>14, <2>2 DEF TimedRedelivery, ProcessNext, WorkerCrashes, ConnectionLost, AckTimeout, ChannelCloses
  <2>4. \A s \in Slots : slot'[s].pc \in MayStart => slot[s].pc \in MayStart /\ slot'[s].job = slot[s].job
    <3>1. CASE WorkerCrashes(w)
      BY <3>1, <1>t DEF WorkerCrashes, IdleSlot, MayStart
    <3>2. CASE ChannelCloses(w)
      BY <3>2, <1>t DEF ChannelCloses, IdleSlot, MayStart, TypeOK, SlotState
    <3> QED BY <1>14, <3>1, <3>2 DEF TimedRedelivery, ProcessNext, ConnectionLost, AckTimeout
  <2>5. Undisturbed(j)
    BY <2>3, <2>4 DEF Undisturbed
  <2>6. TimesKept(j)
    BY <1>14 DEF TimedRedelivery, TimesKept
  <2> QED BY <2>1, <2>5, <2>6, StaysWaiting
<1>15. ASSUME NEW i \in Jobs, CancelJob(i) \/ LeaseExpires(i) PROVE Undisturbed(j)
  BY <1>15 DEF CancelJob, LeaseExpires, Undisturbed
<1>16. ASSUME NEW p \in Publishers, PublisherLocksJob(p) PROVE Undisturbed(j)
  BY <1>16, <1>t DEF PublisherLocksJob, Undisturbed, TypeOK, PubState
<1>17. ASSUME NEW p \in Publishers, PublishDispatch(p), Waiting(j) PROVE Undisturbed(j)
  <2>1. pub[p].job # j
    BY <1>17 DEF PublishDispatch, Waiting
  <2> QED BY <1>17, <2>1, <1>t DEF PublishDispatch, Undisturbed, TypeOK, PubState
<1>18. ASSUME NEW s \in Slots, NEW i \in Jobs, Deliver(s, i), Waiting(j) PROVE Undisturbed(j)
  <2>1. i # j
    BY <1>18 DEF Deliver, Waiting
  <2> QED BY <1>18, <2>1, <1>t DEF Deliver, IdleSlot, Undisturbed, TypeOK
<1>19. ASSUME NEW s \in Slots,
              \/ LockOwner(s) \/ LockCandidate(s) \/ AckNotQueued(s) \/ Ack(s)
              \/ FinishCompleted(s) \/ FinishCancelled(s) \/ FinishFailed(s)
              \/ ObserveCancellation(s) \/ HandlerRaises(s) \/ AbortHandler(s)
       PROVE Undisturbed(j)
  <2>1. UNCHANGED <<outbox, ready, pub>>
    BY <1>19 DEF LockOwner, LockCandidate, AckNotQueued, Ack, FinishCompleted, FinishCancelled,
       FinishFailed, Finalise, ObserveCancellation, HandlerRaises, AbortHandler, Raise
  <2> QED BY <1>19, <1>t, <2>1, HandlersUndisturbed DEF Finishes, HandlerRaises, AbortHandler, Undisturbed
<1>20. ASSUME NEW w \in Workers, \/ ClaimExpired(w) \/ RecoveryLocksOwner(w)
                                 \/ RecoveryRaises(w) \/ AbortRecovery(w)
       PROVE Undisturbed(j)
  BY <1>20 DEF ClaimExpired, RecoveryLocksOwner, RecoveryRaises, AbortRecovery, TaskDies, Undisturbed
<1>21. ASSUME NEW s \in Slots, TimedCommitNotRunning(s) \/ TimedScheduleRetry(s) PROVE Waiting(j)'
  <2>1. CASE UNCHANGED times /\ (CommitNotRunning(s) \/ ScheduleRetry(s)) /\ UNCHANGED outbox
    <3>1. UNCHANGED <<ready, pub>>
      BY <2>1 DEF CommitNotRunning, ScheduleRetry, Finalise
    <3>2. Undisturbed(j)
      BY <2>1, <3>1, <1>t, HandlersUndisturbed DEF Finishes, Undisturbed
    <3> QED BY <1>1, <2>1, <3>2
  <2> QED BY <1>12, <1>21, <2>1, PostponingSteps
<1>22. CASE UNCHANGED timedVars
  BY <1>1, <1>22 DEF timedVars, vars, Undisturbed
<1> QED BY <1>1, <1>2, <1>3, <1>4, <1>5, <1>6, <1>7, <1>8, <1>9, <1>10, <1>11, <1>13, <1>14,
           <1>15, <1>16, <1>17, <1>18, <1>19, <1>20, <1>21, <1>22
        DEF TimedNext, TimedPublisherStep, TimedHandlerStep, TimedRecoveryStep

-----------------------------------------------------------------------------
(* The theorems. *)

\* The pipeline's invariant and the one of the times, together.
LEMMA TimedInvariant == TimedSpec => [](Untimed /\ TimedInductive)
<1>1. TimedInit => Untimed /\ TimedInductive
  <2> SUFFICES ASSUME TimedInit PROVE Untimed /\ TimedInductive
    OBVIOUS
  <2>1. Untimed /\ TypeOK
    BY UntimedInit DEF TimedInit, Untimed, Inductive
  <2>2. TimedTypeOK
    BY <2>1 DEF TimedInit, TimedTypeOK
  <2> QED BY <2>1, <2>2 DEF TimedInit, TimedInductive, RemembersUnpublished, OwedWhileWaiting, DelayRuns
<1>2. Untimed /\ TimedInductive /\ [TimedNext]_timedVars => (Untimed /\ TimedInductive)'
  BY TimedStepIsStep, UntimedStep, TimedTypeStep, RemembersStep, OwedStep, DelayStep DEF TimedInductive
<1> QED BY <1>1, <1>2, PTL DEF TimedSpec

\* Times, back-offs, batches and recorded failures stay well typed: retries read a
\* configured delay and a recorded failure names an outbox event.
THEOREM TimedTypeCorrect == TimedSpec => []TimedTypeOK
<1>1. TimedInductive => TimedTypeOK
  BY DEF TimedInductive
<1> QED BY <1>1, TimedInvariant, PTL

\* The delay of a retry or of a deferral is kept for any number of publishers,
\* handlers, batches, failed publications and crashes, unless a message or event
\* older than the promise is around or is delivered again.
THEOREM DelayKept == TimedSpec => RetryDelayKept
<1>1. ASSUME Untimed, TimedInductive, [TimedNext]_timedVars, NEW j \in Jobs, Starts(j)
      PROVE  owed[j] = 0 \/ leftover[j]
  <2>1. Inductive /\ TypeOK /\ Shape /\ HandlerLocks
    BY <1>1 DEF Untimed, Inductive, LocksHeld
  <2>2. ~NothingNew
    BY <1>1 DEF Starts, NothingNew
  <2>3. PICK s \in Slots : TimedCommitRunning(s)
    BY <1>1, <2>1, <2>2, TimedStepCases, NothingNewLemma DEF vars, NothingNew
  <2>4. ClaimCommits(s, slot[s].job)
    BY <2>1, <2>3, ClaimCommitsLemma DEF TimedCommitRunning
  <2>5. slot[s].job = j /\ slot[s].pc = "run"
    BY <1>1, <2>4 DEF ClaimCommits, Starts
  <2> QED BY <1>1, <2>5 DEF TimedInductive, DelayRuns, Waiting, MayStart
<1>2. Untimed /\ TimedInductive /\ [TimedNext]_timedVars
        => [\A j \in Jobs : Starts(j) => owed[j] = 0 \/ leftover[j]]_timedVars
  BY <1>1
<1> QED BY <1>2, TimedInvariant, PTL DEF TimedSpec, RetryDelayKept
=============================================================================
