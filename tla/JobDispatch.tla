------------------------------ MODULE JobDispatch ------------------------------
(***************************************************************************)
(* The dispatch pipeline: the API's create and cancel transactions, the    *)
(* outbox publisher, the RabbitMQ execute queue, the message handlers of   *)
(* the worker processes and the stale-running recovery task that each      *)
(* worker process runs beside its consumer.                                *)
(*                                                                         *)
(* A transaction that takes one row lock is one step, enabled while the    *)
(* row is free.  A transaction that takes several locks, or that publishes *)
(* a message before it commits, is split at every point where another      *)
(* transaction can see or block it.  Uncommitted writes are not in the     *)
(* state: they are applied by the step that commits, so an abort only      *)
(* releases locks.                                                         *)
(*                                                                         *)
(* Time is abstracted: an unpublished event may be picked up at any        *)
(* moment, a lease may expire at any moment of an execution.               *)
(***************************************************************************)
EXTENDS JobState, FiniteSets

CONSTANTS
    Jobs, Users,
    Owner,        \* owner_id of each job
    Unhandled,    \* jobs whose type has no registered handler
    Workers,      \* worker processes; each names its recovery transaction too
    Slots,        \* handler coroutines of the consumers, one message each
    Proc,         \* the worker process a slot belongs to
    Publishers,   \* outbox-publisher processes
    Events,       \* identities of outbox events of one job
    MaxRunning,   \* JOB_MAX_RUNNING_PER_USER
    Prefetch,     \* prefetch_count of a worker's channel
    BatchSize,    \* RECOVERY_BATCH_SIZE
    MaxFaults,    \* bound on the number of injected faults
    MaxReady,     \* a publisher leaves a job's event alone while this many
                  \* messages for the job wait in the queue (bounds the model)
    NoTxn, NoJob, NoEvent

Txns == Slots \cup Publishers \cup Workers

ASSUME JobsAssumption == /\ Owner \in [Jobs -> Users]
                         /\ Unhandled \subseteq Jobs
                         /\ NoJob \notin Jobs
                         /\ IsFiniteSet(Jobs)
ASSUME TxnAssumption == /\ Proc \in [Slots -> Workers]
                        /\ Slots \cap Publishers = {}
                        /\ Slots \cap Workers = {}
                        /\ Publishers \cap Workers = {}
                        /\ NoTxn \notin Txns
                        /\ IsFiniteSet(Slots)
ASSUME EventAssumption == NoEvent \notin Events /\ Events # {}
ASSUME BoundAssumption == /\ MaxRunning \in Nat \ {0}
                          /\ Prefetch \in Nat \ {0}
                          /\ BatchSize \in Nat \ {0}
                          /\ MaxFaults \in Nat
                          /\ MaxReady \in Nat \ {0}

VARIABLES
    job,       \* committed rows of jobs
    outbox,    \* committed unpublished dispatch events of each job
    ready,     \* number of messages for each job waiting in the execute queue
    slot,      \* message handlers
    pub,       \* publisher processes
    rec,       \* recovery tasks
    userLock,  \* row locks on users
    jobLock,   \* row locks on jobs
    faults     \* faults injected so far

vars == <<job, outbox, ready, slot, pub, rec, userLock, jobLock, faults>>

SlotState ==
    [pc      : {"idle", "user", "job", "run", "defer", "fail",
                "exec", "cancel", "ack", "unacked"},
     job     : Jobs \cup {NoJob},
     token   : Tokens \cup {NoToken},
     attempt : Nat,
     held    : BOOLEAN]     \* the delivery is still the channel's to acknowledge

PubState == [pc : {"idle", "job", "send", "commit"},
             job : Jobs \cup {NoJob}, event : Events \cup {NoEvent}]

\* todo: jobs of the batch whose owner is not locked yet; cur: the next of them
RecState == [pc : {"idle", "batch", "dead"},
             batch : SUBSET Jobs, todo : SUBSET Jobs, cur : Jobs \cup {NoJob}]

IdleSlot == [pc |-> "idle", job |-> NoJob, token |-> NoToken, attempt |-> 0, held |-> FALSE]
IdlePub  == [pc |-> "idle", job |-> NoJob, event |-> NoEvent]
IdleRec  == [pc |-> "idle", batch |-> {}, todo |-> {}, cur |-> NoJob]
DeadRec  == [IdleRec EXCEPT !.pc = "dead"]

Init ==
    /\ job = [j \in Jobs |-> NoRow]
    /\ outbox = [j \in Jobs |-> {}]
    /\ ready = [j \in Jobs |-> 0]
    /\ slot = [s \in Slots |-> IdleSlot]
    /\ pub = [p \in Publishers |-> IdlePub]
    /\ rec = [w \in Workers |-> IdleRec]
    /\ userLock = [u \in Users |-> NoTxn]
    /\ jobLock = [j \in Jobs |-> NoTxn]
    /\ faults = 0

-----------------------------------------------------------------------------
(* Row locks. *)

Free(lock, r) == lock[r] = NoTxn

\* The end of the transactions T, by commit or by rollback.
Released(lock, T) == [r \in DOMAIN lock |-> IF lock[r] \in T THEN NoTxn ELSE lock[r]]

EndTxns(T) == /\ userLock' = Released(userLock, T)
              /\ jobLock' = Released(jobLock, T)

LocksUnchanged == UNCHANGED <<userLock, jobLock>>

Fault == /\ faults < MaxFaults
         /\ faults' = faults + 1

-----------------------------------------------------------------------------
(* Outbox events. *)

\* create_dispatch_event, for a job with the unpublished events ev.  Which of
\* the unused ids (uuid4) the new event gets does not matter.
NewEvent(ev) == CHOOSE e \in Events : e \notin ev

\* Mutant of IfAbsent: inserts without looking.
InsertAlways(ev) == ev \cup {NewEvent(ev)}

\* create_dispatch_event_if_absent.
IfAbsent(ev) == IF ev = {} THEN {NewEvent(ev)} ELSE ev

-----------------------------------------------------------------------------
(* The API. *)

\* A job and its first dispatch event are committed together.  The foreign key to
\* users makes the INSERT wait for a transaction that holds the owner's row.
CreateJob(j) ==
    /\ job[j].status = "absent"
    /\ Free(userLock, Owner[j])
    /\ job' = [job EXCEPT ![j] = CreatePendingJob(@)]
    /\ outbox' = [outbox EXCEPT ![j] = {NewEvent({})}]
    /\ UNCHANGED <<ready, slot, pub, rec, faults>>
    /\ LocksUnchanged

\* Requests on a terminal job, and repeated requests on a running one, change
\* nothing.
CancelJob(j) ==
    /\ Free(jobLock, j)
    /\ \/ /\ job[j].status \in {"pending", "queued"}
          /\ job' = [job EXCEPT ![j] = CancelPendingOrQueued(@)]
       \/ /\ job[j].status = "running"
          /\ ~job[j].cancel
          /\ job' = [job EXCEPT ![j] = RequestRunningCancellation(@)]
    /\ UNCHANGED <<outbox, ready, slot, pub, rec, faults>>
    /\ LocksUnchanged

\* A lease is never renewed: any execution may outlive it.
LeaseExpires(j) ==
    /\ job[j].status = "running"
    /\ ~job[j].expired
    /\ job' = [job EXCEPT ![j].expired = TRUE]
    /\ UNCHANGED <<outbox, ready, slot, pub, rec, faults>>
    /\ LocksUnchanged

-----------------------------------------------------------------------------
(* The outbox publisher. *)

EventLocked(j, e) == \E p \in Publishers : pub[p].job = j /\ pub[p].event = e

\* claim_due_batch only collects ids; the lock that counts is taken for one
\* event at a time and skips events another publisher holds.
LockEvent(p, j, e) ==
    /\ pub[p].pc = "idle"
    /\ e \in outbox[j]
    /\ ready[j] < MaxReady
    /\ ~EventLocked(j, e)
    /\ pub' = [pub EXCEPT ![p] = [pc |-> "job", job |-> j, event |-> e]]
    /\ UNCHANGED <<job, outbox, ready, slot, rec, faults>>
    /\ LocksUnchanged

\* The job row is waited for.  Its status is read under the lock and decides
\* whether the event is dispatched or discarded.
PublisherLocksJob(p) ==
    LET j == pub[p].job IN
    /\ pub[p].pc = "job"
    /\ Free(jobLock, j)
    /\ job[j].status \in {"pending", "queued"}
    /\ jobLock' = [jobLock EXCEPT ![j] = p]
    /\ pub' = [pub EXCEPT ![p].pc = "send"]
    /\ UNCHANGED <<job, outbox, ready, slot, rec, userLock, faults>>

DiscardEvent(p) ==
    LET j == pub[p].job IN
    /\ pub[p].pc = "job"
    /\ Free(jobLock, j)
    /\ job[j].status \notin {"pending", "queued"}
    /\ outbox' = [outbox EXCEPT ![j] = @ \ {pub[p].event}]
    /\ pub' = [pub EXCEPT ![p] = IdlePub]
    /\ UNCHANGED <<job, ready, slot, rec, faults>>
    /\ LocksUnchanged

\* The broker has the message before the transaction that marks the event
\* published and the job queued commits.
PublishDispatch(p) ==
    /\ pub[p].pc = "send"
    /\ ready' = [ready EXCEPT ![pub[p].job] = @ + 1]
    /\ pub' = [pub EXCEPT ![p].pc = "commit"]
    /\ UNCHANGED <<job, outbox, slot, rec, faults>>
    /\ LocksUnchanged

CommitPublished(p) ==
    LET j == pub[p].job IN
    /\ pub[p].pc = "commit"
    /\ job' = [job EXCEPT ![j] = MarkQueued(@)]
    /\ outbox' = [outbox EXCEPT ![j] = @ \ {pub[p].event}]
    /\ pub' = [pub EXCEPT ![p] = IdlePub]
    /\ EndTxns({p})
    /\ UNCHANGED <<ready, slot, rec, faults>>

\* A publish that raises (before or after the broker stored the message, the
\* confirm may be what was lost), a failed commit, a crash: the transaction is
\* rolled back and the event stays unpublished.  What record_publish_failure
\* writes (attempt count, error, next available_at) only moves time.  An idle
\* publisher has nothing to lose.
PublisherAborts(p) ==
    /\ Fault
    /\ pub' = [pub EXCEPT ![p] = IdlePub]
    /\ EndTxns({p})
    /\ UNCHANGED <<job, outbox, ready, slot, rec>>

-----------------------------------------------------------------------------
(* The worker's message handler. *)

HeldBy(w) == {s \in Slots : Proc[s] = w /\ slot[s].held}

\* Every message names a job that exists: it was published under a lock on the
\* job's row and jobs are never deleted.
Deliver(s, j) ==
    /\ slot[s].pc = "idle"
    /\ ready[j] > 0
    /\ Cardinality(HeldBy(Proc[s])) < Prefetch
    /\ slot' = [slot EXCEPT ![s] = [IdleSlot EXCEPT !.pc = "user", !.job = j, !.held = TRUE]]
    /\ ready' = [ready EXCEPT ![j] = @ - 1]
    /\ UNCHANGED <<job, outbox, pub, rec, faults>>
    /\ LocksUnchanged

\* Mutant of LockOwner: the owner row is read without FOR UPDATE.
ReadOwner(s) ==
    /\ slot[s].pc = "user"
    /\ slot' = [slot EXCEPT ![s].pc = "job"]
    /\ UNCHANGED <<job, outbox, ready, pub, rec, faults>>
    /\ LocksUnchanged

LockOwner(s) ==
    LET u == Owner[slot[s].job] IN
    /\ slot[s].pc = "user"
    /\ Free(userLock, u)
    /\ userLock' = [userLock EXCEPT ![u] = s]
    /\ slot' = [slot EXCEPT ![s].pc = "job"]
    /\ UNCHANGED <<job, outbox, ready, pub, rec, jobLock, faults>>

RunningOf(u) == {j \in Jobs : Owner[j] = u /\ job[j].status = "running"}

\* Mutant of ClaimVerdict: the limit is compared with > instead of >=.
ClaimOneTooMany(j) ==
    IF job[j].attempts + 1 > MaxTotal THEN "fail"
    ELSE IF Cardinality(RunningOf(Owner[j])) > MaxRunning THEN "defer"
    ELSE "run"

\* What the claim transaction decides to do with a queued job.
ClaimVerdict(j) ==
    IF job[j].attempts + 1 > MaxTotal THEN "fail"
    ELSE IF Cardinality(RunningOf(Owner[j])) >= MaxRunning THEN "defer"
    ELSE "run"

LockCandidate(s) ==
    LET j == slot[s].job IN
    /\ slot[s].pc = "job"
    /\ Free(jobLock, j)
    /\ job[j].status = "queued"
    /\ jobLock' = [jobLock EXCEPT ![j] = s]
    /\ slot' = [slot EXCEPT ![s].pc = ClaimVerdict(j)]
    /\ UNCHANGED <<job, outbox, ready, pub, rec, userLock, faults>>

\* A message for a job that is pending (its publisher's commit failed), already
\* running or terminal is acknowledged and forgotten.
AckNotQueued(s) ==
    /\ slot[s].pc = "job"
    /\ Free(jobLock, slot[s].job)
    /\ job[slot[s].job].status # "queued"
    /\ slot' = [slot EXCEPT ![s] = IdleSlot]
    /\ EndTxns({s})
    /\ UNCHANGED <<job, outbox, ready, pub, rec, faults>>

\* uuid4: a token no row and no handler carries.
FreshTokens == Tokens \ ({job[j].token : j \in Jobs} \cup {slot[s].token : s \in Slots})

\* Mutant of CommitRunning: the owner row stays locked by a session left open.
CommitKeepsOwner(s) ==
    LET j == slot[s].job
        t == CHOOSE x \in FreshTokens : TRUE
    IN
    /\ slot[s].pc = "run"
    /\ FreshTokens # {}
    /\ job' = [job EXCEPT ![j] = MarkRunning(@, t)]
    /\ slot' = [slot EXCEPT ![s].pc = "exec", ![s].token = t,
                            ![s].attempt = job[j].attempts + 1]
    /\ jobLock' = Released(jobLock, {s})
    /\ UNCHANGED <<outbox, ready, pub, rec, userLock, faults>>

CommitRunning(s) ==
    LET j == slot[s].job
        t == CHOOSE x \in FreshTokens : TRUE
    IN
    /\ slot[s].pc = "run"
    /\ FreshTokens # {}
    /\ job' = [job EXCEPT ![j] = MarkRunning(@, t)]
    /\ slot' = [slot EXCEPT ![s].pc = "exec", ![s].token = t,
                            ![s].attempt = job[j].attempts + 1]
    /\ EndTxns({s})
    /\ UNCHANGED <<outbox, ready, pub, rec, faults>>

\* Mutant of CommitNotRunning: the message is acknowledged without a new event.
DeferWithoutEvent(s) ==
    LET j == slot[s].job IN
    /\ slot[s].pc \in {"defer", "fail"}
    /\ job' = [job EXCEPT ![j] =
                  IF slot[s].pc = "fail" THEN MarkFailedWithoutExecution(@) ELSE @]
    /\ slot' = [slot EXCEPT ![s].pc = "ack"]
    /\ EndTxns({s})
    /\ UNCHANGED <<outbox, ready, pub, rec, faults>>

\* Deferral for capacity; or the final failure of a queued job that has no
\* attempt left.
CommitNotRunning(s) ==
    LET j == slot[s].job IN
    /\ slot[s].pc \in {"defer", "fail"}
    /\ job' = [job EXCEPT ![j] =
                  IF slot[s].pc = "fail" THEN MarkFailedWithoutExecution(@) ELSE @]
    /\ outbox' = [outbox EXCEPT ![j] = IF slot[s].pc = "defer" THEN IfAbsent(@) ELSE @]
    /\ slot' = [slot EXCEPT ![s].pc = "ack"]
    /\ EndTxns({s})
    /\ UNCHANGED <<ready, pub, rec, faults>>

\* The sleep handler polls between chunks; a poll that finds a cancellation
\* request, or another execution's token, ends the handler.
ObserveCancellation(s) ==
    LET j == slot[s].job IN
    /\ slot[s].pc = "exec"
    /\ j \notin Unhandled
    /\ Free(jobLock, j)
    /\ job[j].token # slot[s].token \/ job[j].cancel
    /\ slot' = [slot EXCEPT ![s].pc = "cancel"]
    /\ UNCHANGED <<job, outbox, ready, pub, rec, faults>>
    /\ LocksUnchanged

\* A finaliser is one UPDATE guarded by the execution token; when it matches
\* no row the outcome is dropped.  Either way the message is then acknowledged.
Finalise(s, newRow) ==
    /\ Free(jobLock, slot[s].job)
    /\ job' = [job EXCEPT ![slot[s].job] = newRow]
    /\ slot' = [slot EXCEPT ![s].pc = "ack"]
    /\ UNCHANGED <<ready, pub, rec, faults>>
    /\ LocksUnchanged

FinishCompleted(s) ==
    /\ slot[s].pc = "exec"
    /\ slot[s].job \notin Unhandled
    /\ Finalise(s, MarkCompleted(job[slot[s].job], slot[s].token))
    /\ UNCHANGED outbox

FinishCancelled(s) ==
    /\ slot[s].pc = "cancel"
    /\ Finalise(s, MarkCancelled(job[slot[s].job], slot[s].token))
    /\ UNCHANGED outbox

FinishFailed(s) ==
    /\ slot[s].pc = "exec"
    /\ slot[s].attempt >= MaxTotal \/ slot[s].job \in Unhandled
    /\ Finalise(s, MarkFailed(job[slot[s].job], slot[s].token))
    /\ UNCHANGED outbox

\* Mutant of ScheduleRetry: the job is requeued and no retry event written.
RetryWithoutEvent(s) ==
    /\ slot[s].pc = "exec"
    /\ slot[s].attempt < MaxTotal
    /\ slot[s].job \notin Unhandled
    /\ Finalise(s, RequeueRunning(job[slot[s].job], slot[s].token))
    /\ UNCHANGED outbox

\* The retry event is written only when the row was requeued.
ScheduleRetry(s) ==
    LET j == slot[s].job IN
    /\ slot[s].pc = "exec"
    /\ slot[s].attempt < MaxTotal
    /\ j \notin Unhandled
    /\ Finalise(s, RequeueRunning(job[j], slot[s].token))
    /\ outbox' = [outbox EXCEPT ![j] =
                     IF Owns(job[j], slot[s].token) THEN IfAbsent(@) ELSE @]

Ack(s) ==
    /\ slot[s].pc = "ack"
    /\ slot' = [slot EXCEPT ![s] = IdleSlot]
    /\ UNCHANGED <<job, outbox, ready, pub, rec, faults>>
    /\ LocksUnchanged

\* An exception that leaves handle_message: the transaction is rolled back and
\* nobody acknowledges or rejects the message.
Raise(s) ==
    /\ slot' = [slot EXCEPT ![s] =
                   IF @.held THEN [IdleSlot EXCEPT !.pc = "unacked", !.job = slot[s].job,
                                                   !.held = TRUE]
                   ELSE IdleSlot]
    /\ EndTxns({s})
    /\ UNCHANGED <<job, outbox, ready, pub, rec>>

\* A database or broker error anywhere in the handler.  In "exec" it is the
\* finaliser's, or the claim's COMMIT applied but reported as failed; in "ack"
\* it is the acknowledgement's, or a COMMIT applied but reported as failed.
HandlerRaises(s) ==
    /\ slot[s].pc \notin {"idle", "unacked"}
    /\ Fault
    /\ Raise(s)

-----------------------------------------------------------------------------
(* The recovery task of worker process w. *)

Stale == {j \in Jobs : job[j].status = "running" /\ job[j].expired /\ Free(jobLock, j)}

\* FOR UPDATE SKIP LOCKED on the job rows, up to the batch size; which ones,
\* and in which order, depends on their lease times.
ClaimExpired(w) ==
    /\ rec[w].pc = "idle"
    /\ \E B \in SUBSET Stale :
          /\ B # {}
          /\ Cardinality(B) <= BatchSize
          /\ Cardinality(B) = BatchSize \/ B = Stale
          /\ jobLock' = [j \in Jobs |-> IF j \in B THEN w ELSE jobLock[j]]
          /\ \E first \in B :
                rec' = [rec EXCEPT ![w] = [pc |-> "batch", batch |-> B, todo |-> B, cur |-> first]]
    /\ UNCHANGED <<job, outbox, ready, slot, pub, userLock, faults>>

\* The owner row of each job of the batch, after the job rows.
RecoveryLocksOwner(w) ==
    LET u == Owner[rec[w].cur]
        left == rec[w].todo \ {rec[w].cur}
    IN
    /\ rec[w].pc = "batch"
    /\ rec[w].cur # NoJob
    /\ userLock[u] \in {NoTxn, w}
    /\ userLock' = [userLock EXCEPT ![u] = w]
    /\ \E next \in (IF left = {} THEN {NoJob} ELSE left) :
          rec' = [rec EXCEPT ![w].todo = left, ![w].cur = next]
    /\ UNCHANGED <<job, outbox, ready, slot, pub, jobLock, faults>>

\* Mutant of RecoveredRow: the limit is compared with the attempts made so far.
RecoveredOnceMore(row) ==
    IF row.attempts > MaxTotal
    THEN MarkFailed(row, row.token)
    ELSE RequeueRunning(row, row.token)

RecoveredRow(row) ==
    IF row.attempts + 1 > MaxTotal
    THEN MarkFailed(row, row.token)
    ELSE RequeueRunning(row, row.token)

\* One commit for the whole batch.
CommitRecovered(w) ==
    LET B == rec[w].batch IN
    /\ rec[w].pc = "batch"
    /\ rec[w].cur = NoJob
    /\ job' = [j \in Jobs |-> IF j \in B THEN RecoveredRow(job[j]) ELSE job[j]]
    /\ outbox' = [j \in Jobs |-> IF j \in B /\ RecoveredRow(job[j]).status = "queued"
                                 THEN IfAbsent(outbox[j]) ELSE outbox[j]]
    /\ rec' = [rec EXCEPT ![w] = IdleRec]
    /\ EndTxns({w})
    /\ UNCHANGED <<ready, slot, pub, faults>>

\* No exception is caught in the loop, and nobody awaits or restarts the task
\* while the process lives.
TaskDies(w) ==
    /\ rec' = [rec EXCEPT ![w] = DeadRec]
    /\ EndTxns({w})
    /\ UNCHANGED <<job, outbox, ready, slot, pub>>

RecoveryRaises(w) ==
    /\ rec[w].pc # "dead"
    /\ Fault
    /\ TaskDies(w)

-----------------------------------------------------------------------------
(* PostgreSQL's deadlock detection. *)

\* The holder of the lock a transaction is waiting for.
WaitsFor(t) ==
    CASE t \in Slots /\ slot[t].pc = "user"     -> userLock[Owner[slot[t].job]]
      [] t \in Slots /\ slot[t].pc = "job"      -> jobLock[slot[t].job]
      [] t \in Publishers /\ pub[t].pc = "job"  -> jobLock[pub[t].job]
      [] t \in Workers /\ rec[t].cur # NoJob
         /\ userLock[Owner[rec[t].cur]] # t     -> userLock[Owner[rec[t].cur]]
      [] OTHER                                  -> NoTxn

\* S is a set of transactions each of which waits for another one of S.
Cycle(S) == S # {} /\ {WaitsFor(t) : t \in S} = S

Deadlocked(t) == WaitsFor(t) # NoTxn /\ \E S \in SUBSET Txns : t \in S /\ Cycle(S)

\* Any member of the cycle may be the one whose statement is cancelled.
AbortHandler(s) ==
    /\ Deadlocked(s)
    /\ Raise(s)
    /\ UNCHANGED faults

AbortRecovery(w) ==
    /\ Deadlocked(w)
    /\ TaskDies(w)
    /\ UNCHANGED faults

-----------------------------------------------------------------------------
(* Processes and connections. *)

\* Deliveries of w that go back to the queue when its channel closes.
Redelivered(w) ==
    [j \in Jobs |-> ready[j] + Cardinality({s \in HeldBy(w) : slot[s].job = j})]

\* The container is restarted (restart: unless-stopped), recovery task included.
WorkerCrashes(w) ==
    /\ Fault
    /\ ready' = Redelivered(w)
    /\ slot' = [s \in Slots |-> IF Proc[s] = w THEN IdleSlot ELSE slot[s]]
    /\ rec' = [rec EXCEPT ![w] = IdleRec]
    /\ EndTxns({w} \cup {s \in Slots : Proc[s] = w})
    /\ UNCHANGED <<job, outbox, pub>>

\* The robust connection reconnects; handlers keep running, but the messages
\* they were started for are delivered again.
ChannelCloses(w) ==
    /\ ready' = Redelivered(w)
    /\ slot' = [s \in Slots |->
                  IF Proc[s] # w THEN slot[s]
                  ELSE IF slot[s].pc = "unacked" THEN IdleSlot
                  ELSE [slot[s] EXCEPT !.held = FALSE]]
    /\ UNCHANGED <<job, outbox, pub, rec>>
    /\ LocksUnchanged

ConnectionLost(w) ==
    /\ HeldBy(w) # {}
    /\ Fault
    /\ ChannelCloses(w)

\* The broker's delivery acknowledgement timeout.
AckTimeout(w) ==
    /\ \E s \in Slots : Proc[s] = w /\ slot[s].pc = "unacked"
    /\ UNCHANGED faults
    /\ ChannelCloses(w)

-----------------------------------------------------------------------------
ApiNext == \E j \in Jobs : CreateJob(j) \/ CancelJob(j) \/ LeaseExpires(j)

\* What a process does on its own once it has something to do.
PublisherStep(p) ==
    \/ PublisherLocksJob(p)
    \/ DiscardEvent(p)
    \/ PublishDispatch(p)
    \/ CommitPublished(p)

HandlerStep(s) ==
    \/ LockOwner(s)
    \/ LockCandidate(s)
    \/ AckNotQueued(s)
    \/ CommitRunning(s)
    \/ CommitNotRunning(s)
    \/ FinishCompleted(s)
    \/ FinishCancelled(s)
    \/ FinishFailed(s)
    \/ ScheduleRetry(s)
    \/ Ack(s)

RecoveryStep(w) ==
    \/ ClaimExpired(w)
    \/ RecoveryLocksOwner(w)
    \/ CommitRecovered(w)

PublisherNext(p) ==
    \/ \E j \in Jobs : \E e \in Events : LockEvent(p, j, e)
    \/ PublisherStep(p)
    \/ PublisherAborts(p)

HandlerNext(s) ==
    \/ \E j \in Jobs : Deliver(s, j)
    \/ HandlerStep(s)
    \/ ObserveCancellation(s)
    \/ HandlerRaises(s)
    \/ AbortHandler(s)

RecoveryNext(w) ==
    \/ RecoveryStep(w)
    \/ RecoveryRaises(w)
    \/ AbortRecovery(w)

ProcessNext(w) ==
    \/ WorkerCrashes(w)
    \/ ConnectionLost(w)
    \/ AckTimeout(w)

Next ==
    \/ ApiNext
    \/ \E p \in Publishers : PublisherNext(p)
    \/ \E s \in Slots : HandlerNext(s)
    \/ \E w \in Workers : RecoveryNext(w) \/ ProcessNext(w)

Spec == Init /\ [][Next]_vars

\* Crashes, lost connections, raised errors and API calls carry no fairness.
\*  - Each job's events and messages get their turn: both queues are served
\*    oldest first.
\*  - A process that is not stuck takes its next step.  Where the step waits for
\*    a row lock, it is taken if the lock is freed again and again, because
\*    PostgreSQL queues the waiters.
\*  - A lease expires, PostgreSQL resolves a deadlock, the broker's
\*    acknowledgement timeout fires.
Fairness ==
    /\ \A j \in Jobs :
          /\ SF_vars(\E p \in Publishers : \E e \in Events : LockEvent(p, j, e))
          /\ SF_vars(\E s \in Slots : Deliver(s, j))
          /\ WF_vars(LeaseExpires(j))
    /\ \A p \in Publishers : SF_vars(PublisherStep(p))
    /\ \A s \in Slots : SF_vars(HandlerStep(s))
    /\ \A w \in Workers : SF_vars(RecoveryStep(w)) /\ WF_vars(AckTimeout(w))
    /\ WF_vars(\/ \E s \in Slots : AbortHandler(s)
               \/ \E w \in Workers : AbortRecovery(w))

FairSpec == Spec /\ Fairness

TypeOK ==
    /\ job \in [Jobs -> JobRow]
    /\ outbox \in [Jobs -> SUBSET Events]
    /\ ready \in [Jobs -> Nat]
    /\ slot \in [Slots -> SlotState]
    /\ pub \in [Publishers -> PubState]
    /\ rec \in [Workers -> RecState]
    /\ userLock \in [Users -> Txns \cup {NoTxn}]
    /\ jobLock \in [Jobs -> Txns \cup {NoTxn}]
    /\ faults \in Nat

-----------------------------------------------------------------------------
(* Safety. *)

\* A message for j that will still be looked at: in the queue, or delivered to
\* a handler that has not committed a decision about it.
Undecided == {"user", "job", "run", "defer", "fail", "unacked"}

LiveMessage(j) ==
    \/ ready[j] > 0
    \/ \E s \in Slots : slot[s].job = j /\ slot[s].held /\ slot[s].pc \in Undecided

\* No job is forgotten: a pending job has an unpublished dispatch event, a
\* queued job has one or has a message that some handler will still decide on
\* (transactional outbox plus late acknowledgement in handle_message).
NoLostDispatch ==
    \A j \in Jobs :
        /\ job[j].status = "pending" => outbox[j] # {}
        /\ job[j].status = "queued" => outbox[j] # {} \/ LiveMessage(j)

\* create_dispatch_event_if_absent checks and inserts in two statements and no
\* constraint backs it; the job row lock its callers hold must suffice.
AtMostOneUnpublished ==
    \A j \in Jobs : \A e, f \in outbox[j] : e = f

\* The running-job limit of an owner holds at every moment, although the count
\* and the claim are separate statements of concurrent transactions.
RunningLimit ==
    \A u \in Users : Cardinality(RunningOf(u)) <= MaxRunning

\* No job is executed more often than the retry budget allows, and a job waiting
\* for execution has an attempt left, so the branch that fails a queued job
\* without executing it is never taken.
AttemptBudget ==
    \A j \in Jobs :
        /\ job[j].attempts <= MaxTotal
        /\ job[j].status \in {"pending", "queued"} => job[j].attempts < MaxTotal

\* Every deadlock involves a recovery transaction: API, publisher and handlers
\* among themselves take their locks in a consistent order.
DeadlockNeedsRecovery ==
    \A S \in SUBSET Txns : Cycle(S) => S \cap Workers # {}

\* A handler's outcome is recorded only while the row still runs the attempt
\* that handler was started for; after a recovery or a restart it is dropped.
OutcomeOfCurrentAttempt ==
    [][\A s \in Slots :
          LET j == slot[s].job IN
          (/\ slot[s].pc \in {"exec", "cancel"}
           /\ slot'[s].pc = "ack"
           /\ job'[j] # job[j])
          => (job[j].status = "running" /\ job[j].attempts = slot[s].attempt)]_vars

\* An accepted cancellation request outlives retries, recoveries and restarts of
\* the job, none of which mention the column; and a running job is cancelled only
\* on request, although a handler that finds another execution's token at its
\* poll ends with JobCancelled as well.
CancellationHonoured ==
    [][\A j \in Jobs :
          /\ job[j].cancel => job'[j].cancel
          /\ job[j].status = "running" /\ job'[j].status = "cancelled" => job[j].cancel]_vars

\* The pipeline implements the abstract life cycle of its jobs.
Lifecycle == INSTANCE JobLifecycle WITH
    status   <- [j \in Jobs |-> job[j].status],
    attempts <- [j \in Jobs |-> job[j].attempts]

ImplementsLifecycle == Lifecycle!Spec

-----------------------------------------------------------------------------
(* Liveness, of FairSpec. *)

RecoveryAlive == \E w \in Workers : rec[w].pc # "dead"

\* Every accepted job reaches a terminal status, through any number of deferrals,
\* retries, crashes, redeliveries and expired leases, unless every worker process
\* has lost its recovery task.
EventuallyTerminal ==
    \A j \in Jobs : (job[j].status # "absent") ~> (job[j].status \in Terminal \/ ~RecoveryAlive)

\* README.md:199 "Worker crash plus lease expiry recovers a job."  An execution
\* whose lease expired and that no handler carries on any more ends.
Orphaned(j) ==
    /\ job[j].status = "running"
    /\ job[j].expired
    /\ \A s \in Slots : slot[s].token # job[j].token

LeaseExpiryRecovers == \A j \in Jobs : Orphaned(j) ~> (job[j].status # "running")

\* DESIGN.md:21 "Stale-running recovery re-locks the owner row and then the job
\* row": a recovery transaction that holds a job row holds its owner's row.
RecoveryLocksOwnerFirst ==
    \A w \in Workers : \A j \in Jobs : jobLock[j] = w => userLock[Owner[j]] = w

-----------------------------------------------------------------------------
(* The inductive invariant behind the safety properties. *)

Claiming == {"run", "defer", "fail"}

\* An actor that is busy names what it is busy with.
Shape ==
    /\ \A s \in Slots :
          /\ slot[s].pc # "idle" \/ slot[s].held => slot[s].job \in Jobs
          /\ slot[s].pc \in {"exec", "cancel"} => slot[s].token \in Tokens
    /\ \A p \in Publishers :
          pub[p].pc # "idle" => pub[p].job \in Jobs /\ pub[p].event \in outbox[pub[p].job]
    /\ \A w \in Workers : rec[w].pc # "batch" => rec[w].batch = {} /\ rec[w].cur = NoJob

\* A transaction holds the locks of the point it has reached, and the row it has
\* read under the lock still has the status it decided on.
HandlerLocks ==
    \A s \in Slots :
        /\ slot[s].pc \in Claiming \cup {"job"} => userLock[Owner[slot[s].job]] = s
        /\ slot[s].pc \in Claiming => /\ jobLock[slot[s].job] = s
                                      /\ job[slot[s].job].status = "queued"

PublisherLocks ==
    \A p \in Publishers :
        pub[p].pc \in {"send", "commit"} => /\ jobLock[pub[p].job] = p
                                           /\ job[pub[p].job].status \in {"pending", "queued"}

RecoveryLocks ==
    \A w \in Workers : \A j \in rec[w].batch : jobLock[j] = w /\ job[j].status = "running"

LocksHeld == HandlerLocks /\ PublisherLocks /\ RecoveryLocks

\* No two publishers work on events of the same job.
OnePublisherPerJob ==
    \A p, q \in Publishers :
        pub[p].pc # "idle" /\ pub[q].pc # "idle" /\ pub[p].job = pub[q].job => p = q

\* A handler whose token is the row's runs the row's current attempt.
TokenMatchesAttempt ==
    \A s \in Slots :
        (/\ slot[s].pc \in {"exec", "cancel"}
         /\ job[slot[s].job].token = slot[s].token)
        => slot[s].attempt = job[slot[s].job].attempts

\* A handler that gives up while its token is the row's has seen a request.
GivesUpOnRequest ==
    \A s \in Slots :
        (/\ slot[s].pc = "cancel"
         /\ job[slot[s].job].token = slot[s].token)
        => job[slot[s].job].cancel

\* A publisher about to mark its event published has left a message behind.
SentIsLive ==
    \A p \in Publishers : pub[p].pc = "commit" => LiveMessage(pub[p].job)

\* A handler about to start a job has read a count below the limit, and nobody
\* else can start a job of that owner.
RoomReserved ==
    \A s \in Slots :
        slot[s].pc = "run" => Cardinality(RunningOf(Owner[slot[s].job])) < MaxRunning

SubmittedOnce == \A j \in Jobs : job[j].status = "absent" => job[j].attempts = 0 /\ outbox[j] = {}

Inductive ==
    /\ TypeOK
    /\ Shape
    /\ LocksHeld
    /\ OnePublisherPerJob
    /\ AtMostOneUnpublished
    /\ SubmittedOnce
    /\ TokenMatchesAttempt
    /\ AttemptBudget
    /\ NoLostDispatch
    /\ SentIsLive
    /\ RoomReserved
    /\ RunningLimit
=============================================================================
