----------------------------- MODULE TimedDispatch -----------------------------
(***************************************************************************)
(* JobDispatch with the time the outbox depends on: available_at of the    *)
(* events, the delays of retries, deferrals and failed publications, and   *)
(* the batch of event ids a publisher collects in one transaction and      *)
(* processes in later ones.                                                *)
(*                                                                         *)
(* A point of time is represented by what is left until it: 0 is now or    *)
(* past, and Tick takes one unit off everything that is left, so the clock *)
(* itself is not in the state and time is unbounded.  Every action is an   *)
(* action of JobDispatch with what it does to the times, or leaves the     *)
(* variables of JobDispatch alone.                                         *)
(***************************************************************************)
EXTENDS JobDispatch

CONSTANTS
    RetryDelay,    \* RETRY_BACKOFF_SECONDS_BY_ATTEMPT
    DeferDelay,    \* CAPACITY_DEFER_SECONDS
    MaxBackoff,    \* MAX_OUTBOX_BACKOFF_SECONDS
    OutboxBatch,   \* OUTBOX_BATCH_SIZE
    NoFailure

ASSUME TimeAssumption == /\ RetryDelay \in [1 .. 3 -> Nat]
                         /\ DeferDelay \in Nat
                         /\ MaxBackoff \in Nat \ {0}
                         /\ OutboxBatch \in Nat \ {0}

VARIABLES
    due,       \* what is left until available_at of each event
    tries,     \* publish_attempts of each event
    claimed,   \* events of a publisher's batch that it has not looked at yet
    failure,   \* the failed publication a publisher has yet to record
    owed,      \* history: what is left of the delay a job was promised
    leftover   \* history: a message or an event for the job that is older than
               \* the promise

times == <<due, tries, claimed, failure, owed, leftover>>
timedVars == <<vars, times>>

FailureRecord == [job : Jobs, event : Events, left : Nat]

TimedInit ==
    /\ Init
    /\ due = [j \in Jobs |-> [e \in Events |-> 0]]
    /\ tries = [j \in Jobs |-> [e \in Events |-> 0]]
    /\ claimed = [p \in Publishers |-> {}]
    /\ failure = [p \in Publishers |-> NoFailure]
    /\ owed = [j \in Jobs |-> 0]
    /\ leftover = [j \in Jobs |-> FALSE]

-----------------------------------------------------------------------------
(* Time. *)

Less(n) == IF n > 0 THEN n - 1 ELSE 0

Tick ==
    /\ \/ \E j \in Jobs : owed[j] > 0 \/ \E e \in Events : due[j][e] > 0
       \/ \E p \in Publishers : failure[p] # NoFailure /\ failure[p].left > 0
    /\ due' = [j \in Jobs |-> [e \in Events |-> Less(due[j][e])]]
    /\ owed' = [j \in Jobs |-> Less(owed[j])]
    /\ failure' = [p \in Publishers |->
                      IF failure[p] = NoFailure THEN NoFailure
                      ELSE [failure[p] EXCEPT !.left = Less(@)]]
    /\ UNCHANGED <<vars, tries, claimed, leftover>>

\* available_at of the events an action inserts; published events have none.
Available(d) ==
    /\ due' = [j \in Jobs |-> [e \in Events |->
                  IF e \notin outbox'[j] THEN 0
                  ELSE IF e \in outbox[j] THEN due[j][e] ELSE d]]
    /\ tries' = [j \in Jobs |-> [e \in Events |->
                  IF e \in outbox'[j] \cap outbox[j] THEN tries[j][e] ELSE 0]]

-----------------------------------------------------------------------------
(* The publisher. *)

\* An id of a published event is skipped when its turn comes, and a failure of
\* one is not recorded (both statements ask for published_at IS NULL).
Forget(j, e) ==
    /\ claimed' = [p \in Publishers |-> claimed[p] \ {<<j, e>>}]
    /\ failure' = [p \in Publishers |->
                      IF failure[p] # NoFailure /\ failure[p].job = j /\ failure[p].event = e
                      THEN NoFailure ELSE failure[p]]

\* Mutant of DueEvents: an event whose publication failed is not tried again.
UntriedEvents ==
    {je \in Jobs \X Events : /\ je[2] \in outbox[je[1]]
                             /\ due[je[1]][je[2]] = 0 /\ tries[je[1]][je[2]] = 0
                             /\ ~EventLocked(je[1], je[2])}

DueEvents ==
    {je \in Jobs \X Events : /\ je[2] \in outbox[je[1]]
                             /\ due[je[1]][je[2]] = 0
                             /\ ~EventLocked(je[1], je[2])}

\* claim_due_batch: oldest first, up to the limit.  The transaction ends at once
\* and with it the locks; only the ids are kept.
ClaimDueBatch(p) ==
    /\ pub[p].pc = "idle"
    /\ claimed[p] = {}
    /\ failure[p] = NoFailure
    /\ \E B \in SUBSET DueEvents :
          /\ B # {}
          /\ Cardinality(B) <= OutboxBatch
          /\ Cardinality(B) = OutboxBatch \/ B = DueEvents
          /\ claimed' = [claimed EXCEPT ![p] = B]
    /\ UNCHANGED <<vars, due, tries, failure, owed, leftover>>

\* get_by_id_for_update_unpublished, which does not look at available_at again.
TimedLockEvent(p, j, e) ==
    /\ <<j, e>> \in claimed[p]
    /\ failure[p] = NoFailure
    /\ LockEvent(p, j, e)
    /\ claimed' = [claimed EXCEPT ![p] = @ \ {<<j, e>>}]
    /\ UNCHANGED <<due, tries, failure, owed, leftover>>

SkipLockedEvent(p, j, e) ==
    /\ pub[p].pc = "idle"
    /\ failure[p] = NoFailure
    /\ <<j, e>> \in claimed[p]
    /\ EventLocked(j, e)
    /\ claimed' = [claimed EXCEPT ![p] = @ \ {<<j, e>>}]
    /\ UNCHANGED <<vars, due, tries, failure, owed, leftover>>

EventPublished(p) ==
    /\ DiscardEvent(p) \/ CommitPublished(p)
    /\ Forget(pub[p].job, pub[p].event)
    /\ Available(0)
    /\ UNCHANGED <<owed, leftover>>

\* _compute_retry_delay_seconds: the power of two while it is within the maximum.
ComputeRetryDelay(n) ==
    LET d == 2 ^ (IF n > 1 THEN n - 1 ELSE 0) IN IF d \in 0 .. MaxBackoff THEN d ELSE MaxBackoff

\* publish_dispatch raises, before or after the broker has the message.  The
\* transaction is rolled back, and with it the lock on the event, before the
\* next available_at is computed and recorded in a transaction of its own.
PublishFails(p) ==
    /\ pub[p].pc \in {"send", "commit"}
    /\ PublisherAborts(p)
    /\ failure' = [failure EXCEPT ![p] =
                      [job |-> pub[p].job, event |-> pub[p].event,
                       left |-> ComputeRetryDelay(tries[pub[p].job][pub[p].event] + 1)]]
    /\ UNCHANGED <<due, tries, claimed, owed, leftover>>

\* Mutant of RecordPublishFailure: the time is taken off twice.
RecordEarlier(p) ==
    LET f == failure[p] IN
    /\ f # NoFailure
    /\ ~EventLocked(f.job, f.event)
    /\ due' = [due EXCEPT ![f.job][f.event] = f.left - 1]
    /\ tries' = [tries EXCEPT ![f.job][f.event] = @ + 1]
    /\ failure' = [failure EXCEPT ![p] = NoFailure]
    /\ UNCHANGED <<vars, claimed, owed, leftover>>

\* record_publish_failure waits for a publisher that has locked the event.
RecordPublishFailure(p) ==
    LET f == failure[p] IN
    /\ f # NoFailure
    /\ ~EventLocked(f.job, f.event)
    /\ due' = [due EXCEPT ![f.job][f.event] = f.left]
    /\ tries' = [tries EXCEPT ![f.job][f.event] = @ + 1]
    /\ failure' = [failure EXCEPT ![p] = NoFailure]
    /\ UNCHANGED <<vars, claimed, owed, leftover>>

\* Nothing is caught in run_forever: the process ends and is restarted.
PublisherCrashes(p) ==
    /\ pub[p].pc # "idle" \/ claimed[p] # {} \/ failure[p] # NoFailure
    /\ PublisherAborts(p)
    /\ claimed' = [claimed EXCEPT ![p] = {}]
    /\ failure' = [failure EXCEPT ![p] = NoFailure]
    /\ UNCHANGED <<due, tries, owed, leftover>>

-----------------------------------------------------------------------------
(* Jobs and handlers. *)

\* Another message for the job of s, or an event that its retry will not replace.
OlderDispatch(s) ==
    LET j == slot[s].job IN
    \/ outbox[j] # {}
    \/ ready[j] > 0
    \/ \E r \in Slots \ {s} : slot[r].job = j /\ slot[r].pc \in Undecided

\* Mutant of Postpone: the event is due at once.
PostponeByNothing(s, delay) ==
    /\ owed' = [owed EXCEPT ![slot[s].job] = delay]
    /\ leftover' = [leftover EXCEPT ![slot[s].job] = OlderDispatch(s)]
    /\ Available(0)
    /\ UNCHANGED <<claimed, failure>>

\* The delay counts from a `now` that is read before the row is waited for.
Postpone(s, delay) ==
    /\ leftover' = [leftover EXCEPT ![slot[s].job] = OlderDispatch(s)]
    /\ \E waited \in 0 .. delay :
          /\ owed' = [owed EXCEPT ![slot[s].job] = delay - waited]
          /\ Available(delay - waited)
    /\ UNCHANGED <<claimed, failure>>

TimedCreateJob(j) ==
    /\ CreateJob(j)
    /\ Available(0)
    /\ UNCHANGED <<claimed, failure, owed, leftover>>

TimedCommitRunning(s) ==
    /\ CommitRunning(s)
    /\ owed' = [owed EXCEPT ![slot[s].job] = 0]
    /\ leftover' = [leftover EXCEPT ![slot[s].job] = FALSE]
    /\ UNCHANGED <<due, tries, claimed, failure>>

TimedCommitNotRunning(s) ==
    /\ CommitNotRunning(s)
    /\ \/ slot[s].pc = "defer" /\ Postpone(s, DeferDelay)
       \/ slot[s].pc = "fail" /\ UNCHANGED times

\* _schedule_retry; a stale handler's retry is dropped.
TimedScheduleRetry(s) ==
    /\ ScheduleRetry(s)
    /\ \/ /\ Owns(job[slot[s].job], slot[s].token)
          /\ Postpone(s, RetryDelay[slot[s].attempt])
       \/ /\ ~Owns(job[slot[s].job], slot[s].token)
          /\ UNCHANGED times

\* Recovered jobs are due at once.
TimedCommitRecovered(w) ==
    /\ CommitRecovered(w)
    /\ Available(0)
    /\ UNCHANGED <<claimed, failure, owed, leftover>>

\* Deliveries that are put back are older than any promise.
TimedRedelivery(w) ==
    /\ ProcessNext(w)
    /\ leftover' = [j \in Jobs |-> leftover[j] \/ \E s \in HeldBy(w) : slot[s].job = j]
    /\ UNCHANGED <<due, tries, claimed, failure, owed>>

-----------------------------------------------------------------------------
TimedPublisherStep(p) ==
    \/ \E j \in Jobs : \E e \in Events : TimedLockEvent(p, j, e) \/ SkipLockedEvent(p, j, e)
    \/ PublisherLocksJob(p) /\ UNCHANGED times
    \/ PublishDispatch(p) /\ UNCHANGED times
    \/ EventPublished(p)
    \/ RecordPublishFailure(p)

TimedHandlerStep(s) ==
    \/ TimedCommitRunning(s)
    \/ TimedCommitNotRunning(s)
    \/ TimedScheduleRetry(s)
    \/ UNCHANGED times /\ ( \/ LockOwner(s)
                            \/ LockCandidate(s)
                            \/ AckNotQueued(s)
                            \/ FinishCompleted(s)
                            \/ FinishCancelled(s)
                            \/ FinishFailed(s)
                            \/ Ack(s) )

TimedRecoveryStep(w) ==
    \/ TimedCommitRecovered(w)
    \/ UNCHANGED times /\ (ClaimExpired(w) \/ RecoveryLocksOwner(w))

TimedNext ==
    \/ Tick
    \/ \E j \in Jobs : \/ TimedCreateJob(j)
                       \/ UNCHANGED times /\ (CancelJob(j) \/ LeaseExpires(j))
    \/ \E p \in Publishers : ClaimDueBatch(p) \/ TimedPublisherStep(p)
                             \/ PublishFails(p) \/ PublisherCrashes(p)
    \/ \E s \in Slots : \/ TimedHandlerStep(s)
                        \/ /\ UNCHANGED times
                           /\ \/ \E j \in Jobs : Deliver(s, j)
                              \/ ObserveCancellation(s)
                              \/ HandlerRaises(s)
                              \/ AbortHandler(s)
    \/ \E w \in Workers : \/ TimedRecoveryStep(w)
                          \/ TimedRedelivery(w)
                          \/ UNCHANGED times /\ (RecoveryRaises(w) \/ AbortRecovery(w))

TimedSpec == TimedInit /\ [][TimedNext]_timedVars

\* As in JobDispatch, with time passing and the publisher's poll loop in the
\* place of the assumption that every event gets its turn.
TimedFairness ==
    /\ WF_timedVars(Tick)
    /\ \A j \in Jobs :
          /\ SF_timedVars(\E s \in Slots : Deliver(s, j) /\ UNCHANGED times)
          /\ WF_timedVars(LeaseExpires(j) /\ UNCHANGED times)
    /\ \A p \in Publishers : /\ WF_timedVars(ClaimDueBatch(p))
                             /\ SF_timedVars(TimedPublisherStep(p))
    /\ \A s \in Slots : SF_timedVars(TimedHandlerStep(s))
    /\ \A w \in Workers : /\ SF_timedVars(TimedRecoveryStep(w))
                          /\ WF_timedVars(AckTimeout(w) /\ TimedRedelivery(w))
    /\ WF_timedVars(UNCHANGED times /\ ( \/ \E s \in Slots : AbortHandler(s)
                                         \/ \E w \in Workers : AbortRecovery(w) ))

TimedFairSpec == TimedSpec /\ TimedFairness

TimedTypeOK ==
    /\ TypeOK
    /\ due \in [Jobs -> [Events -> Nat]]
    /\ tries \in [Jobs -> [Events -> Nat]]
    /\ claimed \in [Publishers -> SUBSET (Jobs \X Events)]
    /\ failure \in [Publishers -> FailureRecord \cup {NoFailure}]
    /\ owed \in [Jobs -> Nat]
    /\ leftover \in [Jobs -> BOOLEAN]

-----------------------------------------------------------------------------
(* Properties. *)

Starts(j) == job[j].status = "queued" /\ job'[j].status = "running"

\* README.md:186 "Retry delays are 5, 15, and 30 seconds": an attempt never starts
\* before the delay of the retry, or of the deferral, that preceded it has passed.
RetryDelays == [][\A j \in Jobs : Starts(j) => owed[j] = 0]_timedVars

\* The delay _schedule_retry and the capacity deferral announce is kept, whatever
\* publishers, handlers and recovery do, unless an older message or event for
\* the job was around when it was announced or is redelivered afterwards.
RetryDelayKept == [][\A j \in Jobs : Starts(j) => owed[j] = 0 \/ leftover[j]]_timedVars

-----------------------------------------------------------------------------
(* The inductive invariant behind RetryDelayKept. *)

\* What a publisher remembers of earlier transactions is still unpublished.
RemembersUnpublished ==
    \A p \in Publishers :
        /\ \A je \in claimed[p] : je[2] \in outbox[je[1]]
        /\ failure[p] # NoFailure => failure[p].event \in outbox[failure[p].job]

\* Only a job that waits is owed a delay.
OwedWhileWaiting ==
    \A j \in Jobs : job[j].status \in {"absent", "running"} => owed[j] = 0

\* The stages of a handler that can still start the job it was given.
MayStart == {"user", "job", "run", "defer", "fail"}

\* While a delay runs, every event of the job waits as long, no publisher works on
\* one or remembers one, and no message for the job is queued or being handled.
Waiting(j) ==
    /\ \A e \in outbox[j] : due[j][e] >= owed[j]
    /\ ready[j] = 0
    /\ \A s \in Slots : slot[s].pc \in MayStart => slot[s].job # j
    /\ \A p \in Publishers :
          /\ pub[p].pc # "idle" => pub[p].job # j
          /\ \A je \in claimed[p] : je[1] # j
          /\ failure[p] # NoFailure => failure[p].job # j

DelayRuns == \A j \in Jobs : owed[j] = 0 \/ leftover[j] \/ Waiting(j)

TimedInductive ==
    /\ TimedTypeOK
    /\ RemembersUnpublished
    /\ OwedWhileWaiting
    /\ DelayRuns
=============================================================================
