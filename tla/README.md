# Verification of the cloud job service

TLA+ models of the job service in this repository (FastAPI, PostgreSQL,
RabbitMQ, Redis), model-checked with TLC; every safety property of the passing
runs, and the refinement, is proved with TLAPS for every value of the constants. `PROJECT.json` is the machine-readable index: components, runs,
mutants, the source lines behind every definition, findings, hazards, theorems.

## 1. The system

A client submits a job (`POST /jobs`) with an idempotency key. The API commits
the job together with an outbox event. An outbox publisher turns the event into
a RabbitMQ message. A worker process receives the message, claims the job under
row locks, executes it and acknowledges. Each worker process also runs a
recovery task that requeues or fails executions whose lease has expired. After
their commits the processes invalidate a list cache in Redis and publish status
events that SSE streams relay to clients.

| Component | State | Operations | Talks to |
|---|---|---|---|
| Job rows (`app/models/job.py`, `app/repositories/jobs.py`) | status, attempt count, execution token, lease, cancellation request | conditional UPDATEs | everyone, through transactions |
| Unit of work (`app/db/uow.py`) | one transaction with its row locks | lock, commit, roll back on exit | PostgreSQL |
| Outbox and publisher (`app/repositories/outbox.py`, `app/workers/outbox_publisher.py`) | unpublished events | claim, lock, dispatch or discard, publish, mark published, record failure | job rows, RabbitMQ |
| RabbitMQ (`app/infrastructure/rabbitmq/`) | execute queue, unacknowledged deliveries | publish, deliver (prefetch 4), redeliver | publisher, workers |
| Worker (`app/workers/job_worker.py`) | handlers in flight, their tokens and attempts | claim, defer, execute, poll for cancellation, finalise, retry, acknowledge | job rows, outbox, RabbitMQ |
| Recovery (`app/workers/stale_running_recovery.py`) | a batch of expired executions | claim batch, lock owners, requeue or fail | job rows, outbox |
| Job service (`app/application/services/jobs.py`) | none | create, cancel, list, read | all of the above |
| Rate limiter (`app/infrastructure/redis/rate_limiter.py`) | a counter per user and window | reserve, release | Redis |
| List cache (`app/infrastructure/redis/job_list_cache.py`) | version counters, pages | get, set, invalidate | Redis |
| Notifiers, pub/sub, SSE (`app/workers/post_commit.py`, `job_status_pubsub.py`, `app/api/routes/jobs.py`) | subscriptions | publish, snapshot, relay, heartbeat | Redis, clients |
| Listing (`app/application/services/jobs.py`, `app/repositories/jobs.py`) | cursors held by clients | keyset query, build page, encode and decode cursor | job rows, list cache |
| Accounts and tokens (`app/application/services/auth.py`, `app/repositories/users.py`, `app/core/security.py`, `app/cli/create_admin.py`) | user rows, tokens held by clients | register, create or update administrator, log in, check token | PostgreSQL |
| Logs, configuration, health, migrations | | | not modelled, see section 8 |

What is hard to test here: lock order between worker and recovery; publishing
before committing; acknowledging after committing; duplicated and late
messages; check-then-act on counts and events; executions that outlive their
lease; crashes and exceptions at every point of these; Redis operations that
are not atomic with the database; events lost between a snapshot and a
subscription; delays that duplicated messages and stale batches can cut short;
pages of one walk read at different times; requests racing for one e-mail
address; accounts that change while a token is alive. `PROJECT.json` lists each at its line under `hazards`, with the
properties that would catch it going wrong.

## 2. Modules

| Module | Models | Lines of argument |
|---|---|---|
| `JobState` | a job row; each repository statement as a function from row to row; the domain layer's transition table | used by the modules below |
| `JobLifecycle` | abstract specification: what the pipeline promises about status and attempts of every job | |
| `JobDispatch` | API create/cancel, publisher, queue, handlers, recovery, locks, deadlock detection, crashes | implements `JobLifecycle` (`ImplementsLifecycle`) |
| `TimedDispatch` | `JobDispatch` with `available_at`, retry, deferral and publication delays, and the publisher's batch of ids | implements `JobDispatch` (`TimedIsDispatch`) |
| `JobCreation` | concurrent `POST /jobs`, unique constraint, rate limiter | |
| `JobListCache` | `GET /jobs` with versioned cache keys, invalidation, expiry | |
| `StatusStream` | post-commit events and SSE streams of one job | takes the transition table of `JobState`; that the pipeline moves along it is what `ImplementsLifecycle` shows |
| `JobListing` | walks through `GET /jobs` with cursors, limits and cached pages | the cache is abstracted to pages of any age; how old they can be is `JobListCache`'s subject |
| `Accounts` | registration, `create_admin`, login and the check of tokens | |
| `JobDispatchProofs`, `JobLifecycleProofs`, `TimedDispatchProofs`, `JobCreationProofs`, `JobListCacheProofs`, `JobListingProofs`, `AccountsProofs`, `StatusStreamProofs` | theorems about the modules they are named after | section 6; `JobLifecycleProofs` extends `JobDispatchProofs`, `TimedDispatchProofs` extends both |
| `MC*` | constants for TLC | |

### JobDispatch and the code

Granularity: a transaction that locks one row is one step, enabled while the row
is free. A transaction that locks several rows, or publishes before it commits,
is split wherever another transaction can see or block it. Uncommitted writes
are applied by the committing step.

* `job[j]` is the committed row; `outbox[j]` the committed unpublished events
  (`published_at IS NULL`); `ready[j]` the number of messages waiting; `slot[s]`
  a coroutine of `handle_message`; `pub[p]` a publisher process; `rec[w]` the
  recovery task of worker process `w`; `userLock` and `jobLock` the
  `FOR UPDATE` locks.
* Publisher (`_process_claimed_event_once`): `LockEvent`, `PublisherLocksJob` or
  `DiscardEvent`, `PublishDispatch`, `CommitPublished`; `PublisherAborts` at any
  point, also after the broker has the message.
* Handler (`handle_message`): `Deliver`, `LockOwner`, then `LockCandidate` (whose
  `ClaimVerdict` is run, defer or fail) or `AckNotQueued`; `CommitRunning` or
  `CommitNotRunning`; `ObserveCancellation`; `FinishCompleted`,
  `FinishCancelled`, `FinishFailed` or `ScheduleRetry`; `Ack`. `HandlerRaises` is
  an exception at any point: nobody acknowledges, the delivery keeps occupying
  the prefetch window (`"unacked"`) until the channel closes.
* Recovery: `ClaimExpired` (job rows, `SKIP LOCKED`), `RecoveryLocksOwner` once per
  job, `CommitRecovered` for the batch. `RecoveryRaises` ends the task for good:
  nothing in `run_job_worker.py` restarts it.
* `WorkerCrashes` restarts the process; `ConnectionLost` and `AckTimeout` put
  deliveries back while their handlers go on (`held = FALSE`).
* `AbortHandler` and `AbortRecovery` are PostgreSQL's deadlock victims.

Abstracted: time (an event is due, and a lease expires, at any moment; leases are
never renewed in the code; `TimedDispatch` puts the times of events back), payloads, log rows, `last_error`, `worker_id`. A
message body that cannot be parsed is not modelled: the publisher writes none.
A missing job or owner row is not modelled: neither is ever deleted.

### TimedDispatch and the code

A point of time is what is left until it, so `Tick` needs no clock and no bound.
`due` is `available_at` and `tries` `publish_attempts` of each event. `ClaimDueBatch`
is `claim_due_batch`: its transaction ends at once and only ids are kept
(`claimed`), so that locking an event (`TimedLockEvent`) does not look at
`available_at` again, and an event locked by somebody else is skipped
(`SkipLockedEvent`). `PublishFails` rolls back and gives up the lock;
`RecordPublishFailure` writes the new `available_at` in a transaction of its own,
possibly after another publisher has published the event (`Forget`). A failure
before anything is caught, such as a lost database, ends the process
(`PublisherCrashes`). `Postpone` is the delay of `_schedule_retry` and of the
capacity deferral, counted from a `now` read before the row was waited for.
`owed` and `leftover` are history variables of the properties.

### The other modules and the code

* `JobCreation`: one request is the body of `create_job` split at every await that
  others can observe: `Lookup`, `BuildWindowKey` (the window, from the clock),
  `Reserve` (the script, which may run in a later window), `Insert` (waits for, or
  is refused by, another row with the key), `Commit`, `Release`, `Load`. A counter
  that is missing in Redis counts 0; it expires only after its window, which takes
  the clocks of the API and of Redis to agree within the margin. `expired` and
  `late` are history variables of the properties. `ReserveFails` and
  `ReleaseFails` fail open, whether or not the script has run; `WriteFails`
  includes a COMMIT that was applied and reported as failed; `Killed` runs no
  exception handler.
* `JobListCache`: the content of a list is the number of changes committed to it.
  The publisher never invalidates, workers and recovery once, the API twice.
  `announced`, `floor` and `excused` (versions under which a stale page may be
  stored) are history variables of the property.
* `StatusStream`: an event is the status it carries. The API reads the job again
  before it announces a cancellation request (`Refresh`). The heartbeat ends the
  stream, because `wait_for` cancels the iterator's pending `__anext__`.
* `JobListing`: `ListKeyset` is the query, `BuildPage` cuts the extra row off and
  encodes the cursor, `ServeCached` and `ServeQueried` are the two ways through
  `list_jobs`. `CommitJob` commits a job with any `created_at`: the column is filled
  from a process's clock before the commit. `asOf`, `base` and `seen` are history.
* `Accounts`: a registration is `Lookup`, `FlushInsert`, `CommitRequest`; a command
  `SelectForUpdate`, then an insert or an update, and `CommitRequest`. The INSERT
  waits for a transaction that has inserted the address. A login reads the row in
  one transaction and verifies the copy afterwards; a call decodes the token and
  then reads the row. The clock counts half seconds so that cutting `exp` to whole
  seconds shows. No code deactivates users: `Deactivate` is the operator.

## 3. Properties and runs

| Run | Instance | Checks |
|---|---|---|
| `redelivery` | 1 job, 2 publishers, 2 handlers, 3 attempts, 2 faults, 2 queued duplicates | `NoLostDispatch`, `AtMostOneUnpublished`, `AttemptBudget`, `OutcomeOfCurrentAttempt`, `CancellationHonoured`, `ImplementsLifecycle` |
| `contention` | 2 jobs of 1 user, limit 1, one job without a handler, 2 workers with recovery, no fault | `TypeOK`, `RunningLimit`, `DeadlockNeedsRecovery`, `ImplementsLifecycle`, `EventuallyTerminal` |
| `timing` | 2 publishers, 2 handlers; 1 job and 1 fault, or 2 jobs at their last attempt, limit 1, no fault | `TimedTypeOK`, `RetryDelayKept`, `EventuallyTerminal` |
| `creation` | 4 requests (3 share a key), limit 1, 2 windows, 1 failure (Redis, database or process) | `TypeOK`, `OneJobPerKey`, `ConflictFindsJob`, `WithinLimit`, `QuotaAccounted`, `EveryoneAnswered` |
| `list` | 2 administrators, 2 workers, 1 fault | `TypeOK`, `ServedFresh`, `EventuallyFresh` |
| `listing` | 3 jobs of 2 users, 2 values of `created_at`, an administrator and an owner, 2 limits | `TypeOK`, `WalkComplete`, `NothingTwice`, `OwnJobsOnly`, `WalkEnds` |
| `accounts` | 2 registrations and 2 commands for 1 address, 1 login, 1 call, 1 database error | `TypeOK`, `OneAccountPerEmail`, `RegistrationTruthful`, `AdminStands`, `TokensFollowAccount`, `EveryoneAnswered` |
| `stream` | 1 client, 4 commits, 1 fault | `TypeOK`, `TerminalIsTrue`, `EventuallyTold` |
| `recovery_lost`, `lock_order`, `replay_quota`, `retry_delay` | | expected violations, section 5 |

What they show, beyond the definitions' comments:

* `NoLostDispatch`: no crash, exception, lost publish or lost commit leaves a
  waiting job with neither an event nor a message. The acknowledgement of a
  message for a *pending* job is safe only because its publisher's event is
  still unpublished.
* `AtMostOneUnpublished`: the check-then-insert has no constraint behind it; it is
  safe because every caller holds the job's row lock.
* `AttemptBudget`: the branch that fails a queued job without executing it, a
  transition the domain table does not allow, is unreachable.
* `CancellationHonoured`: no statement that requeues, recovers or claims a job
  mentions `cancel_requested_at`, so an accepted request outlives them all; and a
  running job is cancelled only on request, although a handler that finds another
  execution's token at its poll gives up in the same way.
* `WithinLimit`: failed scripts, late releases and scripts that run after their
  window admit nobody beyond the limit. One case does, and is named as the excuse
  (`late`): the key is built from the clock before the script is sent, and a script
  that reaches Redis more than the 5 s margin after its window meets an expired
  counter and starts again at 1.
* `DeadlockNeedsRecovery`: API, publisher and handlers never deadlock among
  themselves. Worker against recovery does, and PostgreSQL's victim is either a
  message that is redelivered or the recovery task, which does not come back.
* `RetryDelayKept` says what the delays are worth: nothing but an older message or
  event for the same job can start an attempt early. A publisher's stale batch
  cannot, because a batch holds only events that were due.
* `EventuallyTerminal` in `timing` needs no assumption that every event gets its
  turn: it follows from the poll loop, the back-off and the passing of time, also
  when a publisher dies with a batch in its hands.
* `WalkComplete` and `NothingTwice` hold although the pages of one walk need not
  come from one state of the table, because `created_at` and the id never change
  and every cursor names a position in one total order.
* `AdminStands` and `RegistrationTruthful`: whoever wins the race for an address,
  nobody is told something untrue; a command that loses to a registration ends
  with an error (only `create_user` recognises the constraint) and must be
  repeated.
* `ServedFresh` names the only two ways an announced change can be missing from
  a list: a page stored under a version read after the query, and a version
  number that is used again after its counter expired. Each excuses the pages of
  that one version: lists read under any other are fresh. `EventuallyFresh` shows
  that the TTL bounds both.
* `EventuallyTold`: once the job has stopped changing, a client that reconnects
  ends up with its status, terminal or not, whatever order the events came in. It
  rests on the heartbeat closing a quiet stream: with a heartbeat that kept it
  open (its mutant) a client that missed the last event would wait forever.

Every property of a passing run has a mutant, a plausible bug in the definition
it replaces (the operators marked "Mutant of"), under which TLC finds the
property violated.

## 4. Bounds, deadlock checking and fairness

Two jobs of one owner with `MaxRunning = 1` make capacity, deferral and batches
of recovery happen. The schema fixes `max_retries` at 3; one or two retries give
a first, a middle, a last and a forbidden attempt. One fault suffices for each
single failure, and `redelivery` combines two of them with a third attempt, so
that a duplicated message can start an attempt whose own event is still
unpublished and that attempt can be retried. `contention` has no faults and no
retries but two of everything that competes for locks. `MaxReady` keeps a
publisher from adding duplicates without end. `Tokens` is larger than the tokens
that can be in use at once, so a fresh one always exists; `Events` has two
members so that a second event could be inserted. `timing` starts in one of
two states (`MCTimedDispatch`): a new job beside a cancelled one with a fault to
come, so that retries meet failed publications and crashes, or two jobs whose
retry is due and no fault, so that deferrals meet each other; one unit of delay
is enough to tell early from in time. In `JobCreation` three requests on one key are the winner, the
replay and the conflicting reuse, and the second window exists for late
scripts, late releases and expired counters. In `JobListCache` a worker whose
one invalidation fails is as silent as the publisher, and two workers
invalidating are the two invalidations of the API with another commit between
them; both readers list as administrator, whose version every writer has to
raise. In `JobListing` three jobs, two values of
`created_at` and pages of one or two rows give ties within a page, across a page
boundary and in an exactly full page; one cached page at a time can be of any
age. In `Accounts` two requests of each kind for one address give every pair that
can race; time runs past the life of a token. The proofs of section 6 remove
these bounds for every safety property; they remain for liveness.

`CHECK_DEADLOCK FALSE` where the system may stop: all jobs are terminal, all
requests are answered, the client has been told. `JobListCache` and `JobListing`
never stop and are checked for deadlock. Symmetry is not used.

Fairness of `JobDispatch!FairSpec`: no fairness for API calls, faults and crashes.
The publisher orders events by `available_at` and RabbitMQ keeps its queue in
order, hence strong fairness for picking up each job's event and message. A
process takes its next step; where it waits for a row lock strong fairness is
PostgreSQL's lock queue. Leases expire, deadlocks are resolved, and the broker's
acknowledgement timeout fires. Since the number of faults is bounded, each run
says what happens once faults stop. `JobCreation!FairSpec`: the event loop runs
every request that can move. `JobListCache!FairSpec`: begun requests finish and
keys with a TTL expire. `StatusStream!FairSpec`: streams take their steps and a
client that was cut off reconnects, as EventSource clients do; nobody has to
publish. `TimedDispatch!TimedFairSpec`: as `JobDispatch`, but a publisher only polls
(`ClaimDueBatch`) and works through its batch, and time passes.
`JobListing!FairSpec`: a client follows the cursor it was given.
`Accounts!FairSpec`: requests take their steps, with PostgreSQL's lock queue.

## 5. Findings

1. `recovery_lost` (code bug): one exception ends the recovery task of a worker
   process (`run_job_worker.py:92`) while the process stays healthy. Running
   jobs whose lease has expired are then never recovered, against README.md:199.
   `EventuallyTerminal` is stated accordingly: a job ends unless no worker process
   has a recovery task left.
2. `lock_order` (documentation): DESIGN.md:21 says recovery locks the owner row
   and then the job row; the code does the reverse, which is what makes
   deadlocks with the worker possible.
3. `replay_quota` (documentation): a concurrent idempotent replay consumes quota
   for a while, and a request rejected meanwhile stays rejected.
4. `retry_delay` (documentation): README.md:186 says retry delays are 5, 15 and 30
   seconds. The delay is only the `available_at` of an event that is created if
   none is unpublished, and a message is accepted whenever the job is queued. A
   message that was published twice, or an event left unpublished although its
   message had been sent, starts the retry at once. `RetryDelayKept` is what holds.

## 6. What is proved

Every invariant and every action property of the passing runs, and the
refinement of `JobLifecycle`, for any sets of jobs, users, workers, handlers,
publishers, requests, clients and pages (finite where a cardinality is taken)
and any values of the limits and of the bounds on faults.

| Module | Theorem | Property |
|---|---|---|
| `JobDispatchProofs` | `InductiveInvariant` | `Spec => []Inductive` |
| | `TypeCorrect` | `TypeOK` |
| | `DispatchNeverLost` | `NoLostDispatch` |
| | `SingleUnpublishedEvent` | `AtMostOneUnpublished` |
| | `CapacityRespected` | `RunningLimit` |
| | `BudgetRespected` | `AttemptBudget` |
| | `StaleOutcomesDropped` | `OutcomeOfCurrentAttempt` |
| | `RequestsHonoured` | `CancellationHonoured` |
| `JobLifecycleProofs` | `DeadlockOnlyWithRecovery` | `DeadlockNeedsRecovery` |
| | `LifecycleImplemented` | `ImplementsLifecycle` |
| `TimedDispatchProofs` | `TimedIsDispatch` | `TimedSpec => Spec` |
| | `TimedPipelineSafe` | the four safety invariants of `JobDispatch`, of `TimedSpec` |
| | `TimedTypeCorrect` | `TimedTypeOK` |
| | `DelayKept` | `RetryDelayKept` |
| `JobCreationProofs` | `CreationTypeCorrect` | `TypeOK` |
| | `UniqueCreation` | `OneJobPerKey` |
| | `ConflictResolved` | `ConflictFindsJob` |
| | `LimitHolds` | `WithinLimit` |
| | `QuotaGivenBack` | `QuotaAccounted` |
| `JobListCacheProofs` | `CacheTypeCorrect` | `TypeOK` |
| | `ListsAreFresh` | `ServedFresh` |
| `JobListingProofs` | `ListingTypeCorrect` | `TypeOK` |
| | `WalksAreComplete` | `WalkComplete` |
| | `NothingRepeated` | `NothingTwice` |
| | `ListsArePrivate` | `OwnJobsOnly` |
| `AccountsProofs` | `AccountsTypeCorrect` | `TypeOK` |
| | `UniqueAccount` | `OneAccountPerEmail` |
| | `TruthfulAnswers` | `RegistrationTruthful` |
| | `AdminsStand` | `AdminStands` |
| | `TokensFollow` | `TokensFollowAccount` |
| `StatusStreamProofs` | `StreamTypeCorrect` | `TypeOK` |
| | `ToldTheTruth` | `TerminalIsTrue` |

Assumptions: the named `ASSUME`s of the model modules, which TLC evaluates in
every run. They type the constants, make finite what is counted, and say that a
value standing for "none" (`NoToken`, `NoEvent`, `NoUser`, `NoCursor`...) is none
of the values it stands beside.

Hardly any of the properties is inductive alone. Each model module ends with the
inductive invariant of its proof (`Inductive`, `TimedInductive`), which TLC has
also checked on the instance of the module's run. Each proof has one lemma per
action, and the argument is in the conjuncts that are added:

* `JobDispatch`: what a busy actor names exists (`Shape`); which locks a
  transaction holds at each point and that the row it has read still has the
  status it decided on (`LocksHeld`); one publisher per job
  (`OnePublisherPerJob`), which with the row lock gives the uniqueness of events;
  a handler that has the row's token runs the row's attempt
  (`TokenMatchesAttempt`), which gives the fencing; one that gives up with the row's
  token has seen a request (`GivesUpOnRequest`); a publisher about to commit
  has left a live message (`SentIsLive`), without which `NoLostDispatch` would
  break at `CommitPublished`; a handler about to start a job has room
  (`RoomReserved`), because the owner's row lock keeps everybody else from
  starting one.
* The refinement needs, beyond `Inductive`, that no handler is ever in the branch
  that fails a queued job (`AttemptBudget` keeps it out): each action maps to one
  of `JobLifecycle` for the job whose row it writes, `CommitRecovered` to one for
  the whole batch, and every other action to a stutter. `DeadlockNeedsRecovery`
  needs the converse of `LocksHeld`, that a lock is held only by a transaction
  past the statement that took it (`HoldersAtWork`): a handler or a publisher that
  holds a job's row then waits for nobody, so that no cycle can pass through it.
* `TimedDispatch`: `TimedSpec => Spec` is shown action by action. `DelayKept` rests
  on `DelayRuns`: while a delay runs, every event of the job is due no earlier
  than the delay ends, and no publisher, batch, recorded failure, message or
  handler has the job, or else something older was around (`leftover`).
* `JobCreation`: an uncommitted row blocks its key until its transaction ends
  (`UncommittedRows`) and a refused request will find the job (`RefusedFindsRow`).
  A counter that has not expired covers the reservations of its window, and equals
  them while no Redis call has failed (`CounterCovers`, `ReservationShape`): a script
  that finds such a counter, in its window or after it, admits nobody beyond the
  limit. One that meets an expired counter is `late` and not counted; so what was
  admitted stays within the limit in every window (`AdmittedWithinLimit`).
* `JobListCache`: the page under the current version has all that was announced
  (`VisibleFresh`), a page on its way to the cache has what was announced when its
  request began (`QueriedFresh`), and a request that read an older version finds
  nothing older than itself there (`LateReadsFresh`), each for the versions that are
  not `excused`: an expiring counter leaves other versions without pages and
  requests. `VersionsLeft` counts the
  invalidations that are still to come.
* `JobListing`: `Before` is a strict total order on the rows, so LIMIT returns an
  initial segment of it and a last row exists. Hence a page is all of its list or
  exactly the part up to its next cursor (`RightPage`), and stays so when jobs are
  committed (`PagesRight`); a walk has shown exactly what lies before its cursor
  (`ShownPassed`, `PassedShown`). That a finite set has a first row is proved from
  the least of the numbers of rows ahead.
* `Accounts`: an uncommitted INSERT is alone with its address (`InsertedAlone`), a
  row carries the address of the request that made it (`RowsOfRequests`), a locked
  row is a command's that will update it (`LocksOfCommands`), and an address a
  command has written has a row (`ResetsHaveRows`). `TokensWellFormed` keeps the
  rounding of `exp` on the safe side.
* `StatusStream`: a terminal status anywhere under way, in a snapshot, an
  unpublished event or a queue, is the job's (`OnlyTruthUnderWay`).

## 7. Only model-checked

Liveness: `EventuallyTerminal`, `EveryoneAnswered` (of `JobCreation` and of
`Accounts`), `EventuallyFresh`, `EventuallyTold` and `WalkEnds`, because fairness
and `ENABLED` are out of the prover's reach. The four expected violations are
counterexamples and have nothing to prove. That the mutants break the
properties is TLC's result too.

## 8. Not modelled

Job logs (written in the modelled transactions and never read by a decision), the
contents of payloads and responses, dead-lettering of unparsable messages (the
publisher writes none), cursors and tokens the service did not issue (refused
where they are decoded), rows deleted behind the program's back, hashing and
signing (library calls), header values, configuration, logging, health checks
and migrations: they keep no state of their own, or are conversions no property
here depends on. The reasons are in `PROJECT.json`, `components`.

## 9. Plan

Done, in this order: `JobState`, `JobDispatch` with its properties,
`JobLifecycle` and the refinement, liveness, `JobCreation`, `JobListCache`,
`StatusStream`, the inductive invariant of `JobDispatch` and its proof,
`TimedDispatch`, `JobListing`, `Accounts`; then the proofs of the refinement, of
`TimedDispatch` and of the safety of the other five modules.

Next: statements that the theorems make cheap and no run can show, such as the
strict descent of a walk's cursor, which is the safety half of `WalkEnds`, and
that the windows' quota and the running limit hold together for one user.
