------------------------------ MODULE JobCreation ------------------------------
(***************************************************************************)
(* POST /jobs: concurrent create requests that may share an idempotency    *)
(* key, the unique constraint on (owner_id, idempotency_key), and the      *)
(* fixed-window rate limiter whose counters live in Redis.                 *)
(*                                                                         *)
(* A member of Keys stands for one (owner_id, idempotency_key) pair, a     *)
(* member of Hashes for the SHA-256 of a canonical request.  A counter of  *)
(* the rate limiter that does not exist is a counter of 0.  The API        *)
(* processes and Redis are taken to agree on the time: a counter outlives  *)
(* its window by KEY_EXPIRY_MARGIN_SECONDS.                                *)
(*                                                                         *)
(* The cache invalidation and the status event that follow a commit change *)
(* nothing here; JobListCache and StatusStream are about them.             *)
(***************************************************************************)
EXTENDS Naturals, FiniteSets

CONSTANTS
    Requests,     \* create requests
    Keys, KeyOf,  \* the key each request carries
    Users, User,  \* the owner a key belongs to
    Hashes, Hash, \* the request hash of each request
    Limit,        \* create_job_rate_limit
    MaxWindow,    \* bound on the number of rate windows that pass
    MaxFailures,  \* bound on failed Redis calls, killed requests and failed
                  \* database calls together
    NoHash, NoRequest

Windows == 1 .. MaxWindow

ASSUME RequestAssumption == /\ KeyOf \in [Requests -> Keys]
                            /\ User \in [Keys -> Users]
                            /\ Hash \in [Requests -> Hashes]
                            /\ NoHash \notin Hashes
                            /\ NoRequest \notin Requests
                            /\ IsFiniteSet(Requests)
ASSUME LimitAssumption == /\ Limit \in Nat
                          /\ MaxWindow \in Nat \ {0}
                          /\ MaxFailures \in Nat

VARIABLES
    row,       \* committed: the request hash stored with each key's job
    inserting, \* the transaction that holds an uncommitted row for a key
    count,     \* the counter of each user and window
    expired,   \* history: the windows of each user whose counter has expired
    window,    \* the current rate window
    req,       \* the requests
    faults,    \* failed Redis calls and killed requests
    dbErrors   \* failed database calls

vars == <<row, inserting, count, expired, window, req, faults, dbErrors>>

\* key is the window of the counter a request is about to raise, win the one it has
\* raised and not lowered again.  late is history: that counter had expired before.
\* after: what a request in "release" does next.
ReqState == [pc : {"lookup", "reserve", "script", "insert", "commit", "release", "load", "done"},
             key : Windows \cup {0},
             win : Windows \cup {0},
             late : BOOLEAN,
             after : {"none", "load", "error"},
             result : {"none", "created", "replayed", "conflict", "limited",
                       "error", "missing", "killed"}]

Init ==
    /\ row = [k \in Keys |-> NoHash]
    /\ inserting = [k \in Keys |-> NoRequest]
    /\ count = [u \in Users |-> [w \in Windows |-> 0]]
    /\ expired = [u \in Users |-> {}]
    /\ window = 1
    /\ req = [r \in Requests |-> [pc |-> "lookup", key |-> 0, win |-> 0, late |-> FALSE,
                                  after |-> "none", result |-> "none"]]
    /\ faults = 0
    /\ dbErrors = 0

Owner(r) == User[KeyOf[r]]

Fault == /\ faults + dbErrors < MaxFailures
         /\ faults' = faults + 1

DbError == /\ faults + dbErrors < MaxFailures
           /\ dbErrors' = dbErrors + 1

Answer(r, result) == [req EXCEPT ![r].pc = "done", ![r].result = result]

\* _validate_existing_job.
Validated(r) == IF row[KeyOf[r]] = Hash[r] THEN "replayed" ELSE "conflict"

-----------------------------------------------------------------------------
(* The request. *)

\* A key that is known is answered without touching the rate limiter.
Lookup(r) ==
    /\ req[r].pc = "lookup"
    /\ req' = IF row[KeyOf[r]] # NoHash THEN Answer(r, Validated(r))
              ELSE [req EXCEPT ![r].pc = "reserve"]
    /\ UNCHANGED <<row, inserting, count, expired, window, faults, dbErrors>>

\* The window is taken from the clock; the script that counts is sent, and runs,
\* later.
BuildWindowKey(r) ==
    /\ req[r].pc = "reserve"
    /\ req' = [req EXCEPT ![r].pc = "script", ![r].key = window]
    /\ UNCHANGED <<row, inserting, count, expired, window, faults, dbErrors>>

Raised(r) == [count EXCEPT ![Owner(r)][req[r].key] = @ + 1]

\* A request that goes on to p, with its reservation.
Reserved(r, p) == [req EXCEPT ![r].pc = p, ![r].key = 0, ![r].win = req[r].key,
                              ![r].late = req[r].key \in expired[Owner(r)]]

\* Mutant of Reserve: the count before the increment is compared.
ReserveOneTooMany(r) ==
    /\ req[r].pc = "script"
    /\ count' = Raised(r)
    /\ req' = IF count[Owner(r)][req[r].key] > Limit
              THEN [Reserved(r, "done") EXCEPT ![r].result = "limited"]
              ELSE Reserved(r, "insert")
    /\ UNCHANGED <<row, inserting, expired, window, faults, dbErrors>>

\* The script raises the counter first; a request above the limit has counted.  A
\* script that runs after the counter has expired finds none and starts at 1.
Reserve(r) ==
    /\ req[r].pc = "script"
    /\ count' = Raised(r)
    /\ req' = IF count[Owner(r)][req[r].key] + 1 > Limit
              THEN [Reserved(r, "done") EXCEPT ![r].result = "limited"]
              ELSE Reserved(r, "insert")
    /\ UNCHANGED <<row, inserting, expired, window, faults, dbErrors>>

\* The limiter fails open: no reservation, whether or not the script has run.
ReserveFails(r) ==
    /\ req[r].pc = "script"
    /\ Fault
    /\ count' \in {count, Raised(r)}
    /\ req' = [req EXCEPT ![r].pc = "insert", ![r].key = 0]
    /\ UNCHANGED <<row, inserting, expired, window, dbErrors>>

\* Mutant of Insert: no unique constraint.
InsertUnchecked(r) ==
    /\ req[r].pc = "insert"
    /\ inserting' = [inserting EXCEPT ![KeyOf[r]] = r]
    /\ req' = [req EXCEPT ![r].pc = "commit"]
    /\ UNCHANGED <<row, count, expired, window, faults, dbErrors>>

\* Mutant of Insert: an uncommitted row is a conflict already.
InsertDoesNotWait(r) ==
    LET k == KeyOf[r] IN
    /\ req[r].pc = "insert"
    /\ IF row[k] = NoHash /\ inserting[k] = NoRequest
       THEN /\ inserting' = [inserting EXCEPT ![k] = r]
            /\ req' = [req EXCEPT ![r].pc = "commit"]
       ELSE /\ req' = [req EXCEPT ![r].pc = "release", ![r].after = "load"]
            /\ UNCHANGED inserting
    /\ UNCHANGED <<row, count, expired, window, faults, dbErrors>>

\* Mutant of Insert: a refused request keeps its reservation.
InsertKeepsQuota(r) ==
    LET k == KeyOf[r] IN
    /\ req[r].pc = "insert"
    /\ inserting[k] = NoRequest
    /\ IF row[k] = NoHash
       THEN /\ inserting' = [inserting EXCEPT ![k] = r]
            /\ req' = [req EXCEPT ![r].pc = "commit"]
       ELSE /\ req' = [req EXCEPT ![r].pc = "load"]
            /\ UNCHANGED inserting
    /\ UNCHANGED <<row, count, expired, window, faults, dbErrors>>

\* The unique index: the INSERT waits while another transaction holds an
\* uncommitted row with the key, and is refused once that row is committed.
Insert(r) ==
    LET k == KeyOf[r] IN
    /\ req[r].pc = "insert"
    /\ inserting[k] = NoRequest
    /\ \/ /\ row[k] = NoHash
          /\ inserting' = [inserting EXCEPT ![k] = r]
          /\ req' = [req EXCEPT ![r].pc = "commit"]
       \/ /\ row[k] # NoHash
          /\ req' = [req EXCEPT ![r].pc = "release", ![r].after = "load"]
          /\ UNCHANGED inserting
    /\ UNCHANGED <<row, count, expired, window, faults, dbErrors>>

Withdrawn(r) == [k \in Keys |-> IF inserting[k] = r THEN NoRequest ELSE inserting[k]]

\* The job, its log line and its dispatch event.
Commit(r) ==
    /\ req[r].pc = "commit"
    /\ row' = [row EXCEPT ![KeyOf[r]] = Hash[r]]
    /\ inserting' = Withdrawn(r)
    /\ req' = Answer(r, "created")
    /\ UNCHANGED <<count, expired, window, faults, dbErrors>>

\* Any other exception of the writes or of the COMMIT.  The server may have
\* ended the transaction, or it stays open until the unit of work is left; and a
\* COMMIT that is reported as failed may have been applied.
WriteFails(r) ==
    /\ req[r].pc \in {"insert", "commit"}
    /\ DbError
    /\ \/ /\ inserting' \in {inserting, Withdrawn(r)}
          /\ UNCHANGED row
       \/ /\ req[r].pc = "commit"
          /\ row' = [row EXCEPT ![KeyOf[r]] = Hash[r]]
          /\ inserting' = Withdrawn(r)
    /\ req' = [req EXCEPT ![r].pc = "release", ![r].after = "error"]
    /\ UNCHANGED <<count, expired, window, faults>>

\* Mutant of Lowered: a bare DECR, below zero when the counter has expired.
LoweredBlindly(r) ==
    IF req[r].win = 0 THEN count
    ELSE [count EXCEPT ![Owner(r)][req[r].win] = @ - 1]

\* The release script: a missing counter stays missing, one that would reach 0
\* is deleted.
Lowered(r) ==
    IF req[r].win = 0 THEN count
    ELSE [count EXCEPT ![Owner(r)][req[r].win] = IF @ <= 1 THEN 0 ELSE @ - 1]

\* After the reservation is given back the transaction is rolled back.
Released(r) ==
    [req EXCEPT ![r].win = 0, ![r].late = FALSE,
                ![r].pc = IF req[r].after = "load" THEN "load" ELSE "done",
                ![r].result = IF req[r].after = "load" THEN @ ELSE "error"]

\* Mutant of Release: the transaction is never rolled back.
ReleaseWithoutRollback(r) ==
    /\ req[r].pc = "release"
    /\ count' = Lowered(r)
    /\ req' = Released(r)
    /\ UNCHANGED <<row, inserting, expired, window, faults, dbErrors>>

Release(r) ==
    /\ req[r].pc = "release"
    /\ count' = Lowered(r)
    /\ inserting' = Withdrawn(r)
    /\ req' = Released(r)
    /\ UNCHANGED <<row, expired, window, faults, dbErrors>>

ReleaseFails(r) ==
    /\ req[r].pc = "release"
    /\ req[r].win # 0
    /\ Fault
    /\ count' \in {count, Lowered(r)}
    /\ inserting' = Withdrawn(r)
    /\ req' = Released(r)
    /\ UNCHANGED <<row, expired, window, dbErrors>>

\* _load_existing_job, in a transaction of its own; "missing" is the RuntimeError.
Load(r) ==
    /\ req[r].pc = "load"
    /\ req' = Answer(r, IF row[KeyOf[r]] = NoHash THEN "missing" ELSE Validated(r))
    /\ UNCHANGED <<row, inserting, count, expired, window, faults, dbErrors>>

\* A read that fails: nothing has been reserved, or it has been given back.
ReadFails(r) ==
    /\ req[r].pc \in {"lookup", "load"}
    /\ DbError
    /\ req' = Answer(r, "error")
    /\ UNCHANGED <<row, inserting, count, expired, window, faults>>

\* The API process dies: no exception handler runs.
Killed(r) ==
    /\ req[r].pc # "done"
    /\ Fault
    /\ inserting' = Withdrawn(r)
    /\ req' = [Answer(r, "killed") EXCEPT ![r].key = 0]
    /\ UNCHANGED <<row, count, expired, window, dbErrors>>

-----------------------------------------------------------------------------
(* Time. *)

NextWindow ==
    /\ window < MaxWindow
    /\ window' = window + 1
    /\ UNCHANGED <<row, inserting, count, expired, req, faults, dbErrors>>

\* A counter's TTL is the length of a window plus a margin, from its first
\* increment: it outlives its window.
CounterExpires(u, w) ==
    /\ w < window
    /\ count[u][w] > 0
    /\ count' = [count EXCEPT ![u][w] = 0]
    /\ expired' = [expired EXCEPT ![u] = @ \cup {w}]
    /\ UNCHANGED <<row, inserting, window, req, faults, dbErrors>>

Step(r) ==
    \/ Lookup(r) \/ BuildWindowKey(r) \/ Reserve(r)
    \/ Insert(r) \/ Commit(r) \/ Release(r) \/ Load(r)

Next ==
    \/ \E r \in Requests :
          Step(r) \/ ReserveFails(r) \/ WriteFails(r) \/ ReleaseFails(r) \/ ReadFails(r) \/ Killed(r)
    \/ NextWindow
    \/ \E u \in Users : \E w \in Windows : CounterExpires(u, w)

Spec == Init /\ [][Next]_vars

\* The event loop runs every request that can take a step.
FairSpec == Spec /\ \A r \in Requests : WF_vars(Step(r))

TypeOK ==
    /\ row \in [Keys -> Hashes \cup {NoHash}]
    /\ inserting \in [Keys -> Requests \cup {NoRequest}]
    /\ count \in [Users -> [Windows -> Nat]]
    /\ expired \in [Users -> SUBSET Windows]
    /\ window \in Windows
    /\ req \in [Requests -> ReqState]
    /\ faults \in Nat
    /\ dbErrors \in Nat

-----------------------------------------------------------------------------
(* Properties. *)

With(S) == {r \in Requests : req[r].result \in S}

\* However requests with one key interleave, and whatever fails, at most one is
\* told it created the job, and everybody who is told about a job is told about
\* the one that is stored, submitted with the same content.
OneJobPerKey ==
    /\ \A r, q \in With({"created"}) : KeyOf[r] = KeyOf[q] => r = q
    /\ \A r \in With({"created", "replayed"}) : row[KeyOf[r]] = Hash[r]

\* A request refused by the unique constraint always finds the job it collided
\* with: the RuntimeError in _load_existing_job is unreachable.
ConflictFindsJob == With({"missing"}) = {}

\* No window admits more jobs than the limit, counting the requests that were
\* admitted by the limiter and told they created a job; neither releases, nor
\* failed scripts, nor scripts that run after their window let one more through.
\* The one excuse is late: a script that reaches Redis when the counter has expired,
\* more than KEY_EXPIRY_MARGIN_SECONDS after the window, starts a new one.
WithinLimit ==
    \A u \in Users : \A w \in Windows :
        Cardinality({r \in With({"created"}) :
            Owner(r) = u /\ req[r].win = w /\ ~req[r].late}) <= Limit

\* While no Redis call fails, a counter that has not expired is exactly the
\* requests in flight, the jobs created and the requests rejected of its window:
\* every other path gives its reservation back, and only once.
QuotaAccounted ==
    faults = 0 =>
    \A u \in Users : \A w \in Windows \ expired[u] :
        count[u][w] =
            Cardinality({r \in Requests :
                /\ Owner(r) = u
                /\ req[r].win = w
                /\ req[r].pc # "done" \/ req[r].result \in {"created", "limited"}})

\* Every request is answered: nobody waits forever behind another request's
\* uncommitted row.
EveryoneAnswered == \A r \in Requests : <>(req[r].pc = "done")

\* tests/integration/test_jobs_api.py:1734
\* "test_idempotent_replay_does_not_consume_rate_limit_quota": a request is
\* rejected only in a window that already has Limit jobs.
ReplayConsumesNoQuota ==
    (\A r \in Requests : req[r].pc = "done") =>
    \A r \in With({"limited"}) :
        Cardinality({q \in With({"created"}) :
            Owner(q) = Owner(r) /\ req[q].win = req[r].win}) >= Limit

-----------------------------------------------------------------------------
(* The inductive invariant behind the safety properties. *)

\* An uncommitted row belongs to a request that is about to end its transaction,
\* and to a key that has no job yet.
UncommittedRows ==
    /\ \A k \in Keys : inserting[k] # NoRequest =>
          /\ KeyOf[inserting[k]] = k
          /\ row[k] = NoHash
          /\ req[inserting[k]].pc \in {"commit", "release"}
    /\ \A r \in Requests : req[r].pc = "commit" => inserting[KeyOf[r]] = r

\* A request the unique constraint refused will find the job.
RefusedFindsRow ==
    \A r \in Requests :
        (req[r].pc = "load" \/ (req[r].pc = "release" /\ req[r].after = "load"))
        => row[KeyOf[r]] # NoHash

\* Only a request between the limiter and its answer, or one that was created or
\* rejected, holds a reservation, unless a fault has left one behind; only a
\* request whose script is under way has a key.
ReservationShape ==
    \A r \in Requests :
        /\ req[r].pc \in {"lookup", "reserve", "script", "load"} => req[r].win = 0
        /\ req[r].pc = "script" => req[r].key \in Windows
        /\ req[r].pc # "done" => req[r].result = "none"
        /\ faults = 0 /\ req[r].pc = "done" /\ req[r].win # 0
              => req[r].result \in {"created", "limited"}

\* The requests that hold a reservation of user u in window w.
Holders(u, w) == {r \in Requests : Owner(r) = u /\ req[r].win = w}

\* A counter that has not expired covers the reservations, exactly while no
\* Redis call has failed and no request was killed.
CounterCovers ==
    \A u \in Users : \A w \in Windows \ expired[u] :
        /\ count[u][w] >= Cardinality(Holders(u, w))
        /\ faults = 0 => count[u][w] = Cardinality(Holders(u, w))

\* No window admits more requests than the limit, but for late scripts.
Admitted(u, w) == {r \in Holders(u, w) : req[r].result # "limited" /\ ~req[r].late}

AdmittedWithinLimit ==
    \A u \in Users : \A w \in Windows : Cardinality(Admitted(u, w)) <= Limit

Inductive ==
    /\ TypeOK
    /\ UncommittedRows
    /\ OneJobPerKey
    /\ RefusedFindsRow
    /\ ConflictFindsJob
    /\ ReservationShape
    /\ CounterCovers
    /\ AdmittedWithinLimit
=============================================================================
