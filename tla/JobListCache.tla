------------------------------ MODULE JobListCache ------------------------------
(***************************************************************************)
(* GET /jobs: the cache-aside list with versioned keys in Redis, against   *)
(* the transactions that change jobs and invalidate afterwards.            *)
(*                                                                         *)
(* A scope is what a list is keyed by: one owner's jobs, or all jobs       *)
(* (Admin).  The content of a list is abstracted to the number of changes  *)
(* committed to it, so a larger number is a newer page.  The cursor and    *)
(* the limit in the key only multiply the pages of a scope; one page is    *)
(* kept per scope and version.                                             *)
(***************************************************************************)
EXTENDS Naturals, FiniteSets

CONSTANTS
    Users, Admin,
    Readers, Scope,   \* clients that list jobs and the scope each may see
    Writers, Owner,   \* committing transactions and whose job each changes
    Invalidations,    \* how often each invalidates: the outbox publisher never,
                      \* workers and recovery once (their notifier), the API
                      \* twice (the service, then its notifier)
    MaxFaults,        \* bound on failed Redis calls
    NoPage

Scopes == Users \cup {Admin}

Versions == 0 .. 2 * Cardinality(Writers)

ASSUME CacheAssumption == /\ Admin \notin Users
                          /\ Scope \in [Readers -> Scopes]
                          /\ Owner \in [Writers -> Users]
                          /\ Invalidations \in [Writers -> 0 .. 2]
                          /\ NoPage \notin Nat
                          /\ MaxFaults \in Nat
                          /\ IsFiniteSet(Writers)

VARIABLES
    db,        \* changes committed to each scope
    version,   \* the version counter of each scope; a missing key counts as 0
    page,      \* the cached page of each scope and version
    reader, writer,
    announced, \* history: the newest change whose invalidation has taken effect
    excused,   \* history: the versions of each scope under which a stale page may
               \* be stored (see StoreVersion and VersionExpires)
    faults

vars == <<db, version, page, reader, writer, announced, excused, faults>>

\* floor is history: what had been announced when the request began.
ReaderState == [pc : {"start", "get", "query", "storeversion", "store", "done"},
                ver : Versions, value : Nat \cup {NoPage}, floor : Nat]
WriterState == [pc : {"commit", "invalidate"}, left : 0 .. 2, value : [Scopes -> Nat]]

NewRequest == [pc |-> "start", ver |-> 0, value |-> NoPage, floor |-> 0]

Init ==
    /\ db = [c \in Scopes |-> 0]
    /\ version = [c \in Scopes |-> 0]
    /\ page = [c \in Scopes |-> [v \in Versions |-> NoPage]]
    /\ reader = [r \in Readers |-> NewRequest]
    /\ writer = [w \in Writers |-> [pc |-> "commit", left |-> Invalidations[w],
                                    value |-> [c \in Scopes |-> 0]]]
    /\ announced = [c \in Scopes |-> 0]
    /\ excused = [c \in Scopes |-> {}]
    /\ faults = 0

Fault == /\ faults < MaxFaults
         /\ faults' = faults + 1

-----------------------------------------------------------------------------
(* A list request. *)

\* get_page: first the version ...
GetVersion(r) ==
    /\ reader[r].pc = "start"
    /\ reader' = [reader EXCEPT ![r].pc = "get", ![r].ver = version[Scope[r]],
                                ![r].floor = announced[Scope[r]]]
    /\ UNCHANGED <<db, version, page, writer, announced, excused, faults>>

\* Mutant of GetPage: a miss is served like a hit.
ServeMiss(r) ==
    /\ reader[r].pc = "get"
    /\ reader' = [reader EXCEPT ![r].pc = "done", ![r].value = page[Scope[r]][reader[r].ver]]
    /\ UNCHANGED <<db, version, page, writer, announced, excused, faults>>

\* ... then the page under that version.
GetPage(r) ==
    LET hit == page[Scope[r]][reader[r].ver] IN
    /\ reader[r].pc = "get"
    /\ reader' = [reader EXCEPT ![r].pc = IF hit = NoPage THEN "query" ELSE "done",
                                ![r].value = hit]
    /\ UNCHANGED <<db, version, page, writer, announced, excused, faults>>

Query(r) ==
    /\ reader[r].pc = "query"
    /\ reader' = [reader EXCEPT ![r].pc = "storeversion", ![r].value = db[Scope[r]]]
    /\ UNCHANGED <<db, version, page, writer, announced, excused, faults>>

\* set_page reads the version again.  If an invalidation came between the query
\* and this read, the page is stored, stale, under the version that is current.
StoreVersion(r) ==
    LET c == Scope[r] IN
    /\ reader[r].pc = "storeversion"
    /\ reader' = [reader EXCEPT ![r].pc = "store", ![r].ver = version[c]]
    /\ excused' = [excused EXCEPT ![c] = IF reader[r].value < announced[c]
                                         THEN @ \cup {version[c]} ELSE @]
    /\ UNCHANGED <<db, version, page, writer, announced, faults>>

StorePage(r) ==
    /\ reader[r].pc = "store"
    /\ page' = [page EXCEPT ![Scope[r]][reader[r].ver] = reader[r].value]
    /\ reader' = [reader EXCEPT ![r].pc = "done"]
    /\ UNCHANGED <<db, version, writer, announced, excused, faults>>

\* get_page and set_page swallow every exception: a miss, or an unstored page.
RedisFails(r) ==
    /\ reader[r].pc \in {"start", "get", "storeversion", "store"}
    /\ Fault
    /\ reader' = [reader EXCEPT ![r].pc = IF @ \in {"start", "get"} THEN "query" ELSE "done",
                                ![r].floor = IF reader[r].pc = "start"
                                             THEN announced[Scope[r]] ELSE @]
    /\ UNCHANGED <<db, version, page, writer, announced, excused>>

NextRequest(r) ==
    /\ reader[r].pc = "done"
    /\ reader' = [reader EXCEPT ![r] = NewRequest]
    /\ UNCHANGED <<db, version, page, writer, announced, excused, faults>>

-----------------------------------------------------------------------------
(* A transaction that changes a job of its owner. *)

Affected(w) == {Owner[w], Admin}

Bump(f, w) == [c \in Scopes |-> IF c \in Affected(w) THEN f[c] + 1 ELSE f[c]]

\* create_job, cancel_job, the worker's and the recovery's commits; the outbox
\* publisher's commit (pending to queued) has no notifier.
Commit(w) ==
    /\ writer[w].pc = "commit"
    /\ db' = Bump(db, w)
    /\ writer' = [writer EXCEPT ![w].pc = "invalidate", ![w].value = Bump(db, w)]
    /\ UNCHANGED <<version, page, reader, announced, excused, faults>>

\* Mutant of Invalidate: only the owner's version is raised.
InvalidateOwnerOnly(w) ==
    /\ writer[w].pc = "invalidate"
    /\ writer[w].left > 0
    /\ version' = [version EXCEPT ![Owner[w]] = @ + 1]
    /\ announced' = [c \in Scopes |->
                        IF c \in Affected(w) /\ writer[w].value[c] > announced[c]
                        THEN writer[w].value[c] ELSE announced[c]]
    /\ writer' = [writer EXCEPT ![w].left = @ - 1]
    /\ UNCHANGED <<db, page, reader, excused, faults>>

\* invalidate_owner: one MULTI that raises the owner's and the admin's version.
Invalidate(w) ==
    /\ writer[w].pc = "invalidate"
    /\ writer[w].left > 0
    /\ version' = Bump(version, w)
    /\ announced' = [c \in Scopes |->
                        IF c \in Affected(w) /\ writer[w].value[c] > announced[c]
                        THEN writer[w].value[c] ELSE announced[c]]
    /\ writer' = [writer EXCEPT ![w].left = @ - 1]
    /\ UNCHANGED <<db, page, reader, excused, faults>>

\* The exception is swallowed; or the process dies, and no later call is made.
InvalidateFails(w) ==
    /\ writer[w].pc = "invalidate"
    /\ writer[w].left > 0
    /\ Fault
    /\ \E n \in {0, writer[w].left - 1} : writer' = [writer EXCEPT ![w].left = n]
    /\ UNCHANGED <<db, version, page, reader, announced, excused>>

-----------------------------------------------------------------------------
(* Expiry in Redis. *)

\* Mutant of PageExpires: pages are stored without a TTL.
PageStays(c, v) ==
    /\ FALSE
    /\ UNCHANGED vars

\* CACHE_TTL_SECONDS.
PageExpires(c, v) ==
    /\ page[c][v] # NoPage
    /\ page' = [page EXCEPT ![c][v] = NoPage]
    /\ UNCHANGED <<db, version, reader, writer, announced, excused, faults>>

Between(c) == {r \in Readers : Scope[r] = c /\ reader[r].pc \in {"get", "store"}}

\* VERSION_TTL_SECONDS is a week from the last invalidation: pages and requests
\* of earlier versions are long gone, those of the current one need not be.  The
\* counter restarts at 0 and a later invalidation may make the number current
\* again under which such a page is stored.
VersionExpires(c) ==
    /\ version[c] > 0
    /\ \A v \in Versions \ {version[c]} : page[c][v] = NoPage
    /\ \A r \in Between(c) : reader[r].ver = version[c]
    /\ version' = [version EXCEPT ![c] = 0]
    /\ excused' = [excused EXCEPT ![c] = IF page[c][version[c]] # NoPage \/ Between(c) # {}
                                         THEN @ \cup {version[c]} ELSE @]
    /\ UNCHANGED <<db, page, reader, writer, announced, faults>>

-----------------------------------------------------------------------------
ReaderStep(r) ==
    GetVersion(r) \/ GetPage(r) \/ Query(r) \/ StoreVersion(r) \/ StorePage(r)

Next ==
    \/ \E r \in Readers : ReaderStep(r) \/ RedisFails(r) \/ NextRequest(r)
    \/ \E w \in Writers : Commit(w) \/ Invalidate(w) \/ InvalidateFails(w)
    \/ \E c \in Scopes : VersionExpires(c) \/ \E v \in Versions : PageExpires(c, v)

Spec == Init /\ [][Next]_vars

\* Requests that have begun finish and keys with a TTL expire; nobody has to
\* list, commit or invalidate.
FairSpec ==
    /\ Spec
    /\ \A r \in Readers : WF_vars(ReaderStep(r))
    /\ \A c \in Scopes : \A v \in Versions : WF_vars(PageExpires(c, v))

TypeOK ==
    /\ db \in [Scopes -> Nat]
    /\ version \in [Scopes -> Versions]
    /\ page \in [Scopes -> [Versions -> Nat \cup {NoPage}]]
    /\ reader \in [Readers -> ReaderState]
    /\ \A r \in Readers : reader[r].pc = "done" => reader[r].value \in Nat
    /\ writer \in [Writers -> WriterState]
    /\ announced \in [Scopes -> Nat]
    /\ excused \in [Scopes -> SUBSET Versions]
    /\ faults \in Nat

-----------------------------------------------------------------------------
(* Properties. *)

\* A list contains every change that had been announced when the request began,
\* the admin's list included, whatever writers and readers do meanwhile and
\* whichever Redis calls fail.  The two excuses, each for the pages of one version,
\* are the late store of StoreVersion and the number that VersionExpires lets be
\* used again; an invalidation after them ends them.
ServedFresh ==
    \A r \in Readers :
        reader[r].pc = "done" =>
            reader[r].value >= reader[r].floor \/ reader[r].ver \in excused[Scope[r]]

\* DESIGN.md:33 "Redis-backed data is TTL-limited, so staleness is bounded even
\* when Redis returns outdated list-cache entries": once the jobs stop changing,
\* the visible pages are up to date for good, although late stores, failed
\* invalidations and the publisher's silent commits have left stale ones.
EventuallyFresh ==
    <>[](\A c \in Scopes : page[c][version[c]] \in {NoPage, db[c]})

-----------------------------------------------------------------------------
(* The inductive invariant behind TypeOK and ServedFresh. *)

\* The writers that may still invalidate at least n times: each invalidation
\* raises a version by one, so there are numbers enough.
Left(n) == {w \in Writers : writer[w].left >= n}

VersionsLeft ==
    \A c \in Scopes :
        version[c] + Cardinality(Left(1)) + Cardinality(Left(2)) <= 2 * Cardinality(Writers)

\* Only committed changes are announced.
AnnouncedCommitted ==
    \A c \in Scopes : /\ announced[c] <= db[c]
                      /\ \A w \in Writers : writer[w].value[c] <= db[c]

\* A page that was queried has every change announced when its request began.
QueriedFresh ==
    \A r \in Readers :
        /\ reader[r].floor <= announced[Scope[r]]
        /\ reader[r].pc \in {"storeversion", "store"} =>
              reader[r].value \in Nat /\ reader[r].value >= reader[r].floor

\* The page visible under the current version, and one about to be stored there,
\* has every change announced; no page and no request is ahead of the version.
VisibleFresh ==
    \A c \in Scopes : \A v \in Versions \ excused[c] :
        /\ v = version[c] /\ page[c][v] # NoPage => page[c][v] >= announced[c]
        /\ v > version[c] => page[c][v] = NoPage
        /\ \A r \in Between(c) : reader[r].ver = v =>
              /\ v <= version[c]
              /\ (reader[r].pc = "store" /\ v = version[c]) => reader[r].value >= announced[c]

\* A request that has read an older version finds, or will find, under it only
\* pages with the changes announced when it began.
LateReadsFresh ==
    \A r \in Readers : reader[r].pc = "get" /\ reader[r].ver \notin excused[Scope[r]] =>
        /\ page[Scope[r]][reader[r].ver] # NoPage
           => page[Scope[r]][reader[r].ver] >= reader[r].floor
        /\ \A q \in Between(Scope[r]) :
              (reader[q].pc = "store" /\ reader[q].ver = reader[r].ver)
              => reader[q].value >= reader[r].floor

Inductive ==
    /\ TypeOK
    /\ VersionsLeft
    /\ AnnouncedCommitted
    /\ QueriedFresh
    /\ VisibleFresh
    /\ LateReadsFresh
    /\ ServedFresh
=============================================================================
