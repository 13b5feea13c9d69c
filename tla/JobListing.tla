------------------------------ MODULE JobListing ------------------------------
(***************************************************************************)
(* GET /jobs page by page: a client follows next_cursor through a list     *)
(* while jobs are committed and while pages may come from the cache.       *)
(*                                                                         *)
(* The cache is a set of pages that may be served or dropped at any time:  *)
(* which of them is visible under the current version, and how stale it    *)
(* can be, is the subject of JobListCache.  Whether a page is served stale *)
(* or not, the walk must not lose or repeat a job.                         *)
(*                                                                         *)
(* created_at is read before the transaction commits, in any of several    *)
(* processes: a job may be committed with any created_at, older than jobs  *)
(* that are already listed or equal to theirs.                             *)
(***************************************************************************)
EXTENDS Naturals, FiniteSets

CONSTANTS
    Jobs,                   \* job ids; uuids are random, so any may come first
    Users, Admin, Owner,    \* owner of each job
    Times, NoTime,          \* values of created_at; no row yet
    Readers, Scope,         \* clients and what each may list
    Limits, NoLimit,        \* values of the limit parameter; none given
    DefaultLimit, MaxLimit, \* DEFAULT_LIST_LIMIT, MAX_LIST_LIMIT
    NoCursor,
    MaxPages                \* bound on the pages in the cache

Scopes == Users \cup {Admin}

ASSUME ListingAssumption ==
    /\ Jobs \subseteq Nat /\ IsFiniteSet(Jobs)
    /\ Times \subseteq Nat /\ NoTime \notin Times
    /\ Admin \notin Users
    /\ Owner \in [Jobs -> Users]
    /\ Scope \in [Readers -> Scopes]
    /\ NoLimit \notin Nat /\ Limits \subseteq (1 .. MaxLimit) \cup {NoLimit}
    /\ DefaultLimit \in Nat \ {0} /\ MaxLimit \in Nat \ {0}

Cursors == [v : {1}, created_at : Times, id : Jobs]

ASSUME CursorAssumption == NoCursor \notin Cursors

VARIABLES
    created,  \* created_at of the committed jobs
    cache,    \* stored pages and their keys
    reader

vars == <<created, cache, reader>>

\* asOf is history: the jobs that were committed when the page was read.
Pages == [items : SUBSET Jobs, next : Cursors \cup {NoCursor}, asOf : SUBSET Jobs]
CacheKeys == [scope : Scopes, cursor : Cursors \cup {NoCursor}, limit : 1 .. MaxLimit + DefaultLimit]

\* seen counts how often the walk has shown each job (2: more than once); base is
\* history: the jobs committed when each of its pages was read.
ReaderState == [pc : {"walk", "done"}, cursor : Cursors \cup {NoCursor},
                seen : [Jobs -> 0 .. 2], base : SUBSET Jobs]

NewWalk == [pc |-> "walk", cursor |-> NoCursor, seen |-> [k \in Jobs |-> 0], base |-> Jobs]

Init ==
    /\ created = [k \in Jobs |-> NoTime]
    /\ cache = {}
    /\ reader = [r \in Readers |-> NewWalk]

-----------------------------------------------------------------------------
(* The query. *)

Committed == {k \in Jobs : created[k] # NoTime}

\* ORDER BY created_at DESC, id DESC
Before(i, k) == created[i] > created[k] \/ (created[i] = created[k] /\ i > k)

\* Mutant of KeysetClause: ties in created_at are not broken.
OlderThanCursor(c, k) == created[k] < c.created_at

\* Mutant of KeysetClause: the job the cursor names is included.
NotAfterCursor(c, k) ==
    created[k] < c.created_at \/ (created[k] = c.created_at /\ k <= c.id)

KeysetClause(c, k) ==
    created[k] < c.created_at \/ (created[k] = c.created_at /\ k < c.id)

\* LIMIT n
FirstRows(S, n) == {k \in S : Cardinality({i \in S : Before(i, k)}) < n}

\* list_for_owner_keyset, list_all_keyset
ListKeyset(scope, c, n) ==
    FirstRows({k \in Committed : /\ scope = Admin \/ Owner[k] = scope
                                 /\ c = NoCursor \/ KeysetClause(c, k)}, n)

-----------------------------------------------------------------------------
(* The service. *)

NormalizeLimit(n) ==
    CASE n = NoLimit               -> DefaultLimit
      [] n # NoLimit /\ n < 1      -> 1
      [] n # NoLimit /\ n > MaxLimit -> MaxLimit
      [] OTHER                     -> n

\* Mutant of EncodeCursor: its version is one the decoder does not know.
EncodeNewerCursor(k) == [v |-> 2, created_at |-> created[k], id |-> k]

\* isoformat and fromisoformat keep every digit of a timestamp, so decoding
\* returns the position that was encoded.
EncodeCursor(k) == [v |-> 1, created_at |-> created[k], id |-> k]

LastOf(S) == CHOOSE k \in S : \A i \in S \ {k} : Before(i, k)

\* One row more than the limit has been read to know whether there are more.
BuildPage(rows, limit) ==
    [items |-> FirstRows(rows, limit),
     next  |-> IF Cardinality(rows) > limit
               THEN EncodeCursor(LastOf(FirstRows(rows, limit))) ELSE NoCursor,
     asOf  |-> Committed]

\* Mutant of CacheKey: the owner is not part of the key.
CacheKeyWithoutOwner(scope, c, limit) == [scope |-> Admin, cursor |-> c, limit |-> limit]

\* The version in the key is abstracted.
CacheKey(scope, c, limit) == [scope |-> scope, cursor |-> c, limit |-> limit]

Shown(r, page) ==
    reader' = [reader EXCEPT ![r] =
        [pc     |-> IF page.next = NoCursor THEN "done" ELSE "walk",
         cursor |-> page.next,
         seen   |-> [k \in Jobs |-> IF k \in page.items /\ @.seen[k] < 2
                                   THEN @.seen[k] + 1 ELSE @.seen[k]],
         base   |-> @.base \cap page.asOf]]

\* The next page of a walk, asked for with any limit.
ServeCached(r, n) ==
    /\ reader[r].pc = "walk"
    /\ \E entry \in cache :
          /\ entry.key = CacheKey(Scope[r], reader[r].cursor, NormalizeLimit(n))
          /\ Shown(r, entry.page)
    /\ UNCHANGED <<created, cache>>

\* A miss, or a Redis error, which counts as one; storing the page may fail.
ServeQueried(r, n) ==
    LET limit == NormalizeLimit(n) IN
    /\ reader[r].pc = "walk"
    /\ \E rows \in {ListKeyset(Scope[r], reader[r].cursor, limit + 1)} :
       \E page \in {BuildPage(rows, limit)} :
          /\ Shown(r, page)
          /\ \/ UNCHANGED cache
             \/ /\ Cardinality(cache) < MaxPages
                /\ cache' = cache \cup
                      {[key |-> CacheKey(Scope[r], reader[r].cursor, limit), page |-> page]}
    /\ UNCHANGED created

\* A page expires, or is written over by a newer one.
DropPage ==
    /\ \E entry \in cache : cache' = cache \ {entry}
    /\ UNCHANGED <<created, reader>>

CommitJob(k, t) ==
    /\ created[k] = NoTime
    /\ created' = [created EXCEPT ![k] = t]
    /\ UNCHANGED <<cache, reader>>

Restart(r) ==
    /\ reader[r].pc = "done"
    /\ reader' = [reader EXCEPT ![r] = NewWalk]
    /\ UNCHANGED <<created, cache>>

-----------------------------------------------------------------------------
Serve(r) == \E n \in Limits : ServeCached(r, n) \/ ServeQueried(r, n)

Next ==
    \/ \E r \in Readers : Serve(r) \/ Restart(r)
    \/ \E k \in Jobs : \E t \in Times : CommitJob(k, t)
    \/ DropPage

Spec == Init /\ [][Next]_vars

\* A client that has begun goes on to the end.
FairSpec == Spec /\ \A r \in Readers : WF_vars(Serve(r))

TypeOK ==
    /\ created \in [Jobs -> Times \cup {NoTime}]
    /\ \A entry \in cache : entry.key \in CacheKeys /\ entry.page \in Pages
    /\ reader \in [Readers -> ReaderState]

-----------------------------------------------------------------------------
(* Properties. *)

MayList(r) == {k \in Jobs : Scope[r] = Admin \/ Owner[k] = Scope[r]}

\* A walk that has reached the end has shown every job of its list that was
\* committed when its pages were read, exactly once: whatever was committed
\* meanwhile, however old some of the pages were, however limits changed and
\* however many jobs have the same created_at.
WalkComplete ==
    \A r \in Readers :
        reader[r].pc = "done" => \A k \in reader[r].base \cap MayList(r) : reader[r].seen[k] = 1

\* No job is shown twice in one walk, those committed during the walk included.
NothingTwice == \A r \in Readers : \A k \in Jobs : reader[r].seen[k] <= 1

\* An owner's list shows jobs of that owner only, although the administrator's
\* pages are in the same cache.
OwnJobsOnly ==
    \A r \in Readers : \A k \in Jobs : reader[r].seen[k] > 0 => k \in MayList(r)

\* A walk ends: every page but the last moves the cursor on.
WalkEnds == \A r \in Readers : (reader[r].pc = "walk") ~> (reader[r].pc = "done")

-----------------------------------------------------------------------------
(* What holds of every stored page and every walk under way. *)

\* The jobs among S that a page with this key is taken from.
Eligible(key, S) ==
    {k \in S : /\ key.scope = Admin \/ Owner[k] = key.scope
               /\ key.cursor = NoCursor \/ KeysetClause(key.cursor, k)}

\* Cursor d stands behind cursor c in the list.
Later(c, d) == d.created_at < c.created_at \/ (d.created_at = c.created_at /\ d.id < c.id)

\* A page shows the first jobs of its list, all of them when it has no next cursor
\* and otherwise those up to its next cursor, which has moved on.
RightPage(key, page) ==
    /\ page.asOf \subseteq Committed
    /\ page.items \subseteq Eligible(key, page.asOf)
    /\ page.next = NoCursor => page.items = Eligible(key, page.asOf)
    /\ page.next # NoCursor =>
          /\ \A k \in Eligible(key, page.asOf) : k \in page.items <=> ~KeysetClause(page.next, k)
          /\ key.cursor # NoCursor => Later(key.cursor, page.next)

\* A stored page stays the page it was, whatever is committed after it was read.
PagesRight == \A entry \in cache : RightPage(entry.key, entry.page)

\* What a walk has shown lies before its cursor, and is in its list.
ShownPassed ==
    \A r \in Readers : \A k \in Jobs : reader[r].seen[k] > 0 =>
        /\ k \in Committed \cap MayList(r)
        /\ reader[r].pc = "walk" =>
              reader[r].cursor # NoCursor /\ ~KeysetClause(reader[r].cursor, k)

\* What lies before the cursor of a walk has been shown.
PassedShown ==
    \A r \in Readers : (reader[r].pc = "walk" /\ reader[r].cursor # NoCursor) =>
        /\ reader[r].base \subseteq Committed
        /\ \A k \in reader[r].base \cap MayList(r) :
              ~KeysetClause(reader[r].cursor, k) => reader[r].seen[k] = 1

Inductive ==
    /\ TypeOK
    /\ PagesRight
    /\ ShownPassed
    /\ PassedShown
    /\ NothingTwice
    /\ WalkComplete
=============================================================================
