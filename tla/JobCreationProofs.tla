--------------------------- MODULE JobCreationProofs ---------------------------
(***************************************************************************)
(* Proofs about JobCreation, for any number of requests, keys, users, rate *)
(* windows and faults, and any limit.                                      *)
(***************************************************************************)
EXTENDS JobCreation, FiniteSetTheorems, TLAPS

\* A step sets the fields of request r and leaves every other request alone.
Sets(r, c, w, a, v) ==
    /\ req'[r].pc = c
    /\ req'[r].win = w
    /\ req'[r].after = a
    /\ req'[r].result = v
    /\ \A q \in Requests : q # r => req'[q] = req[q]

LateKept(r) == req'[r].late = req[r].late

\* An answer ends the request and keeps what it has reserved.
LEMMA AnswerEffect ==
    ASSUME req \in [Requests -> ReqState], NEW r \in Requests, NEW v,
           req' = Answer(r, v)
    PROVE  Sets(r, "done", req[r].win, req[r].after, v) /\ LateKept(r)
BY Zenon DEF Answer, Sets, LateKept, ReqState

\* A request that only moves on.
LEMMA MoveEffect ==
    ASSUME req \in [Requests -> ReqState], NEW r \in Requests, NEW c,
           req' = [req EXCEPT ![r].pc = c]
    PROVE  Sets(r, c, req[r].win, req[r].after, req[r].result) /\ LateKept(r)
BY DEF Sets, LateKept, ReqState

\* The known answers of _validate_existing_job.
LEMMA ValidatedCases == \A r : Validated(r) \in {"replayed", "conflict"}
BY DEF Validated

\* What each action does to the requests.
LEMMA LookupEffect ==
    ASSUME TypeOK, NEW r \in Requests, Lookup(r)
    PROVE  /\ LateKept(r)
           /\ \/ row[KeyOf[r]] # NoHash /\ Sets(r, "done", req[r].win, req[r].after, Validated(r))
              \/ Sets(r, "reserve", req[r].win, req[r].after, req[r].result)
BY AnswerEffect, MoveEffect DEF TypeOK, Lookup

\* The key of the current window.
LEMMA BuildWindowKeyEffect ==
    ASSUME TypeOK, NEW r \in Requests, BuildWindowKey(r)
    PROVE  /\ Sets(r, "script", req[r].win, req[r].after, req[r].result)
           /\ LateKept(r)
           /\ req'[r].key = window
BY Zenon DEF BuildWindowKey, Sets, LateKept, TypeOK, ReqState

\* The rate limiter admits the request or answers it.
LEMMA ReserveEffect ==
    ASSUME TypeOK, NEW r \in Requests, Reserve(r)
    PROVE  /\ req'[r].late = (req[r].key \in expired[Owner(r)])
           /\ \/ count[Owner(r)][req[r].key] + 1 > Limit
                 /\ Sets(r, "done", req[r].key, req[r].after, "limited")
              \/ ~(count[Owner(r)][req[r].key] + 1 > Limit)
                 /\ Sets(r, "insert", req[r].key, req[r].after, req[r].result)
<1>1. CASE count[Owner(r)][req[r].key] + 1 > Limit
  <2>1. req' = [Reserved(r, "done") EXCEPT ![r].result = "limited"]
    BY <1>1 DEF Reserve
  <2>2. Sets(r, "done", req[r].key, req[r].after, "limited")
        /\ req'[r].late = (req[r].key \in expired[Owner(r)])
    BY <2>1, Zenon DEF Reserved, Sets, TypeOK, ReqState
  <2> QED BY <1>1, <2>2
<1>2. CASE ~(count[Owner(r)][req[r].key] + 1 > Limit)
  <2>1. req' = Reserved(r, "insert")
    BY <1>2 DEF Reserve
  <2>2. Sets(r, "insert", req[r].key, req[r].after, req[r].result)
        /\ req'[r].late = (req[r].key \in expired[Owner(r)])
    BY <2>1, Zenon DEF Reserved, Sets, TypeOK, ReqState
  <2> QED BY <1>2, <2>2
<1> QED BY <1>1, <1>2

\* A script that fails lets the request through without a reservation.
LEMMA ReserveFailsEffect ==
    ASSUME TypeOK, NEW r \in Requests, ReserveFails(r)
    PROVE  Sets(r, "insert", req[r].win, req[r].after, req[r].result) /\ LateKept(r)
BY Zenon DEF ReserveFails, Sets, LateKept, TypeOK, ReqState

\* A request that dies keeps what it has reserved.
LEMMA KilledEffect ==
    ASSUME TypeOK, NEW r \in Requests, Killed(r)
    PROVE  Sets(r, "done", req[r].win, req[r].after, "killed") /\ LateKept(r)
BY Zenon DEF Killed, Answer, Sets, LateKept, TypeOK, ReqState

\* The unique index lets the row in or refuses it.
LEMMA InsertEffect ==
    ASSUME TypeOK, NEW r \in Requests, Insert(r)
    PROVE  /\ LateKept(r)
           /\ \/ /\ row[KeyOf[r]] = NoHash
                 /\ inserting' = [inserting EXCEPT ![KeyOf[r]] = r]
                 /\ Sets(r, "commit", req[r].win, req[r].after, req[r].result)
              \/ /\ row[KeyOf[r]] # NoHash
                 /\ inserting' = inserting
                 /\ Sets(r, "release", req[r].win, "load", req[r].result)
<1>1. CASE req' = [req EXCEPT ![r].pc = "release", ![r].after = "load"]
  <2>1. Sets(r, "release", req[r].win, "load", req[r].result) /\ LateKept(r)
    BY <1>1, Zenon DEF Sets, LateKept, TypeOK, ReqState
  <2>2. row[KeyOf[r]] = NoHash => req' = [req EXCEPT ![r].pc = "commit"]
    BY DEF Insert
  <2> QED BY <2>1, <2>2, MoveEffect DEF Insert, TypeOK
<1>2. CASE req' = [req EXCEPT ![r].pc = "commit"]
  <2>1. row[KeyOf[r]] # NoHash => req' = [req EXCEPT ![r].pc = "release", ![r].after = "load"]
    BY DEF Insert
  <2> QED BY <1>1, <1>2, <2>1, MoveEffect DEF Insert, TypeOK
<1> QED BY <1>1, <1>2 DEF Insert

\* A failed write goes on to give the reservation back.
LEMMA WriteFailsEffect ==
    ASSUME TypeOK, NEW r \in Requests, WriteFails(r)
    PROVE  Sets(r, "release", req[r].win, "error", req[r].result) /\ LateKept(r)
BY Zenon DEF WriteFails, Sets, LateKept, TypeOK, ReqState

\* A released request looks for the job it collided with, or is answered.
LEMMA ReleasedEffect ==
    ASSUME TypeOK, NEW r \in Requests, req' = Released(r)
    PROVE  \/ req[r].after = "load" /\ Sets(r, "load", 0, req[r].after, req[r].result)
           \/ req[r].after # "load" /\ Sets(r, "done", 0, req[r].after, "error")
<1> DEFINE c == IF req[r].after = "load" THEN "load" ELSE "done"
           v == IF req[r].after = "load" THEN req[r].result ELSE "error"
           new == [req[r] EXCEPT !.win = 0, !.late = FALSE, !.pc = c, !.result = v]
<1>1. req' = [req EXCEPT ![r] = new]
  BY DEF Released, TypeOK, ReqState
<1>2. req'[r] = new /\ \A q \in Requests : q # r => req'[q] = req[q]
  BY <1>1 DEF TypeOK
<1>3. new.win = 0 /\ new.pc = c /\ new.result = v /\ new.after = req[r].after
  BY DEF TypeOK, ReqState
<1> QED BY <1>2, <1>3 DEF Sets
-----------------------------------------------------------------------------
(* Types. *)

\* The counters stay natural numbers: raising, and lowering by the release script.
LEMMA CountTypes ==
    ASSUME TypeOK
    PROVE  /\ \A r \in Requests : Raised(r) \in [Users -> [Windows -> Nat]]
           /\ \A r \in Requests : Lowered(r) \in [Users -> [Windows -> Nat]]
<1>1. ASSUME NEW r \in Requests PROVE Raised(r) \in [Users -> [Windows -> Nat]]
  <2>1. PICK u \in Users, w \in Windows \cup {0} : u = Owner(r) /\ w = req[r].key
    BY RequestAssumption DEF Owner, TypeOK, ReqState
  <2>2. Raised(r) = [count EXCEPT ![u][w] = @ + 1]
    BY <2>1 DEF Raised
  <2>3. count[u] \in [Windows -> Nat]
    BY DEF TypeOK
  <2>4. [count[u] EXCEPT ![w] = count[u][w] + 1] \in [Windows -> Nat]
    <3>1. PICK f \in [Windows -> Nat] : f = count[u]
      BY <2>3
    <3>2. w \in Windows => f[w] + 1 \in Nat
      OBVIOUS
    <3>3. [f EXCEPT ![w] = f[w] + 1] \in [Windows -> Nat]
      BY <3>2
    <3> QED BY <3>1, <3>3
  <2> QED BY <2>2, <2>4 DEF TypeOK
<1>2. ASSUME NEW r \in Requests PROVE Lowered(r) \in [Users -> [Windows -> Nat]]
  <2>1. CASE req[r].win = 0
    BY <2>1 DEF Lowered, TypeOK
  <2>2. CASE req[r].win # 0
    <3>1. PICK u \in Users, w \in Windows : u = Owner(r) /\ w = req[r].win
      BY <2>2, RequestAssumption DEF Owner, TypeOK, ReqState
    <3>2. Lowered(r) = [count EXCEPT ![u][w] = IF @ <= 1 THEN 0 ELSE @ - 1]
      BY <2>2, <3>1 DEF Lowered
    <3>3. (IF count[u][w] <= 1 THEN 0 ELSE count[u][w] - 1) \in Nat
      BY DEF TypeOK
    <3> QED BY <3>2, <3>3 DEF TypeOK
  <2> QED BY <2>1, <2>2
<1> QED BY <1>1, <1>2

\* Withdrawing an uncommitted row leaves the others to their requests.
LEMMA WithdrawnEffect ==
    ASSUME TypeOK, NEW r \in Requests, NEW k \in Keys
    PROVE  Withdrawn(r)[k] = (IF inserting[k] = r THEN NoRequest ELSE inserting[k])
BY DEF Withdrawn

\* Every request's owner is a user.
LEMMA OwnerIn == \A r \in Requests : Owner(r) \in Users /\ KeyOf[r] \in Keys
BY RequestAssumption DEF Owner

Pcs == {"lookup", "reserve", "script", "insert", "commit", "release", "load", "done"}
Afters == {"none", "load", "error"}
Results == {"none", "created", "replayed", "conflict", "limited", "error", "missing", "killed"}

\* Whatever fields of a request a step sets, the requests stay well typed.
LEMMA UpdateTypes ==
    ASSUME NEW f \in [Requests -> ReqState], NEW r \in Requests
    PROVE  /\ \A c \in Pcs :
              [f EXCEPT ![r].pc = c] \in [Requests -> ReqState]
           /\ \A c \in Pcs, k \in Windows \cup {0} :
              [f EXCEPT ![r].pc = c, ![r].key = k] \in [Requests -> ReqState]
           /\ \A c \in Pcs, a \in Afters :
              [f EXCEPT ![r].pc = c, ![r].after = a] \in [Requests -> ReqState]
           /\ \A c \in Pcs, v \in Results :
              [f EXCEPT ![r].pc = c, ![r].result = v] \in [Requests -> ReqState]
           /\ \A k \in Windows \cup {0} :
              [f EXCEPT ![r].key = k] \in [Requests -> ReqState]
           /\ \A v \in Results :
              [f EXCEPT ![r].result = v] \in [Requests -> ReqState]
           /\ \A c \in Pcs, w \in Windows \cup {0}, l \in BOOLEAN :
              [f EXCEPT ![r].pc = c, ![r].key = 0, ![r].win = w, ![r].late = l]
              \in [Requests -> ReqState]
           /\ \A c \in Pcs, w \in Windows \cup {0}, l \in BOOLEAN, v \in Results :
              [f EXCEPT ![r].win = w, ![r].late = l, ![r].pc = c, ![r].result = v] \in [Requests -> ReqState]
<1>0. ASSUME NEW x \in ReqState PROVE [f EXCEPT ![r] = x] \in [Requests -> ReqState]
  BY Zenon
<1>1. ASSUME NEW c \in Pcs
      PROVE  [f EXCEPT ![r].pc = c] \in [Requests -> ReqState]
  <2>1. [f[r] EXCEPT !.pc = c] \in ReqState
    BY DEF ReqState, Pcs, Afters, Results
  <2>2. [f EXCEPT ![r].pc = c]
        = [f EXCEPT ![r] = [f[r] EXCEPT !.pc = c]]
    BY DEF ReqState
  <2> QED BY <1>0, <2>1, <2>2, Zenon
<1>2. ASSUME NEW c \in Pcs, NEW k \in Windows \cup {0}
      PROVE  [f EXCEPT ![r].pc = c, ![r].key = k] \in [Requests -> ReqState]
  <2>1. [f[r] EXCEPT !.pc = c, !.key = k] \in ReqState
    BY DEF ReqState, Pcs, Afters, Results
  <2>2. [f EXCEPT ![r].pc = c, ![r].key = k]
        = [f EXCEPT ![r] = [f[r] EXCEPT !.pc = c, !.key = k]]
    BY DEF ReqState
  <2> QED BY <1>0, <2>1, <2>2, Zenon
<1>3. ASSUME NEW c \in Pcs, NEW a \in Afters
      PROVE  [f EXCEPT ![r].pc = c, ![r].after = a] \in [Requests -> ReqState]
  <2>1. [f[r] EXCEPT !.pc = c, !.after = a] \in ReqState
    BY DEF ReqState, Pcs, Afters, Results
  <2>2. [f EXCEPT ![r].pc = c, ![r].after = a]
        = [f EXCEPT ![r] = [f[r] EXCEPT !.pc = c, !.after = a]]
    BY DEF ReqState
  <2> QED BY <1>0, <2>1, <2>2, Zenon
<1>4. ASSUME NEW c \in Pcs, NEW v \in Results
      PROVE  [f EXCEPT ![r].pc = c, ![r].result = v] \in [Requests -> ReqState]
  <2>1. [f[r] EXCEPT !.pc = c, !.result = v] \in ReqState
    BY DEF ReqState, Pcs, Afters, Results
  <2>2. [f EXCEPT ![r].pc = c, ![r].result = v]
        = [f EXCEPT ![r] = [f[r] EXCEPT !.pc = c, !.result = v]]
    BY DEF ReqState
  <2> QED BY <1>0, <2>1, <2>2, Zenon
<1>5. ASSUME NEW k \in Windows \cup {0}
      PROVE  [f EXCEPT ![r].key = k] \in [Requests -> ReqState]
  <2>1. [f[r] EXCEPT !.key = k] \in ReqState
    BY DEF ReqState, Pcs, Afters, Results
  <2>2. [f EXCEPT ![r].key = k]
        = [f EXCEPT ![r] = [f[r] EXCEPT !.key = k]]
    BY DEF ReqState
  <2> QED BY <1>0, <2>1, <2>2, Zenon
<1>6. ASSUME NEW v \in Results
      PROVE  [f EXCEPT ![r].result = v] \in [Requests -> ReqState]
  <2>1. [f[r] EXCEPT !.result = v] \in ReqState
    BY DEF ReqState, Pcs, Afters, Results
  <2>2. [f EXCEPT ![r].result = v]
        = [f EXCEPT ![r] = [f[r] EXCEPT !.result = v]]
    BY DEF ReqState
  <2> QED BY <1>0, <2>1, <2>2, Zenon
<1>7. ASSUME NEW c \in Pcs, NEW w \in Windows \cup {0}, NEW l \in BOOLEAN
      PROVE  [f EXCEPT ![r].pc = c, ![r].key = 0, ![r].win = w, ![r].late = l] \in [Requests -> ReqState]
  <2>1. [f[r] EXCEPT !.pc = c, !.key = 0, !.win = w, !.late = l] \in ReqState
    BY DEF ReqState, Pcs, Afters, Results
  <2>2. [f EXCEPT ![r].pc = c, ![r].key = 0, ![r].win = w, ![r].late = l]
        = [f EXCEPT ![r] = [f[r] EXCEPT !.pc = c, !.key = 0, !.win = w, !.late = l]]
    BY DEF ReqState
  <2> QED BY <1>0, <2>1, <2>2, Zenon
<1>8. ASSUME NEW c \in Pcs, NEW w \in Windows \cup {0}, NEW l \in BOOLEAN, NEW v \in Results
      PROVE  [f EXCEPT ![r].win = w, ![r].late = l, ![r].pc = c, ![r].result = v] \in [Requests -> ReqState]
  <2>1. [f[r] EXCEPT !.win = w, !.late = l, !.pc = c, !.result = v] \in ReqState
    BY DEF ReqState, Pcs, Afters, Results
  <2>2. [f EXCEPT ![r].win = w, ![r].late = l, ![r].pc = c, ![r].result = v]
        = [f EXCEPT ![r] = [f[r] EXCEPT !.win = w, !.late = l, !.pc = c, !.result = v]]
    BY DEF ReqState
  <2> QED BY <1>0, <2>1, <2>2, Zenon
<1> QED BY <1>1, <1>2, <1>3, <1>4, <1>5, <1>6, <1>7, <1>8, Zenon

\* Every step of a request, a window or a counter is well typed.
LEMMA TypeStep ==
    ASSUME TypeOK, [Next]_vars
    PROVE  TypeOK'
<1> USE OwnerIn
<1>q. req \in [Requests -> ReqState]
  BY DEF TypeOK
<1>0. /\ 0 \in Windows \cup {0}
      /\ "none" \in Afters /\ "load" \in Afters /\ "error" \in Afters
      /\ "none" \in Results
      /\ "done" \in Pcs /\ "release" \in Pcs /\ "insert" \in Pcs /\ "script" \in Pcs
      /\ "limited" \in Results /\ FALSE \in BOOLEAN
  BY DEF Pcs, Afters, Results
<1>a. ASSUME NEW r \in Requests, NEW v \in Results
      PROVE  Answer(r, v) \in [Requests -> ReqState]
  BY <1>0, <1>q, UpdateTypes, Zenon DEF Answer
<1>m. ASSUME NEW r \in Requests, NEW c \in Pcs
      PROVE  [req EXCEPT ![r].pc = c] \in [Requests -> ReqState]
  BY <1>q, UpdateTypes DEF Afters, Results
<1>w. ASSUME NEW r \in Requests PROVE Withdrawn(r) \in [Keys -> Requests \cup {NoRequest}]
  BY DEF Withdrawn, TypeOK
<1>1. ASSUME NEW r \in Requests, Lookup(r) PROVE TypeOK'
  <2>1. CASE req' = Answer(r, Validated(r))
    <3>1. Validated(r) \in Results
      BY ValidatedCases DEF Results
    <3>2. req' \in [Requests -> ReqState]
      BY <1>a, <2>1, <3>1
    <3> QED BY <1>1, <3>2 DEF Lookup, TypeOK
  <2>2. CASE req' = [req EXCEPT ![r].pc = "reserve"]
    <3>1. req' \in [Requests -> ReqState]
      BY <1>m, <2>2 DEF Pcs
    <3> QED BY <1>1, <3>1 DEF Lookup, TypeOK
  <2> QED BY <1>1, <2>1, <2>2 DEF Lookup
<1>2. ASSUME NEW r \in Requests, Reserve(r) PROVE TypeOK'
  <2>0. PICK w, l : w = req[r].key /\ l = (req[r].key \in expired[Owner(r)])
    OBVIOUS
  <2>1. w \in Windows \cup {0} /\ l \in BOOLEAN
    BY <2>0, <1>q DEF ReqState
  <2>2. ASSUME NEW c \in Pcs PROVE Reserved(r, c) \in [Requests -> ReqState]
    <3>1. [req EXCEPT ![r].pc = c, ![r].key = 0, ![r].win = w, ![r].late = l]
          \in [Requests -> ReqState]
      BY <1>q, <2>1, UpdateTypes, Zenon
    <3> QED BY <2>0, <3>1, Zenon DEF Reserved
  <2>3. [Reserved(r, "done") EXCEPT ![r].result = "limited"] \in [Requests -> ReqState]
    <3>1. PICK f \in [Requests -> ReqState] : f = Reserved(r, "done")
      BY <1>0, <2>2
    <3>2. [f EXCEPT ![r].result = "limited"] \in [Requests -> ReqState]
      BY <1>0, UpdateTypes, Zenon
    <3> QED BY <3>1, <3>2
  <2>4. Reserved(r, "insert") \in [Requests -> ReqState]
    BY <1>0, <2>2
  <2> QED BY <1>2, <2>3, <2>4, CountTypes DEF Reserve, TypeOK
<1>b. ASSUME NEW r \in Requests, BuildWindowKey(r) PROVE TypeOK'
  <2>1. PICK w \in Windows \cup {0} : w = window
    BY DEF TypeOK
  <2>2. [req EXCEPT ![r].pc = "script", ![r].key = w] \in [Requests -> ReqState]
    BY <1>0, <1>q, UpdateTypes, Zenon
  <2> QED BY <1>b, <2>1, <2>2 DEF BuildWindowKey, TypeOK
<1>3. ASSUME NEW r \in Requests, ReserveFails(r) PROVE TypeOK'
  <2>1. [req EXCEPT ![r].pc = "insert", ![r].key = 0] \in [Requests -> ReqState]
    BY <1>0, <1>q, UpdateTypes, Zenon
  <2> QED BY <1>3, <2>1, CountTypes DEF ReserveFails, Fault, TypeOK
<1>4. ASSUME NEW r \in Requests, Insert(r) PROVE TypeOK'
  <2>1. req' \in [Requests -> ReqState]
    <3>1. [req EXCEPT ![r].pc = "commit"] \in [Requests -> ReqState]
      BY <1>m DEF Pcs
    <3>2. [req EXCEPT ![r].pc = "release", ![r].after = "load"] \in [Requests -> ReqState]
      BY <1>0, <1>q, UpdateTypes, Zenon
    <3> QED BY <1>4, <3>1, <3>2 DEF Insert
  <2> QED BY <1>4, <2>1 DEF Insert, TypeOK
<1>5. ASSUME NEW r \in Requests, Commit(r) PROVE TypeOK'
  BY <1>5, <1>a, <1>w, RequestAssumption DEF Commit, TypeOK, Results
<1>6. ASSUME NEW r \in Requests, WriteFails(r) PROVE TypeOK'
  <2>1. req' \in [Requests -> ReqState]
    <3>1. [req EXCEPT ![r].pc = "release", ![r].after = "error"] \in [Requests -> ReqState]
      BY <1>0, <1>q, UpdateTypes, Zenon
    <3> QED BY <1>6, <3>1 DEF WriteFails
  <2>2. row' \in [Keys -> Hashes \cup {NoHash}]
    BY <1>6, RequestAssumption DEF WriteFails, TypeOK
  <2> QED BY <1>6, <2>1, <2>2, <1>w DEF WriteFails, DbError, TypeOK
<1>7. ASSUME NEW r \in Requests, Release(r) \/ ReleaseFails(r) PROVE TypeOK'
  <2>1. Released(r) \in [Requests -> ReqState]
    <3> DEFINE c == IF req[r].after = "load" THEN "load" ELSE "done"
               v == IF req[r].after = "load" THEN req[r].result ELSE "error"
    <3>1. c \in Pcs /\ v \in Results /\ 0 \in Windows \cup {0} /\ "none" \in Afters
      BY <1>q DEF ReqState, Pcs, Results, Afters
    <3>2. Released(r) = [req EXCEPT ![r].win = 0, ![r].late = FALSE, ![r].pc = c, ![r].result = v]
      BY <1>q DEF Released, ReqState
    <3> HIDE DEF c, v
    <3>3. [req EXCEPT ![r].win = 0, ![r].late = FALSE, ![r].pc = c, ![r].result = v]
          \in [Requests -> ReqState]
      BY <1>0, <1>q, <3>1, UpdateTypes, Zenon
    <3> QED BY <3>2, <3>3, Zenon
  <2> QED BY <1>7, <1>w, <2>1, CountTypes DEF Release, ReleaseFails, Fault, TypeOK
<1>8. ASSUME NEW r \in Requests, Load(r) PROVE TypeOK'
  <2>1. (IF row[KeyOf[r]] = NoHash THEN "missing" ELSE Validated(r)) \in Results
    BY ValidatedCases DEF Results
  <2>2. req' \in [Requests -> ReqState]
    BY <1>8, <1>a, <2>1 DEF Load
  <2> QED BY <1>8, <2>2 DEF Load, TypeOK
<1>9. ASSUME NEW r \in Requests, ReadFails(r) PROVE TypeOK'
  BY <1>9, <1>a DEF ReadFails, DbError, TypeOK, Results
<1>10. ASSUME NEW r \in Requests, Killed(r) PROVE TypeOK'
  <2>1. PICK f \in [Requests -> ReqState] : f = Answer(r, "killed")
    BY <1>a DEF Results
  <2>2. [f EXCEPT ![r].key = 0] \in [Requests -> ReqState]
    BY <1>0, UpdateTypes, Zenon
  <2> QED BY <1>10, <1>w, <2>1, <2>2 DEF Killed, Fault, TypeOK
<1>11. CASE NextWindow
  BY <1>11, LimitAssumption DEF NextWindow, Windows, TypeOK
<1>12. ASSUME NEW u \in Users, NEW w \in Windows, CounterExpires(u, w) PROVE TypeOK'
  BY <1>12 DEF CounterExpires, TypeOK
<1>13. CASE UNCHANGED vars
  BY <1>13 DEF vars, TypeOK
<1> QED BY <1>1, <1>2, <1>b, <1>3, <1>4, <1>5, <1>6, <1>7, <1>8, <1>9, <1>10, <1>11, <1>12, <1>13
        DEF Next, Step

-----------------------------------------------------------------------------
(* One job for each key. *)

Rows == UncommittedRows /\ OneJobPerKey /\ RefusedFindsRow /\ ConflictFindsJob

\* A request that writes no row and takes none: what it may be told, and where it
\* may go, without disturbing anybody's row.
LEMMA RowsKept ==
    ASSUME TypeOK, Rows, NEW r \in Requests, NEW c, NEW w, NEW a, NEW v,
           Sets(r, c, w, a, v), UNCHANGED row,
           \/ UNCHANGED inserting /\ (\A k \in Keys : inserting[k] # r)
           \/ UNCHANGED inserting /\ c \in {"commit", "release"}
           \/ inserting' = Withdrawn(r),
           c # "commit",
           c = "load" \/ (c = "release" /\ a = "load") => row[KeyOf[r]] # NoHash,
           v # "created" \/ req[r].result = "created",
           v = "replayed" => row[KeyOf[r]] = Hash[r] \/ req[r].result = "replayed",
           v # "missing"
    PROVE  Rows'
<1>1. UncommittedRows'
  <2>1. ASSUME NEW k \in Keys, inserting'[k] # NoRequest
        PROVE  /\ inserting'[k] = inserting[k]
               /\ inserting[k] \in Requests
               /\ inserting[k] = r => c \in {"commit", "release"}
    BY <2>1, WithdrawnEffect DEF TypeOK
  <2>2. ASSUME NEW k \in Keys, inserting'[k] # NoRequest
        PROVE  /\ KeyOf[inserting'[k]] = k
               /\ row'[k] = NoHash
               /\ req'[inserting'[k]].pc \in {"commit", "release"}
    BY <2>1, <2>2 DEF Rows, UncommittedRows, Sets
  <2>3. ASSUME NEW q \in Requests, req'[q].pc = "commit" PROVE inserting'[KeyOf[q]] = q
    <3>1. q # r /\ req[q].pc = "commit"
      BY <2>3 DEF Sets
    <3>2. inserting[KeyOf[q]] = q
      BY <3>1 DEF Rows, UncommittedRows
    <3> QED BY <3>1, <3>2, WithdrawnEffect, OwnerIn
  <2> QED BY <2>2, <2>3 DEF UncommittedRows
<1>2. OneJobPerKey'
  <2>1. \A q \in With({"created"})' : q \in With({"created"})
    BY DEF With, Sets
  <2>2. \A q \in With({"created", "replayed"})' :
           q \in With({"created", "replayed"}) \/ (q = r /\ row[KeyOf[r]] = Hash[r])
    BY DEF With, Sets
  <2> QED BY <2>1, <2>2 DEF Rows, OneJobPerKey
<1>3. RefusedFindsRow'
  BY DEF Rows, RefusedFindsRow, Sets
<1>4. ConflictFindsJob'
  BY DEF Rows, ConflictFindsJob, With, Sets
<1> QED BY <1>1, <1>2, <1>3, <1>4 DEF Rows

\* The commit of an uncommitted row, whether or not the request learns of it.
LEMMA RowsCommitted ==
    ASSUME TypeOK, Rows, ReservationShape, NEW r \in Requests, NEW c, NEW w, NEW a, NEW v,
           req[r].pc = "commit", Sets(r, c, w, a, v),
           row' = [row EXCEPT ![KeyOf[r]] = Hash[r]],
           inserting' = Withdrawn(r),
           c \in {"done", "release"},
           c = "release" => a # "load",
           v \in {"created", "none"}
    PROVE  Rows'
<1> DEFINE k == KeyOf[r]
<1>1. k \in Keys /\ inserting[k] = r /\ row[k] = NoHash /\ Hash[r] # NoHash /\ Hash[r] \in Hashes
  <2>1. k \in Keys /\ inserting[k] = r
    BY OwnerIn DEF Rows, UncommittedRows
  <2> QED BY <2>1, RequestAssumption DEF Rows, UncommittedRows
<1>2. row'[k] = Hash[r] /\ \A l \in Keys : l # k => row'[l] = row[l]
  BY <1>1 DEF TypeOK
<1>3. \A q \in Requests : row[KeyOf[q]] # NoHash => KeyOf[q] # k /\ row'[KeyOf[q]] = row[KeyOf[q]]
  BY <1>1, <1>2, OwnerIn
<1>4. UncommittedRows'
  <2>1. ASSUME NEW l \in Keys, inserting'[l] # NoRequest
        PROVE  inserting'[l] = inserting[l] /\ inserting[l] \in Requests /\ inserting[l] # r /\ l # k
    BY <2>1, <1>1, WithdrawnEffect DEF TypeOK
  <2>2. ASSUME NEW l \in Keys, inserting'[l] # NoRequest
        PROVE  /\ KeyOf[inserting'[l]] = l
               /\ row'[l] = NoHash
               /\ req'[inserting'[l]].pc \in {"commit", "release"}
    BY <1>2, <2>1, <2>2 DEF Rows, UncommittedRows, Sets
  <2>3. ASSUME NEW q \in Requests, req'[q].pc = "commit" PROVE inserting'[KeyOf[q]] = q
    <3>1. q # r /\ req[q].pc = "commit"
      BY <2>3 DEF Sets
    <3>2. inserting[KeyOf[q]] = q
      BY <3>1 DEF Rows, UncommittedRows
    <3> QED BY <3>1, <3>2, WithdrawnEffect, OwnerIn
  <2> QED BY <2>2, <2>3 DEF UncommittedRows
<1>5. OneJobPerKey'
  <2>1. ASSUME NEW q \in Requests, q # r, req'[q].result \in {"created", "replayed"}
        PROVE  row[KeyOf[q]] = Hash[q] /\ row[KeyOf[q]] # NoHash /\ req[q].result = req'[q].result
    BY <2>1, RequestAssumption DEF Sets, Rows, OneJobPerKey, With
  <2>2. ASSUME NEW q \in Requests, req'[q].result \in {"created", "replayed"}
        PROVE  row'[KeyOf[q]] = Hash[q]
    BY <1>2, <1>3, <2>1, <2>2
  <2>3. ASSUME NEW q \in Requests, NEW p \in Requests, req'[q].result = "created",
               req'[p].result = "created", KeyOf[p] = KeyOf[q]
        PROVE  p = q
    <3>1. CASE p # r /\ q # r
      BY <2>1, <2>3, <3>1 DEF Rows, OneJobPerKey, With
    <3>2. CASE p = r \/ q = r
      BY <1>3, <2>1, <2>3, <3>2
    <3> QED BY <3>1, <3>2
  <2> QED BY <2>2, <2>3 DEF OneJobPerKey, With
<1>6. RefusedFindsRow'
  <2> SUFFICES ASSUME NEW q \in Requests,
                      req'[q].pc = "load" \/ (req'[q].pc = "release" /\ req'[q].after = "load")
               PROVE  row'[KeyOf[q]] # NoHash
    BY DEF RefusedFindsRow
  <2>1. q # r /\ req'[q] = req[q]
    BY DEF Sets
  <2> QED BY <1>3, <2>1 DEF Rows, RefusedFindsRow
<1>7. ConflictFindsJob'
  BY DEF Rows, ConflictFindsJob, With, Sets
<1> QED BY <1>4, <1>5, <1>6, <1>7 DEF Rows

\* The INSERT the unique index lets in.
LEMMA RowsInserted ==
    ASSUME TypeOK, Rows, NEW r \in Requests, NEW w, NEW a,
           req[r].pc = "insert", Sets(r, "commit", w, a, "none"),
           inserting[KeyOf[r]] = NoRequest, row[KeyOf[r]] = NoHash,
           inserting' = [inserting EXCEPT ![KeyOf[r]] = r],
           UNCHANGED row
    PROVE  Rows'
<1> DEFINE k == KeyOf[r]
<1>1. k \in Keys /\ inserting'[k] = r /\ \A l \in Keys : l # k => inserting'[l] = inserting[l]
  BY OwnerIn DEF TypeOK
<1>2. UncommittedRows'
  <2>1. ASSUME NEW l \in Keys, inserting'[l] # NoRequest
        PROVE  /\ KeyOf[inserting'[l]] = l
               /\ row'[l] = NoHash
               /\ req'[inserting'[l]].pc \in {"commit", "release"}
    <3>1. CASE l = k
      BY <1>1, <3>1 DEF Sets
    <3>2. CASE l # k
      <4>1. inserting'[l] = inserting[l] /\ inserting[l] \in Requests
        BY <1>1, <2>1, <3>2 DEF TypeOK
      <4>2. /\ KeyOf[inserting[l]] = l
            /\ row[l] = NoHash
            /\ req[inserting[l]].pc \in {"commit", "release"}
        BY <2>1, <4>1 DEF Rows, UncommittedRows
      <4> QED BY <4>1, <4>2 DEF Sets
    <3> QED BY <3>1, <3>2
  <2>2. ASSUME NEW q \in Requests, req'[q].pc = "commit" PROVE inserting'[KeyOf[q]] = q
    <3>1. CASE q = r
      BY <1>1, <3>1
    <3>2. CASE q # r
      <4>1. inserting[KeyOf[q]] = q /\ KeyOf[q] \in Keys
        BY <2>2, <3>2, OwnerIn DEF Sets, Rows, UncommittedRows
      <4>2. KeyOf[q] # k
        BY <4>1, RequestAssumption
      <4> QED BY <1>1, <4>1, <4>2
    <3> QED BY <3>1, <3>2
  <2> QED BY <2>1, <2>2 DEF UncommittedRows
<1>3. OneJobPerKey'
  <2>1. \A q \in With({"created"})' : q \in With({"created"})
    BY DEF With, Sets
  <2>2. \A q \in With({"created", "replayed"})' : q \in With({"created", "replayed"})
    BY DEF With, Sets
  <2> QED BY <2>1, <2>2 DEF Rows, OneJobPerKey
<1>4. RefusedFindsRow'
  BY DEF Rows, RefusedFindsRow, Sets
<1>5. ConflictFindsJob'
  BY DEF Rows, ConflictFindsJob, With, Sets
<1> QED BY <1>2, <1>3, <1>4, <1>5 DEF Rows

\* No step of the system breaks the rows' invariant.
LEMMA RowsStep ==
    ASSUME TypeOK, Rows, ReservationShape, [Next]_vars
    PROVE  Rows'
<1>f. ASSUME NEW r \in Requests, req[r].pc \notin {"commit", "release"}
      PROVE  \A k \in Keys : inserting[k] # r
  BY <1>f, RequestAssumption DEF Rows, UncommittedRows, TypeOK
<1>n. ASSUME NEW r \in Requests, req[r].pc # "done" PROVE req[r].result = "none"
  BY <1>n DEF ReservationShape
<1>1. ASSUME NEW r \in Requests, Lookup(r) PROVE Rows'
  <2>1. req[r].pc = "lookup" /\ UNCHANGED <<row, inserting>>
    BY <1>1 DEF Lookup
  <2>2. Validated(r) = "replayed" => row[KeyOf[r]] = Hash[r]
    BY DEF Validated
  <2> QED BY <1>1, <1>f, <1>n, <2>1, <2>2, LookupEffect, ValidatedCases, RowsKept
<1>2. ASSUME NEW r \in Requests, Reserve(r) PROVE Rows'
  <2>1. req[r].pc = "script" /\ UNCHANGED <<row, inserting>>
    BY <1>2 DEF Reserve
  <2> QED BY <1>2, <1>f, <1>n, <2>1, ReserveEffect, RowsKept
<1>b. ASSUME NEW r \in Requests, BuildWindowKey(r) PROVE Rows'
  <2>1. req[r].pc = "reserve" /\ UNCHANGED <<row, inserting>>
    BY <1>b DEF BuildWindowKey
  <2> QED BY <1>b, <1>f, <1>n, <2>1, BuildWindowKeyEffect, RowsKept
<1>3. ASSUME NEW r \in Requests, ReserveFails(r) PROVE Rows'
  <2>1. req[r].pc = "script" /\ UNCHANGED <<row, inserting>>
    BY <1>3 DEF ReserveFails
  <2> QED BY <1>3, <1>f, <1>n, <2>1, ReserveFailsEffect, RowsKept
<1>4. ASSUME NEW r \in Requests, Insert(r) PROVE Rows'
  <2>1. req[r].pc = "insert" /\ inserting[KeyOf[r]] = NoRequest /\ UNCHANGED row
    BY <1>4 DEF Insert
  <2>2. req[r].result = "none"
    BY <1>n, <2>1
  <2>3. CASE /\ row[KeyOf[r]] = NoHash
             /\ inserting' = [inserting EXCEPT ![KeyOf[r]] = r]
             /\ Sets(r, "commit", req[r].win, req[r].after, req[r].result)
    BY <2>1, <2>2, <2>3, RowsInserted
  <2>4. CASE /\ row[KeyOf[r]] # NoHash
             /\ inserting' = inserting
             /\ Sets(r, "release", req[r].win, "load", req[r].result)
    BY <1>f, <2>1, <2>2, <2>4, RowsKept
  <2> QED BY <1>4, <2>3, <2>4, InsertEffect
<1>5. ASSUME NEW r \in Requests, Commit(r) PROVE Rows'
  <2>1. Sets(r, "done", req[r].win, req[r].after, "created")
    BY <1>5, AnswerEffect DEF Commit, TypeOK
  <2> QED BY <1>5, <2>1, RowsCommitted DEF Commit
<1>6. ASSUME NEW r \in Requests, WriteFails(r) PROVE Rows'
  <2>1. Sets(r, "release", req[r].win, "error", "none")
    BY <1>6, <1>n, WriteFailsEffect DEF WriteFails
  <2>2. CASE inserting' \in {inserting, Withdrawn(r)} /\ UNCHANGED row
    <3>1. CASE UNCHANGED inserting
      BY <2>1, <2>2, <3>1, RowsKept
    <3>2. CASE inserting' = Withdrawn(r)
      BY <2>1, <2>2, <3>2, RowsKept
    <3> QED BY <2>2, <3>1, <3>2
  <2>3. CASE /\ req[r].pc = "commit"
             /\ row' = [row EXCEPT ![KeyOf[r]] = Hash[r]]
             /\ inserting' = Withdrawn(r)
    <3>1. "release" \in {"done", "release"} /\ "error" # "load" /\ "none" \in {"created", "none"}
      OBVIOUS
    <3> QED BY <2>1, <2>3, <3>1, RowsCommitted, Zenon
  <2> QED BY <1>6, <2>2, <2>3 DEF WriteFails
<1>7. ASSUME NEW r \in Requests, Release(r) \/ ReleaseFails(r) PROVE Rows'
  <2>1. /\ req[r].pc = "release"
        /\ inserting' = Withdrawn(r)
        /\ req' = Released(r)
        /\ UNCHANGED row
    BY <1>7 DEF Release, ReleaseFails
  <2>2. req[r].after = "load" => row[KeyOf[r]] # NoHash
    BY <2>1 DEF Rows, RefusedFindsRow
  <2>3. req[r].result = "none"
    BY <1>n, <2>1
  <2> QED BY <2>1, <2>2, <2>3, ReleasedEffect, RowsKept
<1>8. ASSUME NEW r \in Requests, Load(r) PROVE Rows'
  <2>1. req[r].pc = "load" /\ UNCHANGED <<row, inserting>> /\ row[KeyOf[r]] # NoHash
    BY <1>8 DEF Load, Rows, RefusedFindsRow
  <2>2. Sets(r, "done", req[r].win, req[r].after, Validated(r))
    BY <1>8, <2>1, AnswerEffect DEF Load, TypeOK
  <2>3. Validated(r) = "replayed" => row[KeyOf[r]] = Hash[r]
    BY DEF Validated
  <2> QED BY <1>f, <1>n, <2>1, <2>2, <2>3, ValidatedCases, RowsKept
<1>9. ASSUME NEW r \in Requests, ReadFails(r) PROVE Rows'
  <2>1. req[r].pc \in {"lookup", "load"} /\ UNCHANGED <<row, inserting>>
    BY <1>9 DEF ReadFails
  <2>2. Sets(r, "done", req[r].win, req[r].after, "error")
    BY <1>9, AnswerEffect DEF ReadFails, TypeOK
  <2> QED BY <1>f, <2>1, <2>2, RowsKept
<1>10. ASSUME NEW r \in Requests, Killed(r) PROVE Rows'
  <2>1. inserting' = Withdrawn(r) /\ UNCHANGED row
    BY <1>10 DEF Killed
  <2>2. Sets(r, "done", req[r].win, req[r].after, "killed")
    BY <1>10, KilledEffect
  <2> QED BY <2>1, <2>2, RowsKept
<1>11. CASE UNCHANGED <<row, inserting, req>>
  BY <1>11 DEF Rows, UncommittedRows, OneJobPerKey, RefusedFindsRow, ConflictFindsJob, With
<1> QED BY <1>1, <1>2, <1>b, <1>3, <1>4, <1>5, <1>6, <1>7, <1>8, <1>9, <1>10, <1>11
        DEF Next, Step, NextWindow, CounterExpires, vars

-----------------------------------------------------------------------------
(* The quota. *)

\* Sets of requests are finite, and counted as one expects.
LEMMA Counting ==
    ASSUME NEW S, S \subseteq Requests
    PROVE  /\ Cardinality(S) \in Nat
           /\ \A T : T \subseteq S => Cardinality(T) \in Nat /\ Cardinality(T) <= Cardinality(S)
           /\ \A x \in Requests : x \notin S => Cardinality(S \cup {x}) = Cardinality(S) + 1
           /\ \A x \in S : Cardinality(S \ {x}) = Cardinality(S) - 1 /\ Cardinality(S) >= 1
           /\ S = {} => Cardinality(S) = 0
<1>1. IsFiniteSet(S) /\ Cardinality(S) \in Nat
  BY FS_Subset, FS_CardinalityType, RequestAssumption
<1>2. \A T : T \subseteq S => Cardinality(T) \in Nat /\ Cardinality(T) <= Cardinality(S)
  BY <1>1, FS_Subset, FS_CardinalityType
<1>3. \A x \in Requests : x \notin S => Cardinality(S \cup {x}) = Cardinality(S) + 1
  BY <1>1, FS_AddElement
<1>4. ASSUME NEW x \in S PROVE Cardinality(S \ {x}) = Cardinality(S) - 1 /\ Cardinality(S) >= 1
  <2>1. Cardinality(S \ {x}) = Cardinality(S) - 1
    BY <1>1, FS_RemoveElement
  <2>2. Cardinality(S \ {x}) \in Nat
    BY <1>2
  <2> QED BY <1>1, <2>1, <2>2
<1>5. S = {} => Cardinality(S) = 0
  BY FS_EmptySet
<1> QED BY <1>1, <1>2, <1>3, <1>4, <1>5

Quota == ReservationShape /\ CounterCovers /\ AdmittedWithinLimit

\* What the invariant says of one counter that has not expired.
LEMMA Covered ==
    ASSUME TypeOK, Quota, NEW u \in Users, NEW w \in Windows, w \notin expired[u]
    PROVE  /\ Cardinality(Holders(u, w)) \in Nat
           /\ count[u][w] \in Nat
           /\ count[u][w] >= Cardinality(Holders(u, w))
           /\ faults = 0 => count[u][w] = Cardinality(Holders(u, w))
<1>1. Cardinality(Holders(u, w)) \in Nat
  BY Counting DEF Holders
<1> QED BY <1>1 DEF Quota, CounterCovers, TypeOK

\* A window that admits nobody new stays within the limit.
LEMMA AdmittedShrinks ==
    ASSUME Quota, NEW u \in Users, NEW w \in Windows, Admitted(u, w)' \subseteq Admitted(u, w)
    PROVE  Cardinality(Admitted(u, w)') <= Limit
<1>1. Cardinality(Admitted(u, w)) <= Limit /\ Admitted(u, w) \subseteq Requests
  BY DEF Quota, AdmittedWithinLimit, Admitted, Holders
<1>2. Cardinality(Admitted(u, w)) \in Nat /\ Cardinality(Admitted(u, w)') \in Nat
      /\ Cardinality(Admitted(u, w)') <= Cardinality(Admitted(u, w))
  BY <1>1, Counting
<1> QED BY <1>1, <1>2, LimitAssumption

\* A request that keeps its reservation, while the counters are left alone or, in a
\* fault, raised for nobody.
LEMMA QuotaKept ==
    ASSUME TypeOK, TypeOK', Quota, NEW r \in Requests, NEW c, NEW a, NEW v,
           req[r].pc # "done", Sets(r, c, req[r].win, a, v), LateKept(r),
           UNCHANGED expired,
           faults' \in {faults, faults + 1},
           \A u \in Users : \A w \in Windows :
               /\ count'[u][w] >= count[u][w]
               /\ faults' = 0 => count'[u][w] = count[u][w],
           c \in {"lookup", "reserve", "script", "load"} => req[r].win = 0,
           c = "script" => req'[r].key \in Windows,
           c # "done" => v = "none",
           faults' = 0 /\ c = "done" /\ req[r].win # 0 => v \in {"created", "limited"}
    PROVE  Quota'
<1>0. faults \in Nat /\ (faults' = 0 => faults = 0)
  BY DEF TypeOK
<1>1. ReservationShape'
  BY <1>0 DEF Quota, ReservationShape, Sets
<1>2. \A u, w : Holders(u, w)' = Holders(u, w)
  BY DEF Holders, Sets, Owner
<1>3. ASSUME NEW u \in Users, NEW w \in Windows, w \notin expired'[u]
      PROVE  /\ count'[u][w] >= Cardinality(Holders(u, w)')
             /\ faults' = 0 => count'[u][w] = Cardinality(Holders(u, w)')
  <2>1. Holders(u, w)' = Holders(u, w)
    BY <1>2
  <2>2. count'[u][w] \in Nat /\ w \notin expired[u]
    BY <1>3 DEF TypeOK
  <2> QED BY <1>0, <2>1, <2>2, Covered
<1>4. CounterCovers'
  BY <1>3 DEF CounterCovers
<1>5. AdmittedWithinLimit'
  <2> SUFFICES ASSUME NEW u \in Users, NEW w \in Windows
               PROVE  Cardinality(Admitted(u, w)') <= Limit
    BY DEF AdmittedWithinLimit
  <2>1. req[r].result = "none"
    BY DEF Quota, ReservationShape
  <2>2. Admitted(u, w)' \subseteq Admitted(u, w)
    BY <1>2, <2>1 DEF Admitted, Sets, LateKept, Holders
  <2> QED BY <2>2, AdmittedShrinks
<1> QED BY <1>1, <1>4, <1>5 DEF Quota

\* Raising a counter touches no other.
LEMMA RaisedEffect ==
    ASSUME TypeOK, NEW r \in Requests, count' = Raised(r), req[r].key \in Windows
    PROVE  \A u \in Users : \A w \in Windows :
              /\ count[u][w] \in Nat
              /\ count'[u][w] = IF u = Owner(r) /\ w = req[r].key
                                THEN count[u][w] + 1 ELSE count[u][w]
<1>1. PICK o \in Users, k \in Windows : o = Owner(r) /\ k = req[r].key
  BY OwnerIn
<1>2. count' = [count EXCEPT ![o][k] = @ + 1]
  BY <1>1 DEF Raised
<1>3. \A u \in Users : \A w \in Windows : count[u][w] \in Nat
  BY DEF TypeOK
<1>4. \A u \in Users : \A w \in Windows :
         count'[u][w] = IF u = o /\ w = k THEN count[u][w] + 1 ELSE count[u][w]
  BY <1>2 DEF TypeOK
<1> QED BY <1>1, <1>3, <1>4

\* The limiter counts the request, and admits it only below the limit; a script that
\* finds its counter expired marks the request late.
LEMMA QuotaRaised ==
    ASSUME TypeOK, TypeOK', Quota, NEW r \in Requests, Reserve(r)
    PROVE  Quota'
<1>p. PICK o \in Users, k \in Windows : o = Owner(r) /\ k = req[r].key
  BY OwnerIn DEF Reserve, Quota, ReservationShape
<1>0. /\ req[r].pc = "script" /\ req[r].win = 0 /\ req[r].result = "none" /\ k # 0
      /\ UNCHANGED <<expired, faults>>
  BY DEF Reserve, Quota, ReservationShape, Windows
<1>1. /\ req'[r].win = k
      /\ req'[r].late = (k \in expired[o])
      /\ \/ req'[r].pc = "done" /\ req'[r].result = "limited"
         \/ /\ req'[r].pc = "insert" /\ req'[r].result = "none"
            /\ ~(count[o][k] + 1 > Limit)
      /\ \A q \in Requests : q # r => req'[q] = req[q]
  BY <1>p, <1>0, ReserveEffect DEF Sets
<1>2. ReservationShape'
  BY <1>0, <1>1 DEF Quota, ReservationShape
<1>3. /\ Holders(o, k)' = Holders(o, k) \cup {r}
      /\ r \notin Holders(o, k)
      /\ \A u \in Users : \A w \in Windows : u # o \/ w # k => Holders(u, w)' = Holders(u, w)
  BY <1>p, <1>0, <1>1, LimitAssumption DEF Holders, Owner, Windows
<1>4. \A u \in Users : \A w \in Windows :
         /\ count[u][w] \in Nat
         /\ count'[u][w] = IF u = o /\ w = k THEN count[u][w] + 1 ELSE count[u][w]
  BY <1>p, RaisedEffect DEF Reserve
<1>5. Cardinality(Holders(o, k)') = Cardinality(Holders(o, k)) + 1
  BY <1>3, Counting DEF Holders
<1>6. ASSUME NEW u \in Users, NEW w \in Windows, w \notin expired'[u]
      PROVE  /\ count'[u][w] >= Cardinality(Holders(u, w)')
             /\ faults' = 0 => count'[u][w] = Cardinality(Holders(u, w)')
  <2>0. w \notin expired[u]
    BY <1>0, <1>6
  <2>1. CASE u = o /\ w = k
    BY <1>0, <1>4, <1>5, <2>0, <2>1, Covered
  <2>2. CASE u # o \/ w # k
    BY <1>0, <1>3, <1>4, <2>0, <2>2, Covered
  <2> QED BY <2>1, <2>2
<1>7. CounterCovers'
  BY <1>6 DEF CounterCovers
<1>8. AdmittedWithinLimit'
  <2> SUFFICES ASSUME NEW u \in Users, NEW w \in Windows
               PROVE  Cardinality(Admitted(u, w)') <= Limit
    BY DEF AdmittedWithinLimit
  <2>1. CASE Admitted(u, w)' \subseteq Admitted(u, w)
    BY <2>1, AdmittedShrinks
  <2>2. CASE ~(Admitted(u, w)' \subseteq Admitted(u, w))
    <3>1. u = o /\ w = k /\ k \notin expired[o] /\ ~(count[o][k] + 1 > Limit)
      BY <1>p, <1>0, <1>1, <2>2 DEF Admitted, Holders, Owner
    <3>2. Admitted(o, k)' \subseteq Holders(o, k)' /\ Holders(o, k)' \subseteq Requests
      BY DEF Admitted, Holders
    <3>3. Cardinality(Admitted(o, k)') \in Nat
          /\ Cardinality(Admitted(o, k)') <= Cardinality(Holders(o, k)')
      BY <3>2, Counting
    <3>4. Cardinality(Admitted(o, k)') <= Limit
      BY <1>4, <1>5, <3>1, <3>3, Covered, LimitAssumption
    <3> QED BY <3>1, <3>4
  <2> QED BY <2>1, <2>2
<1> QED BY <1>2, <1>7, <1>8 DEF Quota

\* The release gives the reservation back; one whose script failed leaves the
\* counter at least as high as the reservations.
LEMMA QuotaReleased ==
    ASSUME TypeOK, TypeOK', Quota, NEW r \in Requests, Release(r) \/ ReleaseFails(r)
    PROVE  Quota'
<1>p. PICK o \in Users, h \in Windows \cup {0} : o = Owner(r) /\ h = req[r].win
  BY OwnerIn DEF TypeOK, ReqState
<1>0. /\ req[r].pc = "release" /\ req[r].result = "none"
      /\ 0 \notin Windows
      /\ req' = Released(r)
      /\ UNCHANGED expired
      /\ faults \in Nat /\ faults' \in {faults, faults + 1}
      /\ count' = Lowered(r) \/ (faults' # 0 /\ count' = count)
  BY DEF Release, ReleaseFails, Fault, Quota, ReservationShape, TypeOK, Windows
<1>1. /\ req'[r].win = 0
      /\ req'[r].pc = "done" \/ (req'[r].pc = "load" /\ req'[r].result = "none")
      /\ \A q \in Requests : q # r => req'[q] = req[q]
  BY <1>0, ReleasedEffect DEF Sets
<1>2. ReservationShape'
  BY <1>0, <1>1 DEF Quota, ReservationShape
<1>3. /\ \A u, w : w # 0 => Holders(u, w)' = Holders(u, w) \ {r}
      /\ \A u, w : r \in Holders(u, w) <=> u = o /\ w = h
  BY <1>p, <1>0, <1>1 DEF Holders, Owner
<1>4. /\ \A u \in Users : \A w \in Windows : count[u][w] \in Nat /\ count'[u][w] \in Nat
      /\ \A u \in Users : \A w \in Windows : u # o \/ w # h => count'[u][w] = count[u][w]
      /\ h # 0 => \/ count'[o][h] = (IF count[o][h] <= 1 THEN 0 ELSE count[o][h] - 1)
                  \/ faults' # 0 /\ count'[o][h] = count[o][h]
  <2>1. \A u \in Users : \A w \in Windows : count[u][w] \in Nat /\ count'[u][w] \in Nat
    BY DEF TypeOK
  <2>2. CASE h = 0
    <3>1. count' = count
      BY <1>p, <1>0, <2>2 DEF Lowered
    <3> QED BY <2>1, <2>2, <3>1
  <2>3. CASE h # 0
    <3>1. CASE count' = Lowered(r)
      <4>1. count' = [count EXCEPT ![o][h] = IF @ <= 1 THEN 0 ELSE @ - 1]
        BY <1>p, <2>3, <3>1 DEF Lowered
      <4> QED BY <2>1, <2>3, <4>1 DEF TypeOK
    <3>2. CASE faults' # 0 /\ count' = count
      BY <2>1, <2>3, <3>2
    <3> QED BY <1>0, <3>1, <3>2
  <2> QED BY <2>2, <2>3
<1>6. ASSUME NEW u \in Users, NEW w \in Windows, w \notin expired'[u]
      PROVE  /\ count'[u][w] >= Cardinality(Holders(u, w)')
             /\ faults' = 0 => count'[u][w] = Cardinality(Holders(u, w)')
  <2>0. /\ Holders(u, w)' = Holders(u, w) \ {r} /\ Holders(u, w) \subseteq Requests
        /\ w \notin expired[u] /\ w # 0
    BY <1>0, <1>3, <1>6 DEF Holders
  <2>1. CASE u = o /\ h = w
    <3>1. r \in Holders(u, w)
      BY <1>3, <2>1
    <3>2. /\ Cardinality(Holders(u, w)') = Cardinality(Holders(u, w)) - 1
          /\ Cardinality(Holders(u, w)) >= 1
      BY <2>0, <3>1, Counting
    <3>3. \/ count'[u][w] = (IF count[u][w] <= 1 THEN 0 ELSE count[u][w] - 1)
          \/ faults' # 0 /\ count'[u][w] = count[u][w]
      BY <1>4, <2>0, <2>1
    <3>4. /\ count[u][w] \in Nat /\ Cardinality(Holders(u, w)) \in Nat
          /\ count[u][w] >= Cardinality(Holders(u, w))
          /\ faults = 0 => count[u][w] = Cardinality(Holders(u, w))
      BY <2>0, Covered
    <3>5. count[u][w] >= 1
      BY <3>2, <3>4
    <3>6. CASE faults' # 0 /\ count'[u][w] = count[u][w]
      BY <3>2, <3>4, <3>6
    <3>7. CASE count'[u][w] = IF count[u][w] <= 1 THEN 0 ELSE count[u][w] - 1
      <4>1. count'[u][w] = count[u][w] - 1
        BY <3>4, <3>5, <3>7
      <4> QED BY <1>0, <3>2, <3>4, <4>1
    <3> QED BY <3>3, <3>6, <3>7
  <2>2. CASE u # o \/ h # w
    <3>1. Holders(u, w)' = Holders(u, w)
      BY <1>3, <2>0, <2>2
    <3>2. count'[u][w] = count[u][w]
      BY <1>4, <2>2
    <3>3. faults' = 0 => faults = 0
      BY <1>0
    <3> QED BY <2>0, <3>1, <3>2, <3>3, Covered
  <2> QED BY <2>1, <2>2
<1>7. CounterCovers'
  BY <1>6 DEF CounterCovers
<1>8. AdmittedWithinLimit'
  <2> SUFFICES ASSUME NEW u \in Users, NEW w \in Windows
               PROVE  Cardinality(Admitted(u, w)') <= Limit
    BY DEF AdmittedWithinLimit
  <2>1. Admitted(u, w)' \subseteq Admitted(u, w)
    BY <1>0, <1>1 DEF Admitted, Holders, Owner
  <2> QED BY <2>1, AdmittedShrinks
<1> QED BY <1>2, <1>7, <1>8 DEF Quota

\* A counter that expires is not counted on any more.
LEMMA QuotaCounterExpires ==
    ASSUME TypeOK, TypeOK', Quota, NEW u \in Users, NEW w \in Windows, CounterExpires(u, w)
    PROVE  Quota'
<1>0. UNCHANGED <<req, faults>>
  BY DEF CounterExpires
<1>1. ASSUME NEW x \in Users, NEW z \in Windows, z \notin expired'[x]
      PROVE  z \notin expired[x] /\ count'[x][z] = count[x][z]
  BY <1>1 DEF CounterExpires, TypeOK
<1>2. \A x, z : Holders(x, z)' = Holders(x, z) /\ Admitted(x, z)' = Admitted(x, z)
  BY <1>0 DEF Holders, Owner, Admitted
<1>3. ReservationShape'
  BY <1>0 DEF Quota, ReservationShape
<1>4. CounterCovers'
  BY <1>0, <1>1, <1>2, Covered DEF CounterCovers
<1>5. AdmittedWithinLimit'
  BY <1>2 DEF Quota, AdmittedWithinLimit
<1> QED BY <1>3, <1>4, <1>5 DEF Quota

\* No step of the system breaks the quota's invariant.
LEMMA QuotaStep ==
    ASSUME TypeOK, TypeOK', Quota, Rows, [Next]_vars
    PROVE  Quota'
<1>c. ASSUME UNCHANGED count
      PROVE  \A u \in Users : \A w \in Windows :
                /\ count'[u][w] >= count[u][w]
                /\ faults' = 0 => count'[u][w] = count[u][w]
  BY <1>c DEF TypeOK
<1>n. \A r \in Requests : req[r].pc # "done" => req[r].result = "none"
  BY DEF Quota, ReservationShape
<1>z. \A r \in Requests : req[r].pc \in {"lookup", "reserve", "script", "load"} => req[r].win = 0
  BY DEF Quota, ReservationShape
<1>t. faults \in Nat
  BY DEF TypeOK
<1>1. ASSUME NEW r \in Requests, Lookup(r) PROVE Quota'
  <2>1. req[r].pc = "lookup" /\ UNCHANGED <<count, expired, faults>>
    BY <1>1 DEF Lookup
  <2> QED BY <1>1, <1>c, <1>n, <1>z, <2>1, LookupEffect, QuotaKept
<1>b. ASSUME NEW r \in Requests, BuildWindowKey(r) PROVE Quota'
  <2>1. req[r].pc = "reserve" /\ UNCHANGED <<count, expired, faults>> /\ window \in Windows
    BY <1>b DEF BuildWindowKey, TypeOK
  <2> QED BY <1>b, <1>c, <1>n, <1>z, <2>1, BuildWindowKeyEffect, QuotaKept
<1>3. ASSUME NEW r \in Requests, ReserveFails(r) PROVE Quota'
  <2>1. /\ req[r].pc = "script" /\ req[r].key \in Windows /\ UNCHANGED expired
        /\ faults' = faults + 1 /\ count' \in {count, Raised(r)}
    BY <1>3 DEF ReserveFails, Fault, Quota, ReservationShape
  <2>2. \A u \in Users : \A w \in Windows : count'[u][w] >= count[u][w]
    <3>1. CASE UNCHANGED count
      BY <1>c, <3>1
    <3>2. CASE count' = Raised(r)
      BY <2>1, <3>2, RaisedEffect
    <3> QED BY <2>1, <3>1, <3>2
  <2>3. faults' # 0
    BY <1>t, <2>1
  <2> QED BY <1>3, <1>n, <2>1, <2>2, <2>3, ReserveFailsEffect, QuotaKept
<1>4. ASSUME NEW r \in Requests, Insert(r) PROVE Quota'
  <2>1. req[r].pc = "insert" /\ UNCHANGED <<count, expired, faults>>
    BY <1>4 DEF Insert
  <2>2. LateKept(r) /\ req[r].result = "none"
    BY <1>4, <1>n, <2>1, InsertEffect
  <2>3. CASE Sets(r, "commit", req[r].win, req[r].after, req[r].result)
    BY <1>c, <2>1, <2>2, <2>3, QuotaKept
  <2>4. CASE Sets(r, "release", req[r].win, "load", req[r].result)
    BY <1>c, <2>1, <2>2, <2>4, QuotaKept
  <2> QED BY <1>4, <2>3, <2>4, InsertEffect
<1>5. ASSUME NEW r \in Requests, Commit(r) PROVE Quota'
  <2>1. req[r].pc = "commit" /\ UNCHANGED <<count, expired, faults>>
    BY <1>5 DEF Commit
  <2>2. Sets(r, "done", req[r].win, req[r].after, "created") /\ LateKept(r)
    BY <1>5, AnswerEffect DEF Commit, TypeOK
  <2> QED BY <1>c, <2>1, <2>2, QuotaKept
<1>6. ASSUME NEW r \in Requests, WriteFails(r) PROVE Quota'
  <2>1. req[r].pc \in {"insert", "commit"} /\ UNCHANGED <<count, expired, faults>>
    BY <1>6 DEF WriteFails
  <2> QED BY <1>6, <1>c, <1>n, <2>1, WriteFailsEffect, QuotaKept
<1>8. ASSUME NEW r \in Requests, Load(r) PROVE Quota'
  <2>1. req[r].pc = "load" /\ UNCHANGED <<count, expired, faults>>
    BY <1>8 DEF Load
  <2>2. PICK v : Sets(r, "done", req[r].win, req[r].after, v) /\ LateKept(r)
    BY <1>8, AnswerEffect DEF Load, TypeOK
  <2> QED BY <1>c, <1>z, <2>1, <2>2, QuotaKept
<1>9. ASSUME NEW r \in Requests, ReadFails(r) PROVE Quota'
  <2>1. req[r].pc \in {"lookup", "load"} /\ UNCHANGED <<count, expired, faults>>
    BY <1>9 DEF ReadFails
  <2>2. Sets(r, "done", req[r].win, req[r].after, "error") /\ LateKept(r)
    BY <1>9, AnswerEffect DEF ReadFails, TypeOK
  <2> QED BY <1>c, <1>z, <2>1, <2>2, QuotaKept
<1>10. ASSUME NEW r \in Requests, Killed(r) PROVE Quota'
  <2>1. req[r].pc # "done" /\ UNCHANGED <<count, expired>> /\ faults' = faults + 1
    BY <1>10 DEF Killed, Fault
  <2>2. Sets(r, "done", req[r].win, req[r].after, "killed") /\ LateKept(r)
    BY <1>10, KilledEffect
  <2> QED BY <1>c, <1>t, <2>1, <2>2, QuotaKept
<1>11. CASE NextWindow \/ UNCHANGED vars
  <2>1. UNCHANGED <<count, expired, req, faults>>
    BY <1>11 DEF vars, NextWindow
  <2> QED BY <2>1 DEF Quota, ReservationShape, CounterCovers, AdmittedWithinLimit,
                      Admitted, Holders, Owner
<1> QED BY <1>1, <1>b, QuotaRaised, <1>3, <1>4, <1>5, <1>6, QuotaReleased, <1>8, <1>9, <1>10, <1>11,
           QuotaCounterExpires
        DEF Next, Step

-----------------------------------------------------------------------------
(* The theorems. *)

\* The inductive invariant holds before the first request.
LEMMA CreationInit == Init => Inductive
<1> SUFFICES ASSUME Init PROVE Inductive
  OBVIOUS
<1>0. /\ \A r \in Requests : req[r] = [pc |-> "lookup", key |-> 0, win |-> 0, late |-> FALSE,
                                      after |-> "none", result |-> "none"]
      /\ row = [k \in Keys |-> NoHash] /\ inserting = [k \in Keys |-> NoRequest]
      /\ count = [u \in Users |-> [w \in Windows |-> 0]]
      /\ expired = [u \in Users |-> {}]
      /\ window = 1 /\ window \in Windows /\ faults = 0 /\ dbErrors = 0
  BY LimitAssumption DEF Init, Windows
<1>1. TypeOK
  BY <1>0 DEF Init, TypeOK, ReqState
<1>2. UncommittedRows /\ RefusedFindsRow
  BY <1>0, RequestAssumption DEF UncommittedRows, RefusedFindsRow
<1>3. OneJobPerKey /\ ConflictFindsJob
  BY <1>0 DEF OneJobPerKey, ConflictFindsJob, With
<1>4. ReservationShape
  BY <1>0 DEF ReservationShape
<1>5. \A u \in Users : \A w \in Windows : Holders(u, w) = {} /\ Admitted(u, w) = {}
  BY <1>0 DEF Holders, Admitted, Windows
<1>6. \A u \in Users : \A w \in Windows :
         Cardinality(Holders(u, w)) = 0 /\ Cardinality(Admitted(u, w)) = 0
  BY <1>5, Counting
<1>7. CounterCovers
  BY <1>0, <1>6 DEF CounterCovers
<1>8. AdmittedWithinLimit
  BY <1>6, LimitAssumption DEF AdmittedWithinLimit
<1> QED BY <1>1, <1>2, <1>3, <1>4, <1>7, <1>8 DEF Inductive

\* Every step keeps the inductive invariant.
LEMMA CreationStep == Inductive /\ [Next]_vars => Inductive'
<1> SUFFICES ASSUME Inductive, [Next]_vars PROVE Inductive'
  OBVIOUS
<1>1. TypeOK /\ Rows /\ Quota
  BY DEF Inductive, Rows, Quota
<1>2. TypeOK'
  BY <1>1, TypeStep
<1>3. Rows'
  BY <1>1, RowsStep DEF Quota
<1>4. Quota'
  BY <1>1, <1>2, QuotaStep
<1> QED BY <1>2, <1>3, <1>4 DEF Inductive, Rows, Quota

\* The inductive invariant of POST /jobs.
LEMMA CreationInvariant == Spec => []Inductive
BY CreationInit, CreationStep, PTL DEF Spec

\* Every variable of the creation model keeps its type: the counters of the rate
\* limiter never go below zero, whatever the scripts and the expiries do.
THEOREM CreationTypeCorrect == Spec => []TypeOK
BY CreationInvariant, PTL DEF Inductive

\* However many create requests share a key, and whatever fails, at most one is
\* told it created the job, and all are told about the stored one.
THEOREM UniqueCreation == Spec => []OneJobPerKey
BY CreationInvariant, PTL DEF Inductive

\* A request the unique constraint refuses finds the job it collided with: the
\* RuntimeError of _load_existing_job is unreachable.
THEOREM ConflictResolved == Spec => []ConflictFindsJob
BY CreationInvariant, PTL DEF Inductive

\* No rate window admits more created jobs than the limit, for any limit and any
\* number of requests, releases, expiries and failed scripts, but for the requests
\* whose script reached Redis after the counter of their window had expired.
THEOREM LimitHolds == Spec => []WithinLimit
<1>1. Inductive => WithinLimit
  <2> SUFFICES ASSUME Inductive, NEW u \in Users, NEW w \in Windows
               PROVE  Cardinality({r \in With({"created"}) :
                          Owner(r) = u /\ req[r].win = w /\ ~req[r].late}) <= Limit
    BY DEF WithinLimit
  <2> DEFINE S == {r \in With({"created"}) : Owner(r) = u /\ req[r].win = w /\ ~req[r].late}
  <2>1. S \subseteq Admitted(u, w)
    BY DEF With, Admitted, Holders
  <2>2. Admitted(u, w) \subseteq Requests
    BY DEF Admitted, Holders
  <2> HIDE DEF S
  <2>3. /\ Cardinality(S) \in Nat /\ Cardinality(Admitted(u, w)) \in Nat
        /\ Cardinality(S) <= Cardinality(Admitted(u, w))
    BY <2>1, <2>2, Counting
  <2>4. Cardinality(Admitted(u, w)) <= Limit
    BY DEF Inductive, AdmittedWithinLimit
  <2>5. Cardinality(S) <= Limit
    BY <2>3, <2>4, LimitAssumption
  <2> QED BY <2>5 DEF S
<1> QED BY <1>1, CreationInvariant, PTL

\* While no Redis call fails and no process dies, a counter that has not expired is
\* exactly the requests in flight, created or rejected of its window: every other
\* path gives its reservation back, once.
THEOREM QuotaGivenBack == Spec => []QuotaAccounted
<1>1. Inductive => QuotaAccounted
  <2> SUFFICES ASSUME Inductive, faults = 0, NEW u \in Users, NEW w \in Windows \ expired[u]
               PROVE  count[u][w] =
                        Cardinality({r \in Requests :
                            /\ Owner(r) = u
                            /\ req[r].win = w
                            /\ req[r].pc # "done" \/ req[r].result \in {"created", "limited"}})
    BY DEF QuotaAccounted
  <2>0. w # 0
    BY DEF Windows
  <2>1. Holders(u, w) =
          {r \in Requests :
              /\ Owner(r) = u
              /\ req[r].win = w
              /\ req[r].pc # "done" \/ req[r].result \in {"created", "limited"}}
    BY <2>0 DEF Inductive, Holders, ReservationShape
  <2>2. count[u][w] = Cardinality(Holders(u, w))
    BY DEF Inductive, CounterCovers
  <2> QED BY <2>1, <2>2, Zenon
<1> QED BY <1>1, CreationInvariant, PTL
=============================================================================
