---------------------------- MODULE JobListingProofs ----------------------------
(***************************************************************************)
(* Proofs about JobListing, for any finite set of jobs, any created_at,    *)
(* any limits and any number of clients and stored pages.                  *)
(***************************************************************************)
EXTENDS JobListing, FiniteSetTheorems, WellFoundedInduction, TLAPS

Typed == created \in [Jobs -> Times \cup {NoTime}]

\* The jobs of S that the query returns ahead of k, and behind it.
Ahead(S, k) == {i \in S : Before(i, k)}
Behind(S, k) == {i \in S : Before(k, i)}

\* A nonempty set of natural numbers has a least one.
LEMMA LeastNat ==
    ASSUME NEW S, S \subseteq Nat, S # {}
    PROVE  \E m \in S : \A n \in S : m <= n
<1>1. PICK m \in S : \A n \in S : ~(<<n, m>> \in OpToRel(<, Nat))
  BY NatLessThanWellFounded, WFMin
<1>2. ASSUME NEW n \in S PROVE m <= n
  <2>1. ~(n < m)
    BY <1>1 DEF OpToRel
  <2> QED BY <2>1
<1> QED BY <1>2

\* The types of the values the query compares.
LEMMA CommittedTypes ==
    ASSUME Typed
    PROVE  /\ Committed \subseteq Jobs /\ Committed \subseteq Nat
           /\ \A k \in Committed : created[k] \in Times /\ created[k] \in Nat
           /\ \A S \in SUBSET Committed : IsFiniteSet(S) /\ Cardinality(S) \in Nat
<1>1. /\ Committed \subseteq Jobs /\ Committed \subseteq Nat
      /\ \A k \in Committed : created[k] \in Times /\ created[k] \in Nat
  BY ListingAssumption DEF Typed, Committed
<1>2. ASSUME NEW S \in SUBSET Committed PROVE IsFiniteSet(S) /\ Cardinality(S) \in Nat
  BY <1>1, ListingAssumption, FS_Subset, FS_CardinalityType
<1> QED BY <1>1, <1>2

\* ORDER BY created_at DESC, id DESC is a strict total order on the rows.
LEMMA BeforeOrder ==
    ASSUME Typed
    PROVE  /\ \A i \in Committed : ~Before(i, i)
           /\ \A i, j \in Committed : ~(Before(i, j) /\ Before(j, i))
           /\ \A i, j \in Committed : i = j \/ Before(i, j) \/ Before(j, i)
           /\ \A i, j, k \in Committed : Before(i, j) /\ Before(j, k) => Before(i, k)
BY CommittedTypes DEF Before

\* A job ahead of another has fewer jobs ahead of it, and more behind it.
LEMMA RanksFollowOrder ==
    ASSUME Typed, NEW S \in SUBSET Committed, NEW i \in S, NEW k \in S, Before(i, k)
    PROVE  /\ Cardinality(Ahead(S, i)) < Cardinality(Ahead(S, k))
           /\ Cardinality(Behind(S, k)) < Cardinality(Behind(S, i))
<1>1. /\ Ahead(S, i) \subseteq Ahead(S, k) /\ i \in Ahead(S, k) /\ i \notin Ahead(S, i)
      /\ Behind(S, k) \subseteq Behind(S, i) /\ k \in Behind(S, i) /\ k \notin Behind(S, k)
  BY BeforeOrder DEF Ahead, Behind
<1>2. /\ Ahead(S, k) \in SUBSET Committed /\ Ahead(S, i) \in SUBSET Committed
      /\ Behind(S, k) \in SUBSET Committed /\ Behind(S, i) \in SUBSET Committed
  BY DEF Ahead, Behind
<1>3. /\ IsFiniteSet(Ahead(S, k)) /\ Cardinality(Ahead(S, k)) \in Nat
      /\ Cardinality(Ahead(S, i)) \in Nat
      /\ IsFiniteSet(Behind(S, i)) /\ Cardinality(Behind(S, i)) \in Nat
      /\ Cardinality(Behind(S, k)) \in Nat
  BY <1>2, CommittedTypes
<1>4. Cardinality(Ahead(S, i)) <= Cardinality(Ahead(S, k))
      /\ Cardinality(Ahead(S, i)) # Cardinality(Ahead(S, k))
  BY <1>1, <1>3, FS_Subset
<1>5. Cardinality(Behind(S, k)) <= Cardinality(Behind(S, i))
      /\ Cardinality(Behind(S, k)) # Cardinality(Behind(S, i))
  BY <1>1, <1>3, FS_Subset
<1> QED BY <1>3, <1>4, <1>5

\* A nonempty set of rows has a first one.
LEMMA FirstExists ==
    ASSUME Typed, NEW S \in SUBSET Committed, S # {}
    PROVE  \E k \in S : \A i \in S : ~Before(i, k)
<1> DEFINE R == {Cardinality(Ahead(S, k)) : k \in S}
<1>1. \A k \in S : Cardinality(Ahead(S, k)) \in Nat
  BY CommittedTypes DEF Ahead
<1>2. R \subseteq Nat /\ R # {}
  BY <1>1
<1>3. PICK m \in R : \A n \in R : m <= n
  <2> HIDE DEF R
  <2> QED BY <1>2, LeastNat
<1>4. PICK k \in S : m = Cardinality(Ahead(S, k))
  BY DEF R
<1>5. ASSUME NEW i \in S, Before(i, k) PROVE FALSE
  <2>1. Cardinality(Ahead(S, i)) < Cardinality(Ahead(S, k))
    BY <1>5, RanksFollowOrder
  <2>2. Cardinality(Ahead(S, k)) <= Cardinality(Ahead(S, i))
    BY <1>3, <1>4
  <2> QED BY <1>1, <2>1, <2>2
<1> QED BY <1>5

\* A nonempty set of rows has a last one, and LastOf names it.
LEMMA LastExists ==
    ASSUME Typed, NEW S \in SUBSET Committed, S # {}
    PROVE  LastOf(S) \in S /\ \A i \in S \ {LastOf(S)} : Before(i, LastOf(S))
<1> DEFINE R == {Cardinality(Behind(S, k)) : k \in S}
<1>1. \A k \in S : Cardinality(Behind(S, k)) \in Nat
  BY CommittedTypes DEF Behind
<1>2. R \subseteq Nat /\ R # {}
  BY <1>1
<1>3. PICK m \in R : \A n \in R : m <= n
  <2> HIDE DEF R
  <2> QED BY <1>2, LeastNat
<1>4. PICK k \in S : m = Cardinality(Behind(S, k))
  BY DEF R
<1>5. ASSUME NEW i \in S \ {k} PROVE Before(i, k)
  <2>1. CASE Before(k, i)
    <3>1. Cardinality(Behind(S, i)) < Cardinality(Behind(S, k))
      BY <2>1, RanksFollowOrder
    <3>2. Cardinality(Behind(S, k)) <= Cardinality(Behind(S, i))
      BY <1>3, <1>4
    <3> QED BY <1>1, <3>1, <3>2
  <2> QED BY <2>1, BeforeOrder
<1> QED BY <1>5 DEF LastOf

\* What LIMIT n returns: rows of S, with every row ahead of one of them, and all
\* of S when S has no more than n rows or fewer than n rows are returned.
LEMMA FirstRowsFacts ==
    ASSUME Typed, NEW S \in SUBSET Committed, NEW n \in Nat, n > 0
    PROVE  /\ FirstRows(S, n) \subseteq S
           /\ \A k \in FirstRows(S, n) : \A i \in S : Before(i, k) => i \in FirstRows(S, n)
           /\ S # {} => FirstRows(S, n) # {}
           /\ Cardinality(S) <= n => FirstRows(S, n) = S
           /\ Cardinality(FirstRows(S, n)) < n => FirstRows(S, n) = S
<1> DEFINE F == FirstRows(S, n)
<1>1. F = {k \in S : Cardinality(Ahead(S, k)) < n}
  BY DEF FirstRows, Ahead
<1> HIDE DEF F
<1>2. \A k \in S : Cardinality(Ahead(S, k)) \in Nat
  BY CommittedTypes DEF Ahead
<1>3. F \subseteq S
  BY <1>1
<1>4. \A k \in F : \A i \in S : Before(i, k) => i \in F
  <2> SUFFICES ASSUME NEW k \in F, NEW i \in S, Before(i, k) PROVE i \in F
    OBVIOUS
  <2>1. Cardinality(Ahead(S, i)) < Cardinality(Ahead(S, k))
    BY <1>3, RanksFollowOrder
  <2> QED BY <1>1, <1>2, <2>1
<1>5. ASSUME S # {} PROVE F # {}
  <2>1. PICK k \in S : \A i \in S : ~Before(i, k)
    BY <1>5, FirstExists
  <2>2. Ahead(S, k) = {}
    BY <2>1 DEF Ahead
  <2> QED BY <1>1, <2>2, FS_EmptySet
<1>6. ASSUME Cardinality(S) <= n PROVE F = S
  <2> SUFFICES ASSUME NEW k \in S PROVE Cardinality(Ahead(S, k)) < n
    BY <1>1
  <2>1. Ahead(S, k) \in SUBSET S /\ k \notin Ahead(S, k)
    BY BeforeOrder DEF Ahead
  <2>2. IsFiniteSet(S) /\ Cardinality(S) \in Nat
    BY CommittedTypes
  <2>3. Cardinality(Ahead(S, k)) <= Cardinality(S) /\ Cardinality(Ahead(S, k)) # Cardinality(S)
    BY <2>1, <2>2, FS_Subset
  <2> QED BY <1>2, <1>6, <2>2, <2>3
<1>7. ASSUME Cardinality(F) < n PROVE F = S
  <2> SUFFICES ASSUME S \ F # {} PROVE FALSE
    BY <1>3
  <2>1. PICK k \in S \ F : \A i \in S \ F : ~Before(i, k)
    BY FirstExists
  <2>2. Ahead(S, k) \in SUBSET F
    BY <2>1 DEF Ahead
  <2>3. IsFiniteSet(F) /\ Cardinality(F) \in Nat
    BY <1>3, CommittedTypes
  <2>4. Cardinality(Ahead(S, k)) <= Cardinality(F)
    BY <2>2, <2>3, FS_Subset
  <2> QED BY <1>1, <1>2, <1>7, <2>1, <2>3, <2>4
<1> QED BY <1>3, <1>4, <1>5, <1>6, <1>7 DEF F

\* A cursor made from a job divides the rows as the order of the query does.
LEMMA CursorDivides ==
    ASSUME Typed, NEW k \in Committed
    PROVE  /\ EncodeCursor(k) \in Cursors
           /\ \A i \in Committed : KeysetClause(EncodeCursor(k), i) <=> Before(k, i)
           /\ \A c \in Cursors : KeysetClause(c, k) => Later(c, EncodeCursor(k))
<1>1. EncodeCursor(k) \in Cursors
  BY CommittedTypes DEF EncodeCursor, Cursors
<1>2. EncodeCursor(k).created_at = created[k] /\ EncodeCursor(k).id = k
  BY DEF EncodeCursor
<1>3. \A i \in Committed : KeysetClause(EncodeCursor(k), i) <=> Before(k, i)
  BY <1>2, CommittedTypes DEF KeysetClause, Before
<1>4. \A c \in Cursors : KeysetClause(c, k) => Later(c, EncodeCursor(k))
  BY <1>2 DEF KeysetClause, Later
<1> QED BY <1>1, <1>3, <1>4

\* A page read from the database is the right one for its key.
LEMMA QueriedPageRight ==
    ASSUME Typed, NEW scope \in Scopes, NEW c \in Cursors \cup {NoCursor},
           NEW limit \in Nat \ {0},
           NEW page, page = BuildPage(ListKeyset(scope, c, limit + 1), limit),
           NEW key, key.scope = scope, key.cursor = c
    PROVE  page \in Pages /\ RightPage(key, page)
<1> DEFINE S == Eligible(key, Committed)
           rows == FirstRows(S, limit + 1)
           items == FirstRows(rows, limit)
           last == LastOf(items)
<1>1. ListKeyset(scope, c, limit + 1) = rows
  BY DEF ListKeyset, Eligible
<1>2. S \in SUBSET Committed
  BY DEF Eligible
<1>3. /\ page = [items |-> items,
                 next  |-> IF Cardinality(rows) > limit THEN EncodeCursor(last) ELSE NoCursor,
                 asOf  |-> Committed]
  BY <1>1 DEF BuildPage
<1> HIDE DEF S
<1>4. /\ rows \in SUBSET S
      /\ \A k \in rows : \A i \in S : Before(i, k) => i \in rows
      /\ Cardinality(rows) < limit + 1 => rows = S
  <2>1. PICK n \in Nat : n = limit + 1
    OBVIOUS
  <2>2. n > 0
    BY <2>1
  <2> QED BY <1>2, <2>1, <2>2, FirstRowsFacts
<1> HIDE DEF rows
<1>5. rows \in SUBSET Committed /\ IsFiniteSet(rows) /\ Cardinality(rows) \in Nat
  BY <1>2, <1>4, CommittedTypes
<1>6. /\ items \in SUBSET rows
      /\ \A k \in items : \A i \in rows : Before(i, k) => i \in items
      /\ rows # {} => items # {}
      /\ Cardinality(rows) <= limit => items = rows
  BY <1>5, FirstRowsFacts
<1> HIDE DEF items
<1>7. items \in SUBSET Jobs /\ items \in SUBSET Committed /\ Committed \in SUBSET Jobs
  BY <1>5, <1>6, CommittedTypes
<1>8. CASE Cardinality(rows) > limit
  <2>1. items # {}
    BY <1>5, <1>6, <1>8, FS_EmptySet
  <2>2. last \in items /\ \A i \in items \ {last} : Before(i, last)
    BY <1>7, <2>1, LastExists
  <2> HIDE DEF last
  <2>3. last \in Committed /\ last \in S
    BY <1>7, <1>6, <1>4, <2>2
  <2>4. /\ EncodeCursor(last) \in Cursors
        /\ \A i \in Committed : KeysetClause(EncodeCursor(last), i) <=> Before(last, i)
        /\ \A d \in Cursors : KeysetClause(d, last) => Later(d, EncodeCursor(last))
    BY <2>3, CursorDivides
  <2>5. /\ page.items = items /\ page.next = EncodeCursor(last) /\ page.asOf = Committed
        /\ page.next # NoCursor
    BY <1>3, <1>8, <2>4, CursorAssumption
  <2>6. page \in Pages
    BY <1>3, <1>7, <1>8, <2>4 DEF Pages
  <2>7. ASSUME NEW k \in S PROVE k \in items <=> ~Before(last, k)
    <3>1. CASE k \in items
      BY <3>1, <1>7, <2>2, <2>3, BeforeOrder
    <3>2. CASE k \notin items
      <4>1. k # last /\ k \in Committed
        BY <1>2, <3>2, <2>2
      <4>2. ~Before(k, last)
        BY <3>2, <2>2, <1>6, <1>4
      <4> QED BY <3>2, <4>1, <4>2, <2>3, BeforeOrder
    <3> QED BY <3>1, <3>2
  <2>8. \A k \in S : k \in page.items <=> ~KeysetClause(page.next, k)
    BY <1>2, <2>4, <2>5, <2>7
  <2>9. key.cursor # NoCursor => Later(key.cursor, page.next)
    <3> SUFFICES ASSUME key.cursor # NoCursor PROVE Later(key.cursor, page.next)
      OBVIOUS
    <3>1. KeysetClause(key.cursor, last) /\ key.cursor \in Cursors
      BY <2>3 DEF S, Eligible
    <3> QED BY <3>1, <2>4, <2>5
  <2>10. page.items \subseteq S
    BY <1>4, <1>6, <2>5
  <2> QED BY <2>5, <2>6, <2>8, <2>9, <2>10 DEF RightPage, S
<1>9. CASE ~(Cardinality(rows) > limit)
  <2>1. rows = S /\ items = S
    BY <1>4, <1>5, <1>6, <1>9
  <2>2. /\ page.items = items /\ page.next = NoCursor /\ page.asOf = Committed
    BY <1>3, <1>9
  <2>3. page \in Pages
    BY <1>3, <1>7, <1>9 DEF Pages
  <2> QED BY <2>1, <2>2, <2>3 DEF RightPage, S
<1> QED BY <1>8, <1>9

\* The limit a list is asked for with, once normalized.
LEMMA LimitNormalized ==
    ASSUME NEW n \in Limits
    PROVE  NormalizeLimit(n) \in Nat \ {0} /\ NormalizeLimit(n) \in 1 .. MaxLimit + DefaultLimit
<1>1. CASE n = NoLimit
  BY <1>1, ListingAssumption DEF NormalizeLimit
<1>2. CASE n # NoLimit
  <2>1. n \in 1 .. MaxLimit
    BY <1>2, ListingAssumption
  <2>2. NormalizeLimit(n) = n
    BY <1>2, <2>1, ListingAssumption DEF NormalizeLimit
  <2> QED BY <2>1, <2>2, ListingAssumption
<1> QED BY <1>1, <1>2

\* A cursor that has moved on has passed all that it had passed before.
LEMMA CursorMovesOn ==
    ASSUME Typed, NEW c \in Cursors, NEW d \in Cursors, Later(c, d), NEW k \in Committed,
           ~KeysetClause(c, k)
    PROVE  ~KeysetClause(d, k)
<1>1. /\ c.created_at \in Nat /\ c.id \in Nat /\ d.created_at \in Nat /\ d.id \in Nat
      /\ created[k] \in Nat /\ k \in Nat
  BY CommittedTypes, ListingAssumption DEF Cursors
<1> QED BY <1>1 DEF KeysetClause, Later

\* The right page carries a walk on: nothing is repeated, nothing is left out, and
\* nothing is shown that is not in the reader's list.
LEMMA ShownKeeps ==
    ASSUME Inductive, NEW r \in Readers, NEW page \in Pages, NEW key,
           key.scope = Scope[r], key.cursor = reader[r].cursor, RightPage(key, page),
           reader[r].pc = "walk", Shown(r, page), UNCHANGED created
    PROVE  /\ reader' \in [Readers -> ReaderState]
           /\ ShownPassed' /\ PassedShown' /\ NothingTwice' /\ WalkComplete'
<1> DEFINE old == reader[r]
           count == [k \in Jobs |-> IF k \in page.items /\ old.seen[k] < 2
                                    THEN old.seen[k] + 1 ELSE old.seen[k]]
           new == [pc     |-> IF page.next = NoCursor THEN "done" ELSE "walk",
                   cursor |-> page.next, seen |-> count, base |-> old.base \cap page.asOf]
<1>0. Typed /\ reader \in [Readers -> ReaderState]
  BY DEF Inductive, TypeOK, Typed
<1>1. /\ old \in ReaderState /\ old.seen \in [Jobs -> 0 .. 2] /\ old.base \subseteq Jobs
      /\ old.cursor \in Cursors \cup {NoCursor}
      /\ page.items \subseteq Jobs /\ page.next \in Cursors \cup {NoCursor} /\ page.asOf \subseteq Jobs
  BY <1>0 DEF ReaderState, Pages
<1>2. reader' = [reader EXCEPT ![r] = new]
  BY <1>0 DEF Shown
<1>3. count \in [Jobs -> 0 .. 2]
  BY <1>1
<1>4. new \in ReaderState
  <2> HIDE DEF count
  <2> QED BY <1>1, <1>3 DEF ReaderState
<1>5. /\ reader' \in [Readers -> ReaderState]
      /\ reader'[r] = new /\ \A q \in Readers \ {r} : reader'[q] = reader[q]
  <2> HIDE DEF new
  <2> QED BY <1>0, <1>2, <1>4
<1>6. /\ new.pc = (IF page.next = NoCursor THEN "done" ELSE "walk")
      /\ new.cursor = page.next /\ new.seen = count /\ new.base = old.base \cap page.asOf
  OBVIOUS
<1>7. /\ page.asOf \subseteq Committed
      /\ page.items \subseteq Eligible(key, page.asOf)
      /\ page.next = NoCursor => page.items = Eligible(key, page.asOf)
      /\ page.next # NoCursor =>
            /\ \A k \in Eligible(key, page.asOf) : k \in page.items <=> ~KeysetClause(page.next, k)
            /\ old.cursor # NoCursor => Later(old.cursor, page.next)
  BY DEF RightPage
<1>8. /\ Committed' = Committed
      /\ \A c, k : KeysetClause(c, k)' <=> KeysetClause(c, k)
      /\ \A q : MayList(q)' = MayList(q)
  BY DEF Committed, KeysetClause, MayList
<1>9. \A k \in MayList(r) \cap page.asOf :
         old.cursor = NoCursor \/ KeysetClause(old.cursor, k) => k \in Eligible(key, page.asOf)
  BY DEF Eligible, MayList
<1>10. \A k \in page.items : /\ k \in MayList(r) /\ k \in Committed
                             /\ old.cursor = NoCursor \/ KeysetClause(old.cursor, k)
  BY <1>1, <1>7 DEF Eligible, MayList
<1>11. \A k \in Jobs : old.seen[k] > 0 =>
          /\ k \in Committed \cap MayList(r)
          /\ old.cursor # NoCursor /\ ~KeysetClause(old.cursor, k)
  BY DEF Inductive, ShownPassed
<1>12. \A k \in page.items : old.seen[k] = 0
  BY <1>1, <1>10, <1>11
<1>13. \A k \in Jobs : count[k] = IF k \in page.items THEN 1 ELSE old.seen[k]
  BY <1>12, <1>1
<1> HIDE DEF old, new, count
<1>14. NothingTwice'
  <2>1. \A k \in Jobs : old.seen[k] <= 1
    BY DEF Inductive, NothingTwice, old
  <2>2. \A k \in Jobs : new.seen[k] <= 1
    BY <2>1, <1>6, <1>13
  <2> QED BY <2>2, <1>5 DEF Inductive, NothingTwice
<1>15. ShownPassed'
  <2>1. ASSUME NEW k \in Jobs, new.seen[k] > 0
        PROVE  /\ k \in Committed \cap MayList(r)
               /\ new.pc = "walk" => new.cursor # NoCursor /\ ~KeysetClause(new.cursor, k)
    <3>1. CASE k \in page.items
      <4>1. page.next # NoCursor => ~KeysetClause(page.next, k)
        BY <3>1, <1>7
      <4>2. new.pc = "walk" => page.next # NoCursor
        BY <1>6
      <4> QED BY <3>1, <4>1, <4>2, <1>6, <1>10
    <3>2. CASE k \notin page.items
      <4>1. old.seen[k] > 0
        BY <2>1, <3>2, <1>6, <1>13
      <4>2. /\ k \in Committed \cap MayList(r)
            /\ old.cursor # NoCursor /\ ~KeysetClause(old.cursor, k)
        BY <4>1, <1>11
      <4>3. page.next # NoCursor => ~KeysetClause(page.next, k)
        BY <4>2, <1>0, <1>1, <1>7, CursorMovesOn
      <4> QED BY <4>2, <4>3, <1>6
    <3> QED BY <3>1, <3>2
  <2>2. \A q \in Readers \ {r} : \A k \in Jobs : reader[q].seen[k] > 0 =>
           /\ k \in Committed \cap MayList(q)
           /\ reader[q].pc = "walk" =>
                 reader[q].cursor # NoCursor /\ ~KeysetClause(reader[q].cursor, k)
    BY DEF Inductive, ShownPassed
  <2> SUFFICES ASSUME NEW q \in Readers, NEW k \in Jobs, reader'[q].seen[k] > 0
               PROVE  /\ k \in Committed \cap MayList(q)
                      /\ reader'[q].pc = "walk" =>
                            reader'[q].cursor # NoCursor /\ ~KeysetClause(reader'[q].cursor, k)
    BY <1>8 DEF ShownPassed
  <2>3. CASE q = r
    BY <2>1, <2>3, <1>5
  <2>4. CASE q # r
    BY <2>2, <2>4, <1>5
  <2> QED BY <2>3, <2>4
<1>16. \A k \in new.base \cap MayList(r) :
          /\ new.pc = "walk" /\ ~KeysetClause(new.cursor, k) => new.seen[k] = 1
          /\ new.pc = "done" => new.seen[k] = 1
  <2> SUFFICES ASSUME NEW k \in new.base \cap MayList(r)
               PROVE  /\ new.pc = "walk" /\ ~KeysetClause(new.cursor, k) => new.seen[k] = 1
                      /\ new.pc = "done" => new.seen[k] = 1
    OBVIOUS
  <2>1. k \in old.base /\ k \in page.asOf /\ k \in MayList(r) /\ k \in Jobs
    BY <1>1, <1>6
  <2>2. CASE old.cursor = NoCursor \/ KeysetClause(old.cursor, k)
    <3>1. k \in Eligible(key, page.asOf)
      BY <2>1, <2>2, <1>9
    <3>2. page.next = NoCursor \/ ~KeysetClause(page.next, k) => k \in page.items
      BY <3>1, <1>7
    <3>3. k \in page.items => new.seen[k] = 1
      BY <2>1, <1>6, <1>13
    <3> QED BY <3>2, <3>3, <1>6
  <2>3. CASE old.cursor # NoCursor /\ ~KeysetClause(old.cursor, k)
    <3>1. old.seen[k] = 1
      BY <2>1, <2>3 DEF Inductive, PassedShown, old
    <3>2. new.seen[k] = 1
      BY <3>1, <2>1, <1>6, <1>13
    <3> QED BY <3>2
  <2> QED BY <2>2, <2>3
<1>17. PassedShown'
  <2>1. new.base \subseteq Committed
    BY <1>6, <1>7
  <2>2. \A q \in Readers \ {r} : (reader[q].pc = "walk" /\ reader[q].cursor # NoCursor) =>
           /\ reader[q].base \subseteq Committed
           /\ \A k \in reader[q].base \cap MayList(q) :
                 ~KeysetClause(reader[q].cursor, k) => reader[q].seen[k] = 1
    BY DEF Inductive, PassedShown
  <2> SUFFICES ASSUME NEW q \in Readers, reader'[q].pc = "walk", reader'[q].cursor # NoCursor
               PROVE  /\ reader'[q].base \subseteq Committed
                      /\ \A k \in reader'[q].base \cap MayList(q) :
                            ~KeysetClause(reader'[q].cursor, k) => reader'[q].seen[k] = 1
    BY <1>8 DEF PassedShown
  <2>3. CASE q = r
    BY <2>1, <2>3, <1>5, <1>16
  <2>4. CASE q # r
    BY <2>2, <2>4, <1>5
  <2> QED BY <2>3, <2>4
<1>18. WalkComplete'
  <2>1. \A q \in Readers \ {r} : reader[q].pc = "done" =>
           \A k \in reader[q].base \cap MayList(q) : reader[q].seen[k] = 1
    BY DEF Inductive, WalkComplete
  <2> SUFFICES ASSUME NEW q \in Readers, reader'[q].pc = "done"
               PROVE  \A k \in reader'[q].base \cap MayList(q) : reader'[q].seen[k] = 1
    BY <1>8 DEF WalkComplete
  <2>2. CASE q = r
    BY <2>2, <1>5, <1>16
  <2>3. CASE q # r
    BY <2>1, <2>3, <1>5
  <2> QED BY <2>2, <2>3
<1> QED BY <1>5, <1>14, <1>15, <1>17, <1>18

\* A page from the cache, however old.
LEMMA ServeCachedKeeps ==
    ASSUME Inductive, NEW r \in Readers, NEW n \in Limits, ServeCached(r, n)
    PROVE  Inductive'
<1>1. PICK entry \in cache :
         /\ entry.key = CacheKey(Scope[r], reader[r].cursor, NormalizeLimit(n))
         /\ Shown(r, entry.page)
  BY DEF ServeCached
<1>2. /\ entry.key.scope = Scope[r] /\ entry.key.cursor = reader[r].cursor
      /\ entry.page \in Pages /\ RightPage(entry.key, entry.page)
  BY <1>1 DEF CacheKey, Inductive, TypeOK, PagesRight
<1>3. reader[r].pc = "walk" /\ created' = created /\ cache' = cache
  BY DEF ServeCached
<1>4. PICK page \in Pages : page = entry.page
  BY <1>2
<1>5. PICK key : key = entry.key
  OBVIOUS
<1>6. /\ reader' \in [Readers -> ReaderState]
      /\ ShownPassed' /\ PassedShown' /\ NothingTwice' /\ WalkComplete'
  BY <1>1, <1>2, <1>3, <1>4, <1>5, ShownKeeps
<1>7. TypeOK'
  BY <1>3, <1>6 DEF Inductive, TypeOK
<1>8. PagesRight'
  BY <1>3 DEF Inductive, PagesRight, RightPage, Committed, Eligible, KeysetClause, Later
<1> QED BY <1>6, <1>7, <1>8 DEF Inductive

\* A page from the database, stored or not.
LEMMA ServeQueriedKeeps ==
    ASSUME Inductive, NEW r \in Readers, NEW n \in Limits, ServeQueried(r, n)
    PROVE  Inductive'
<1>0. /\ Typed /\ Scope[r] \in Scopes /\ reader[r].cursor \in Cursors \cup {NoCursor}
      /\ reader[r].pc = "walk" /\ created' = created
  BY ListingAssumption DEF Inductive, TypeOK, Typed, ReaderState, ServeQueried
<1>1. PICK limit \in Nat \ {0} : limit = NormalizeLimit(n) /\ limit \in 1 .. MaxLimit + DefaultLimit
  BY LimitNormalized
<1>2. PICK scope \in Scopes : scope = Scope[r]
  BY <1>0
<1>3. PICK c \in Cursors \cup {NoCursor} : c = reader[r].cursor
  BY <1>0
<1>4. PICK page :
         /\ page = BuildPage(ListKeyset(scope, c, limit + 1), limit)
         /\ Shown(r, page)
         /\ \/ UNCHANGED cache
            \/ cache' = cache \cup {[key |-> CacheKey(scope, c, limit), page |-> page]}
  BY <1>1, <1>2, <1>3 DEF ServeQueried
<1>5. PICK key : key = CacheKey(scope, c, limit)
  OBVIOUS
<1>6. key.scope = scope /\ key.cursor = c /\ key \in CacheKeys
  BY <1>1, <1>5 DEF CacheKey, CacheKeys
<1>7. page \in Pages /\ RightPage(key, page)
  BY <1>0, <1>4, <1>6, QueriedPageRight
<1>8. /\ reader' \in [Readers -> ReaderState]
      /\ ShownPassed' /\ PassedShown' /\ NothingTwice' /\ WalkComplete'
  BY <1>0, <1>2, <1>3, <1>4, <1>6, <1>7, ShownKeeps
<1>9. \A entry \in cache' : entry \in cache \/ (entry.key = key /\ entry.page = page)
  BY <1>4, <1>5
<1>10. TypeOK'
  BY <1>0, <1>6, <1>7, <1>8, <1>9 DEF Inductive, TypeOK
<1>11. PagesRight'
  <2>1. \A entry \in cache' : RightPage(entry.key, entry.page)
    BY <1>7, <1>9 DEF Inductive, PagesRight
  <2>2. \A k, p : RightPage(k, p)' <=> RightPage(k, p)
    BY <1>0 DEF RightPage, Committed, Eligible, KeysetClause, Later
  <2> QED BY <2>1, <2>2 DEF PagesRight
<1> QED BY <1>8, <1>10, <1>11 DEF Inductive

\* A page that leaves the cache.
LEMMA DropPageKeeps ==
    ASSUME Inductive, DropPage
    PROVE  Inductive'
<1>1. created' = created /\ reader' = reader /\ cache' \subseteq cache
  BY DEF DropPage
<1> QED BY <1>1 DEF Inductive, TypeOK, PagesRight, RightPage, Committed, Eligible, KeysetClause, Later,
           ShownPassed, PassedShown, NothingTwice, WalkComplete, MayList

\* A job committed with any created_at, before or behind the cursors of the walks
\* and of the stored pages: no page and no walk is about it.
LEMMA CommitJobKeeps ==
    ASSUME Inductive, NEW j \in Jobs, NEW t \in Times, CommitJob(j, t)
    PROVE  Inductive'
<1>1. /\ created \in [Jobs -> Times \cup {NoTime}] /\ created[j] = NoTime
      /\ created' = [created EXCEPT ![j] = t] /\ cache' = cache /\ reader' = reader
  BY DEF CommitJob, Inductive, TypeOK
<1>2. \A k \in Committed : created'[k] = created[k]
  BY <1>1 DEF Committed
<1>3. Committed \subseteq Committed'
  BY <1>1, <1>2 DEF Committed
<1>4. \A c : \A k \in Committed : KeysetClause(c, k)' <=> KeysetClause(c, k)
  BY <1>2 DEF KeysetClause
<1>5. TypeOK'
  BY <1>1 DEF Inductive, TypeOK
<1>6. PagesRight'
  <2> SUFFICES ASSUME NEW entry \in cache PROVE RightPage(entry.key, entry.page)'
    BY <1>1 DEF PagesRight
  <2>1. RightPage(entry.key, entry.page)
    BY DEF Inductive, PagesRight
  <2>2. entry.page.asOf \subseteq Committed
    BY <2>1 DEF RightPage
  <2>3. Eligible(entry.key, entry.page.asOf)' = Eligible(entry.key, entry.page.asOf)
    BY <2>2, <1>4 DEF Eligible
  <2>4. \A k \in Eligible(entry.key, entry.page.asOf) :
           KeysetClause(entry.page.next, k)' <=> KeysetClause(entry.page.next, k)
    BY <2>2, <1>4 DEF Eligible
  <2> QED BY <2>1, <2>2, <2>3, <2>4, <1>3 DEF RightPage, Later
<1>7. ShownPassed'
  BY <1>1, <1>3, <1>4 DEF Inductive, ShownPassed, MayList
<1>8. PassedShown'
  BY <1>1, <1>3, <1>4 DEF Inductive, PassedShown, MayList
<1>9. NothingTwice' /\ WalkComplete'
  BY <1>1 DEF Inductive, NothingTwice, WalkComplete, MayList
<1> QED BY <1>5, <1>6, <1>7, <1>8, <1>9 DEF Inductive

\* A walk that has shown nothing yet.
LEMMA NewWalkFacts ==
    /\ NewWalk \in ReaderState /\ NewWalk.pc = "walk" /\ NewWalk.cursor = NoCursor
    /\ \A k \in Jobs : NewWalk.seen[k] = 0
BY DEF NewWalk, ReaderState

\* A client that begins again at the first page.
LEMMA RestartKeeps ==
    ASSUME Inductive, NEW r \in Readers, Restart(r)
    PROVE  Inductive'
<1>1. /\ reader \in [Readers -> ReaderState] /\ reader' = [reader EXCEPT ![r] = NewWalk]
      /\ created' = created /\ cache' = cache
  BY DEF Restart, Inductive, TypeOK
<1>2. /\ reader' \in [Readers -> ReaderState]
      /\ \A q \in Readers : reader'[q] = NewWalk \/ reader'[q] = reader[q]
  BY <1>1, NewWalkFacts
<1>3. TypeOK'
  BY <1>1, <1>2 DEF Inductive, TypeOK
<1>4. PagesRight'
  BY <1>1 DEF Inductive, PagesRight, RightPage, Committed, Eligible, KeysetClause, Later
<1>5. NothingTwice'
  BY <1>2, NewWalkFacts DEF Inductive, NothingTwice
<1>6. ShownPassed'
  BY <1>1, <1>2, NewWalkFacts DEF Inductive, ShownPassed, Committed, KeysetClause, MayList
<1>7. PassedShown'
  BY <1>1, <1>2, NewWalkFacts DEF Inductive, PassedShown, Committed, KeysetClause, MayList
<1>8. WalkComplete'
  BY <1>1, <1>2, NewWalkFacts DEF Inductive, WalkComplete, MayList
<1> QED BY <1>3, <1>4, <1>5, <1>6, <1>7, <1>8 DEF Inductive

\* No job, no page, and every client at the beginning of its list.
LEMMA ListingInit == Init => Inductive
BY NewWalkFacts DEF Init, Inductive, TypeOK, PagesRight, ShownPassed, PassedShown, NothingTwice,
                    WalkComplete

\* The inductive invariant of the listing.
LEMMA ListingInvariant == Spec => []Inductive
<1>1. Inductive /\ [Next]_vars => Inductive'
  <2> SUFFICES ASSUME Inductive, [Next]_vars PROVE Inductive'
    OBVIOUS
  <2>1. CASE UNCHANGED vars
    BY <2>1 DEF vars, Inductive, TypeOK, PagesRight, RightPage, Committed, Eligible, KeysetClause, Later,
                ShownPassed, PassedShown, NothingTwice, WalkComplete, MayList
  <2> QED BY <2>1, ServeCachedKeeps, ServeQueriedKeeps, DropPageKeeps, CommitJobKeeps, RestartKeeps
          DEF Next, Serve
<1> QED BY <1>1, ListingInit, PTL DEF Spec

\* Every variable of the listing keeps its type: every cursor given out is one the
\* service can decode.
THEOREM ListingTypeCorrect == Spec => []TypeOK
BY ListingInvariant, PTL DEF Inductive

\* Following next_cursor to the end shows every job of the list that was there when
\* each page was read, for any limits, any ties in created_at and any stored pages.
THEOREM WalksAreComplete == Spec => []WalkComplete
BY ListingInvariant, PTL DEF Inductive

\* No walk shows a job twice, whatever is committed during it.
THEOREM NothingRepeated == Spec => []NothingTwice
BY ListingInvariant, PTL DEF Inductive

\* A client is only shown jobs of its own list, although all lists share the cache.
THEOREM ListsArePrivate == Spec => []OwnJobsOnly
<1>1. Inductive => OwnJobsOnly
  BY DEF Inductive, ShownPassed, OwnJobsOnly
<1> QED BY <1>1, ListingInvariant, PTL
=============================================================================
