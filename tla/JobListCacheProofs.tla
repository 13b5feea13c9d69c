--------------------------- MODULE JobListCacheProofs ---------------------------
(***************************************************************************)
(* Proofs about JobListCache, for any number of users, readers, writers    *)
(* and failed Redis calls.                                                 *)
(***************************************************************************)
EXTENDS JobListCache, FiniteSetTheorems, TLAPS

\* The scopes, versions and numbers a step reads.
LEMMA Facts ==
    ASSUME TypeOK
    PROVE  /\ Cardinality(Writers) \in Nat
           /\ Versions \subseteq Nat
           /\ \A r \in Readers : /\ Scope[r] \in Scopes
                                 /\ reader[r] \in ReaderState
                                 /\ reader[r].ver \in Versions /\ reader[r].floor \in Nat
                                 /\ reader[r].value \in Nat \cup {NoPage}
           /\ \A c \in Scopes : /\ db[c] \in Nat /\ announced[c] \in Nat
                                /\ version[c] \in Versions /\ version[c] \in Nat
                                /\ excused[c] \subseteq Versions
                                /\ \A v \in Versions : page[c][v] \in Nat \cup {NoPage}
           /\ \A w \in Writers : /\ Owner[w] \in Scopes /\ Admin \in Scopes
                                 /\ writer[w] \in WriterState
                                 /\ writer[w].left \in 0 .. 2
                                 /\ writer[w].value \in [Scopes -> Nat]
           /\ NoPage \notin Nat
<1>1. Cardinality(Writers) \in Nat
  BY CacheAssumption, FS_CardinalityType
<1>2. Versions \subseteq Nat
  BY <1>1 DEF Versions
<1>3. \A r \in Readers : /\ Scope[r] \in Scopes
                         /\ reader[r] \in ReaderState
                         /\ reader[r].ver \in Versions /\ reader[r].floor \in Nat
                         /\ reader[r].value \in Nat \cup {NoPage}
  BY CacheAssumption DEF TypeOK, ReaderState
<1>4. \A w \in Writers : /\ Owner[w] \in Scopes /\ Admin \in Scopes
                         /\ writer[w] \in WriterState
                         /\ writer[w].left \in 0 .. 2
                         /\ writer[w].value \in [Scopes -> Nat]
  BY CacheAssumption DEF TypeOK, WriterState, Scopes
<1>5. \A c \in Scopes : /\ db[c] \in Nat /\ announced[c] \in Nat
                        /\ version[c] \in Versions /\ version[c] \in Nat
                        /\ excused[c] \subseteq Versions
                        /\ \A v \in Versions : page[c][v] \in Nat \cup {NoPage}
  BY <1>2 DEF TypeOK
<1> QED BY <1>1, <1>2, <1>3, <1>4, <1>5, CacheAssumption

\* A list request that reads: it may begin, find a page, miss, query or end.
LEMMA ReaderMoves ==
    ASSUME Inductive, NEW r \in Readers, NEW new \in ReaderState,
           reader' = [reader EXCEPT ![r] = new],
           UNCHANGED <<db, version, page, writer, announced, excused>>,
           faults' \in Nat,
           new.pc = "done" => new.value \in Nat /\ (new.value >= new.floor \/ new.ver \in excused[Scope[r]]),
           new.floor <= announced[Scope[r]],
           new.pc = "storeversion" => new.value \in Nat /\ new.value >= new.floor,
           new.pc # "store",
           new.pc = "get" => new.ver = version[Scope[r]] /\ new.floor = announced[Scope[r]]
    PROVE  Inductive'
<1>0. TypeOK /\ Scope[r] \in Scopes
  BY Facts DEF Inductive
<1>1. /\ reader'[r] = new /\ (\A q \in Readers : q # r => reader'[q] = reader[q])
      /\ reader' \in [Readers -> ReaderState]
  BY <1>0 DEF TypeOK
<1>2. TypeOK'
  BY <1>0, <1>1 DEF TypeOK
<1>3. VersionsLeft' /\ AnnouncedCommitted'
  BY DEF Inductive, VersionsLeft, AnnouncedCommitted, Left
<1>4. QueriedFresh'
  BY <1>1 DEF Inductive, QueriedFresh
<1>5. ASSUME NEW c \in Scopes, NEW q \in Between(c)'
      PROVE  /\ q = r => new.pc = "get" /\ c = Scope[r]
             /\ q # r => q \in Between(c) /\ reader'[q] = reader[q]
             /\ q \in Readers /\ Scope[q] = c
  BY <1>1 DEF Between
<1>6. VisibleFresh'
  <2> SUFFICES ASSUME NEW c \in Scopes, NEW v \in Versions, v \notin excused[c]
               PROVE  /\ v = version[c] /\ page[c][v] # NoPage => page[c][v] >= announced[c]
                      /\ v > version[c] => page[c][v] = NoPage
                      /\ \A q \in Between(c)' : reader'[q].ver = v =>
                            /\ v <= version[c]
                            /\ (reader'[q].pc = "store" /\ v = version[c]) => reader'[q].value >= announced[c]
    BY DEF VisibleFresh
  <2>1. ASSUME NEW q \in Between(c)', reader'[q].ver = v
        PROVE  /\ v <= version[c]
               /\ (reader'[q].pc = "store" /\ v = version[c]) => reader'[q].value >= announced[c]
    <3>1. CASE q = r
      BY <1>0, <1>1, <1>5, <2>1, <3>1, Facts
    <3>2. CASE q # r
      BY <1>5, <2>1, <3>2 DEF Inductive, VisibleFresh
    <3> QED BY <3>1, <3>2
  <2> QED BY <2>1 DEF Inductive, VisibleFresh
<1>7. LateReadsFresh'
  <2> SUFFICES ASSUME NEW p \in Readers, reader'[p].pc = "get",
                      reader'[p].ver \notin excused[Scope[p]]
               PROVE  /\ page[Scope[p]][reader'[p].ver] # NoPage
                         => page[Scope[p]][reader'[p].ver] >= reader'[p].floor
                      /\ \A q \in Between(Scope[p])' :
                            (reader'[q].pc = "store" /\ reader'[q].ver = reader'[p].ver)
                            => reader'[q].value >= reader'[p].floor
    BY DEF LateReadsFresh
  <2>0. Scope[p] \in Scopes
    BY <1>0, Facts
  <2>1. CASE p = r
    <3>1. reader'[p].ver = version[Scope[p]] /\ reader'[p].floor = announced[Scope[p]]
      BY <1>1, <2>1
    <3>2. ASSUME NEW q \in Between(Scope[p])', reader'[q].pc = "store"
          PROVE  q \in Between(Scope[p]) /\ reader'[q] = reader[q]
      BY <1>1, <1>5, <2>0, <3>2
    <3>3. version[Scope[p]] \in Versions
      BY <1>0, <2>0, Facts
    <3> QED BY <2>0, <3>1, <3>2, <3>3 DEF Inductive, VisibleFresh
  <2>2. CASE p # r
    <3>1. reader'[p] = reader[p]
      BY <1>1, <2>2
    <3>2. ASSUME NEW q \in Between(Scope[p])', reader'[q].pc = "store"
          PROVE  q \in Between(Scope[p]) /\ reader'[q] = reader[q]
      BY <1>1, <1>5, <2>0, <3>2
    <3> QED BY <3>1, <3>2 DEF Inductive, LateReadsFresh
  <2> QED BY <2>1, <2>2
<1>8. ServedFresh'
  BY <1>1 DEF Inductive, ServedFresh
<1> QED BY <1>2, <1>3, <1>4, <1>6, <1>7, <1>8 DEF Inductive

\* set_page reads the version: the page is fresh under it, or the late store is
\* the excuse.
LEMMA StoreVersionKeeps ==
    ASSUME Inductive, NEW r \in Readers, StoreVersion(r)
    PROVE  Inductive'
<1> DEFINE c == Scope[r]
<1>0. /\ TypeOK /\ c \in Scopes /\ reader[r].pc = "storeversion"
      /\ reader[r].value \in Nat /\ reader[r].value >= reader[r].floor
      /\ UNCHANGED <<db, version, page, writer, announced, faults>>
  BY Facts DEF Inductive, StoreVersion, QueriedFresh
<1>1. /\ reader'[r].pc = "store" /\ reader'[r].ver = version[c]
      /\ reader'[r].value = reader[r].value /\ reader'[r].floor = reader[r].floor
      /\ (\A q \in Readers : q # r => reader'[q] = reader[q])
      /\ reader' \in [Readers -> ReaderState]
  <2>1. PICK new : new = [reader[r] EXCEPT !.pc = "store", !.ver = version[c]]
    OBVIOUS
  <2>2. /\ new \in ReaderState /\ new.pc = "store" /\ new.ver = version[c]
        /\ new.value = reader[r].value /\ new.floor = reader[r].floor
    BY <1>0, <2>1, Facts DEF ReaderState
  <2>3. reader' = [reader EXCEPT ![r] = new]
    BY <1>0, <2>1 DEF StoreVersion, TypeOK, ReaderState
  <2> QED BY <1>0, <2>2, <2>3 DEF TypeOK
<1>2. /\ excused' \in [Scopes -> SUBSET Versions]
      /\ \A d \in Scopes : excused[d] \subseteq excused'[d]
      /\ version[c] \notin excused'[c] => ~(reader[r].value < announced[c])
  <2>1. PICK e : e = (IF reader[r].value < announced[c]
                      THEN excused[c] \cup {version[c]} ELSE excused[c])
    OBVIOUS
  <2>2. excused' = [excused EXCEPT ![c] = e]
    BY <2>1 DEF StoreVersion
  <2>3. excused \in [Scopes -> SUBSET Versions] /\ version[c] \in Versions
    BY <1>0 DEF TypeOK
  <2>4. e \in SUBSET Versions /\ excused[c] \subseteq e
    BY <1>0, <2>1, <2>3
  <2>5. excused'[c] = e /\ \A d \in Scopes : d # c => excused'[d] = excused[d]
    BY <1>0, <2>2, <2>3
  <2>6. excused' \in [Scopes -> SUBSET Versions]
    BY <2>2, <2>3, <2>4
  <2> QED BY <2>1, <2>4, <2>5, <2>6
<1>3. version[c] \notin excused'[c] => reader'[r].value >= announced[c]
  BY <1>0, <1>1, <1>2, Facts
<1>4. TypeOK'
  BY <1>0, <1>1, <1>2 DEF TypeOK
<1>5. VersionsLeft' /\ AnnouncedCommitted'
  BY <1>0 DEF Inductive, VersionsLeft, AnnouncedCommitted, Left
<1>6. QueriedFresh'
  BY <1>0, <1>1 DEF Inductive, QueriedFresh
<1>7. ASSUME NEW d \in Scopes, NEW q \in Between(d)'
      PROVE  /\ q \in Readers /\ Scope[q] = d
             /\ q # r => q \in Between(d) /\ reader'[q] = reader[q]
  BY <1>1 DEF Between
<1>8. VisibleFresh'
  <2> SUFFICES ASSUME NEW d \in Scopes, NEW v \in Versions, v \notin excused'[d]
               PROVE  /\ v = version[d] /\ page[d][v] # NoPage => page[d][v] >= announced[d]
                      /\ v > version[d] => page[d][v] = NoPage
                      /\ \A q \in Between(d)' : reader'[q].ver = v =>
                            /\ v <= version[d]
                            /\ (reader'[q].pc = "store" /\ v = version[d]) => reader'[q].value >= announced[d]
    BY <1>0 DEF VisibleFresh
  <2>1. ASSUME NEW q \in Between(d)', reader'[q].ver = v
        PROVE  /\ v <= version[d]
               /\ (reader'[q].pc = "store" /\ v = version[d]) => reader'[q].value >= announced[d]
    <3>1. CASE q = r
      BY <1>0, <1>1, <1>3, <1>7, <2>1, <3>1, Facts
    <3>2. CASE q # r
      BY <1>2, <1>7, <2>1, <3>2 DEF Inductive, VisibleFresh
    <3> QED BY <3>1, <3>2
  <2> QED BY <1>2, <2>1 DEF Inductive, VisibleFresh
<1>9. LateReadsFresh'
  <2> SUFFICES ASSUME NEW p \in Readers, reader'[p].pc = "get",
                      reader'[p].ver \notin excused'[Scope[p]]
               PROVE  /\ page[Scope[p]][reader'[p].ver] # NoPage
                         => page[Scope[p]][reader'[p].ver] >= reader'[p].floor
                      /\ \A q \in Between(Scope[p])' :
                            (reader'[q].pc = "store" /\ reader'[q].ver = reader'[p].ver)
                            => reader'[q].value >= reader'[p].floor
    BY <1>0 DEF LateReadsFresh
  <2>0. /\ Scope[p] \in Scopes /\ p # r /\ reader'[p] = reader[p]
        /\ reader[p].ver \notin excused[Scope[p]]
    BY <1>0, <1>1, <1>2, Facts
  <2>1. ASSUME NEW q \in Between(Scope[p])', reader'[q].pc = "store", reader'[q].ver = reader'[p].ver
        PROVE  reader'[q].value >= reader'[p].floor
    <3>1. CASE q = r
      <4>1. Scope[p] = c
        BY <1>7, <2>0, <3>1
      <4>2. reader[p].floor <= announced[c]
        BY <4>1 DEF Inductive, QueriedFresh
      <4>3. reader'[q].value >= announced[c]
        BY <1>1, <1>3, <2>0, <2>1, <3>1, <4>1
      <4>4. reader[p].floor \in Nat /\ announced[c] \in Nat /\ reader'[q].value \in Nat
        BY <1>0, <1>1, <3>1, Facts
      <4> QED BY <2>0, <4>2, <4>3, <4>4
    <3>2. CASE q # r
      <4>1. q \in Between(Scope[p]) /\ reader'[q] = reader[q]
        BY <1>7, <2>0, <3>2
      <4> QED BY <2>0, <2>1, <4>1 DEF Inductive, LateReadsFresh
    <3> QED BY <3>1, <3>2
  <2> QED BY <2>0, <2>1 DEF Inductive, LateReadsFresh
<1>10. ServedFresh'
  <2> SUFFICES ASSUME NEW p \in Readers, reader'[p].pc = "done"
               PROVE  reader'[p].value >= reader'[p].floor \/ reader'[p].ver \in excused'[Scope[p]]
    BY DEF ServedFresh
  <2>1. p # r /\ reader'[p] = reader[p] /\ Scope[p] \in Scopes
    BY <1>0, <1>1, Facts
  <2> QED BY <1>2, <2>1 DEF Inductive, ServedFresh
<1> QED BY <1>4, <1>5, <1>6, <1>8, <1>9, <1>10 DEF Inductive

\* The page is stored under the version set_page has read, current or not.
LEMMA StorePageKeeps ==
    ASSUME Inductive, NEW r \in Readers, StorePage(r)
    PROVE  Inductive'
<1> DEFINE c == Scope[r]
           x == reader[r].ver
<1>0. /\ TypeOK /\ c \in Scopes /\ x \in Versions /\ reader[r].pc = "store" /\ r \in Between(c)
      /\ reader[r].value \in Nat /\ reader[r].value >= reader[r].floor
      /\ UNCHANGED <<db, version, writer, announced, excused, faults>>
  BY Facts DEF Inductive, StorePage, QueriedFresh, Between
<1>1. /\ reader'[r].pc = "done" /\ reader'[r].value = reader[r].value
      /\ reader'[r].floor = reader[r].floor
      /\ (\A q \in Readers : q # r => reader'[q] = reader[q])
      /\ reader' \in [Readers -> ReaderState]
  <2>1. PICK new : new = [reader[r] EXCEPT !.pc = "done"]
    OBVIOUS
  <2>2. /\ new \in ReaderState /\ new.pc = "done"
        /\ new.value = reader[r].value /\ new.floor = reader[r].floor
    BY <1>0, <2>1, Facts DEF ReaderState
  <2>3. reader' = [reader EXCEPT ![r] = new]
    BY <1>0, <2>1 DEF StorePage, TypeOK
  <2> QED BY <1>0, <2>2, <2>3 DEF TypeOK
<1>2. /\ page'[c][x] = reader[r].value
      /\ \A d \in Scopes : \A v \in Versions : d # c \/ v # x => page'[d][v] = page[d][v]
      /\ page' \in [Scopes -> [Versions -> Nat \cup {NoPage}]]
  <2>1. page' = [page EXCEPT ![c][x] = reader[r].value]
    BY DEF StorePage
  <2>2. page \in [Scopes -> [Versions -> Nat \cup {NoPage}]]
    BY <1>0 DEF TypeOK
  <2> HIDE DEF c, x
  <2> QED BY <1>0, <2>1, <2>2
<1>3. TypeOK'
  BY <1>0, <1>1, <1>2 DEF TypeOK
<1>4. VersionsLeft' /\ AnnouncedCommitted'
  BY <1>0 DEF Inductive, VersionsLeft, AnnouncedCommitted, Left
<1>5. QueriedFresh'
  BY <1>0, <1>1 DEF Inductive, QueriedFresh
<1>6. ASSUME NEW d \in Scopes, NEW q \in Between(d)'
      PROVE  q \in Readers /\ Scope[q] = d /\ q # r /\ q \in Between(d) /\ reader'[q] = reader[q]
  BY <1>1 DEF Between
<1>7. VisibleFresh'
  <2> SUFFICES ASSUME NEW d \in Scopes, NEW v \in Versions, v \notin excused[d]
               PROVE  /\ v = version[d] /\ page'[d][v] # NoPage => page'[d][v] >= announced[d]
                      /\ v > version[d] => page'[d][v] = NoPage
                      /\ \A q \in Between(d)' : reader'[q].ver = v =>
                            /\ v <= version[d]
                            /\ (reader'[q].pc = "store" /\ v = version[d]) => reader'[q].value >= announced[d]
    BY <1>0 DEF VisibleFresh
  <2>0. version[d] \in Nat /\ v \in Nat
    BY <1>0, Facts
  <2>1. d = c /\ v = x => x <= version[c] /\ (x = version[c] => reader[r].value >= announced[c])
    BY <1>0 DEF Inductive, VisibleFresh
  <2>2. v = version[d] /\ page'[d][v] # NoPage => page'[d][v] >= announced[d]
    BY <1>2, <2>0, <2>1 DEF Inductive, VisibleFresh
  <2>3. v > version[d] => page'[d][v] = NoPage
    BY <1>2, <2>0, <2>1 DEF Inductive, VisibleFresh
  <2>4. \A q \in Between(d)' : reader'[q].ver = v =>
           /\ v <= version[d]
           /\ (reader'[q].pc = "store" /\ v = version[d]) => reader'[q].value >= announced[d]
    BY <1>6 DEF Inductive, VisibleFresh
  <2> QED BY <2>2, <2>3, <2>4
<1>8. LateReadsFresh'
  <2> SUFFICES ASSUME NEW p \in Readers, reader'[p].pc = "get",
                      reader'[p].ver \notin excused[Scope[p]]
               PROVE  /\ page'[Scope[p]][reader'[p].ver] # NoPage
                         => page'[Scope[p]][reader'[p].ver] >= reader'[p].floor
                      /\ \A q \in Between(Scope[p])' :
                            (reader'[q].pc = "store" /\ reader'[q].ver = reader'[p].ver)
                            => reader'[q].value >= reader'[p].floor
    BY <1>0 DEF LateReadsFresh
  <2>0. Scope[p] \in Scopes /\ p # r /\ reader'[p] = reader[p] /\ reader[p].ver \in Versions
    BY <1>0, <1>1, Facts
  <2>1. CASE Scope[p] = c /\ reader[p].ver = x
    <3>1. reader[r].value >= reader[p].floor
      BY <1>0, <2>0, <2>1 DEF Inductive, LateReadsFresh
    <3> QED BY <1>2, <1>6, <2>0, <2>1, <3>1 DEF Inductive, LateReadsFresh
  <2>2. CASE ~(Scope[p] = c /\ reader[p].ver = x)
    <3>1. page'[Scope[p]][reader[p].ver] = page[Scope[p]][reader[p].ver]
      BY <1>2, <2>0, <2>2
    <3> QED BY <1>6, <2>0, <3>1 DEF Inductive, LateReadsFresh
  <2> QED BY <2>1, <2>2
<1>9. ServedFresh'
  BY <1>0, <1>1 DEF Inductive, ServedFresh
<1> QED BY <1>3, <1>4, <1>5, <1>7, <1>8, <1>9 DEF Inductive

\* What raising the scopes of a writer does to a function of the scopes.
LEMMA BumpEffect ==
    ASSUME NEW f \in [Scopes -> Nat], NEW w \in Writers
    PROVE  /\ Bump(f, w) \in [Scopes -> Nat]
           /\ \A c \in Scopes : /\ Bump(f, w)[c] = (IF c \in Affected(w) THEN f[c] + 1 ELSE f[c])
                                /\ Bump(f, w)[c] \in {f[c], f[c] + 1}
                                /\ Bump(f, w)[c] >= f[c]
BY DEF Bump

\* A commit changes the jobs; nothing is announced yet.
LEMMA CommitKeeps ==
    ASSUME Inductive, NEW w \in Writers, Commit(w)
    PROVE  Inductive'
<1>0. TypeOK /\ UNCHANGED <<version, page, reader, announced, excused, faults>>
  BY DEF Inductive, Commit
<1>1. db' \in [Scopes -> Nat] /\ \A c \in Scopes : db'[c] >= db[c] /\ db[c] \in Nat /\ db'[c] \in Nat
  BY <1>0, BumpEffect DEF Commit, TypeOK
<1>2. /\ writer'[w].left = writer[w].left /\ writer'[w].value = db'
      /\ (\A u \in Writers : u # w => writer'[u] = writer[u])
      /\ writer' \in [Writers -> WriterState]
  <2>1. PICK new : new = [writer[w] EXCEPT !.pc = "invalidate", !.value = db']
    OBVIOUS
  <2>2. new \in WriterState /\ new.left = writer[w].left /\ new.value = db'
    BY <1>0, <1>1, <2>1, Facts DEF WriterState
  <2>3. writer' = [writer EXCEPT ![w] = new]
    BY <1>0, <2>1 DEF Commit, TypeOK, WriterState
  <2> QED BY <1>0, <2>2, <2>3 DEF TypeOK
<1>3. TypeOK'
  BY <1>0, <1>1, <1>2 DEF TypeOK
<1>4. VersionsLeft'
  <2>1. \A n : Left(n)' = Left(n)
    BY <1>2 DEF Left
  <2> QED BY <1>0, <2>1 DEF Inductive, VersionsLeft
<1>5. AnnouncedCommitted'
  <2> SUFFICES ASSUME NEW c \in Scopes
               PROVE  announced[c] <= db'[c] /\ \A u \in Writers : writer'[u].value[c] <= db'[c]
    BY <1>0 DEF AnnouncedCommitted
  <2>1. announced[c] \in Nat /\ announced[c] <= db[c]
    BY <1>0, Facts DEF Inductive, AnnouncedCommitted
  <2>2. ASSUME NEW u \in Writers PROVE writer'[u].value[c] <= db'[c]
    <3>1. CASE u = w
      BY <1>1, <1>2, <3>1
    <3>2. CASE u # w
      <4>1. writer[u].value[c] \in Nat /\ writer[u].value[c] <= db[c]
        BY <1>0, Facts DEF Inductive, AnnouncedCommitted
      <4> QED BY <1>1, <1>2, <3>2, <4>1
    <3> QED BY <3>1, <3>2
  <2> QED BY <1>1, <2>1, <2>2
<1>6. QueriedFresh' /\ VisibleFresh' /\ LateReadsFresh' /\ ServedFresh'
  BY <1>0 DEF Inductive, QueriedFresh, VisibleFresh, LateReadsFresh, ServedFresh, Between
<1> QED BY <1>3, <1>4, <1>5, <1>6 DEF Inductive

\* Every invalidation, done or failed, uses one of the writer's calls up.
LEMMA LeftLess ==
    ASSUME TypeOK, NEW w \in Writers, writer[w].left > 0,
           NEW n, n = writer[w].left - 1 \/ n = 0,
           writer' = [writer EXCEPT ![w].left = n]
    PROVE  /\ writer' \in [Writers -> WriterState]
           /\ \A u \in Writers : writer'[u].value = writer[u].value
           /\ Cardinality(Left(1)) \in Nat /\ Cardinality(Left(2)) \in Nat
           /\ Cardinality(Left(1)') \in Nat /\ Cardinality(Left(2)') \in Nat
           /\ Cardinality(Left(1)') + Cardinality(Left(2)') + 1
              <= Cardinality(Left(1)) + Cardinality(Left(2))
<1>0. writer[w] \in WriterState /\ writer[w].left \in 1 .. 2 /\ n \in 0 .. 1 /\ n < writer[w].left
  BY Facts
<1>1. /\ writer'[w].left = n /\ writer'[w].value = writer[w].value
      /\ (\A u \in Writers : u # w => writer'[u] = writer[u])
      /\ writer' \in [Writers -> WriterState]
  <2>1. PICK new : new = [writer[w] EXCEPT !.left = n]
    OBVIOUS
  <2>2. new \in WriterState /\ new.left = n /\ new.value = writer[w].value
    BY <1>0, <2>1 DEF WriterState
  <2>3. writer' = [writer EXCEPT ![w] = new]
    BY <2>1 DEF TypeOK
  <2> QED BY <2>2, <2>3 DEF TypeOK
<1>2. ASSUME NEW m \in {1, 2}
      PROVE  /\ IsFiniteSet(Left(m)) /\ Cardinality(Left(m)) \in Nat
             /\ Left(m)' \subseteq Left(m)
             /\ Cardinality(Left(m)') \in Nat /\ Cardinality(Left(m)') <= Cardinality(Left(m))
  <2>1. Left(m) \subseteq Writers
    BY DEF Left
  <2>2. IsFiniteSet(Left(m)) /\ Cardinality(Left(m)) \in Nat
    BY <2>1, CacheAssumption, FS_Subset, FS_CardinalityType
  <2>3. Left(m)' \subseteq Left(m)
    BY <1>0, <1>1 DEF Left
  <2> QED BY <2>2, <2>3, FS_Subset, FS_CardinalityType
<1>3. ASSUME NEW m \in {1, 2}, m = writer[w].left
      PROVE  Cardinality(Left(m)') <= Cardinality(Left(m)) - 1
  <2>1. w \in Left(m) /\ Left(m)' \subseteq Left(m) \ {w}
    BY <1>0, <1>1, <1>3 DEF Left
  <2>2. Cardinality(Left(m) \ {w}) = Cardinality(Left(m)) - 1 /\ IsFiniteSet(Left(m) \ {w})
    BY <1>2, <2>1, FS_RemoveElement
  <2>3. Cardinality(Left(m)') <= Cardinality(Left(m) \ {w})
    BY <2>1, <2>2, FS_Subset
  <2> QED BY <2>2, <2>3
<1>4. Cardinality(Left(1)') + Cardinality(Left(2)') + 1 <= Cardinality(Left(1)) + Cardinality(Left(2))
  <2>1. CASE writer[w].left = 1
    BY <1>2, <1>3, <2>1
  <2>2. CASE writer[w].left = 2
    BY <1>2, <1>3, <2>2
  <2> QED BY <1>0, <2>1, <2>2
<1> QED BY <1>1, <1>2, <1>4

\* invalidate_owner: the pages of the old version are out of sight before the
\* change is announced, and the new version has none.
LEMMA InvalidateKeeps ==
    ASSUME Inductive, NEW w \in Writers, Invalidate(w)
    PROVE  Inductive'
<1>0. /\ TypeOK /\ writer[w].left > 0 /\ writer[w].left \in 0 .. 2
      /\ UNCHANGED <<db, page, reader, excused, faults>>
      /\ version' = Bump(version, w) /\ version \in [Scopes -> Nat]
      /\ writer' = [writer EXCEPT ![w].left = writer[w].left - 1]
  <2>1. version \in [Scopes -> Versions] /\ Versions \subseteq Nat
    BY Facts DEF Inductive, TypeOK
  <2>2. version \in [Scopes -> Nat]
    BY <2>1
  <2> QED BY <2>2, Facts DEF Inductive, Invalidate
<1>1. /\ writer' \in [Writers -> WriterState]
      /\ \A u \in Writers : writer'[u].value = writer[u].value
      /\ Cardinality(Left(1)) \in Nat /\ Cardinality(Left(2)) \in Nat
      /\ Cardinality(Left(1)') \in Nat /\ Cardinality(Left(2)') \in Nat
      /\ Cardinality(Left(1)') + Cardinality(Left(2)') + 1
         <= Cardinality(Left(1)) + Cardinality(Left(2))
  BY <1>0, LeftLess
<1>2. ASSUME NEW c \in Scopes
      PROVE  /\ version'[c] = (IF c \in Affected(w) THEN version[c] + 1 ELSE version[c])
             /\ version'[c] \in Nat /\ version[c] \in Nat
             /\ version'[c] + Cardinality(Left(1)') + Cardinality(Left(2)') <= 2 * Cardinality(Writers)
             /\ version'[c] \in Versions
  <2>1. /\ version'[c] = (IF c \in Affected(w) THEN version[c] + 1 ELSE version[c])
        /\ version[c] \in Nat
    BY <1>0, BumpEffect
  <2>2. version'[c] \in Nat /\ version'[c] <= version[c] + 1
    BY <2>1
  <2>3. version[c] + Cardinality(Left(1)) + Cardinality(Left(2)) <= 2 * Cardinality(Writers)
    BY DEF Inductive, VersionsLeft
  <2>4. Cardinality(Writers) \in Nat
    BY <1>0, Facts
  <2>5. version'[c] + Cardinality(Left(1)') + Cardinality(Left(2)') <= 2 * Cardinality(Writers)
    BY <1>1, <2>1, <2>2, <2>3, <2>4
  <2>6. version'[c] <= 2 * Cardinality(Writers)
    BY <1>1, <2>2, <2>4, <2>5
  <2> QED BY <2>1, <2>2, <2>4, <2>5, <2>6 DEF Versions
<1>3. ASSUME NEW c \in Scopes
      PROVE  /\ announced'[c] = (IF c \in Affected(w) /\ writer[w].value[c] > announced[c]
                                 THEN writer[w].value[c] ELSE announced[c])
             /\ announced'[c] \in Nat /\ announced'[c] >= announced[c] /\ announced'[c] <= db[c]
             /\ c \notin Affected(w) => announced'[c] = announced[c]
  <2>1. announced'[c] = (IF c \in Affected(w) /\ writer[w].value[c] > announced[c]
                         THEN writer[w].value[c] ELSE announced[c])
    BY DEF Invalidate
  <2>2. /\ announced[c] \in Nat /\ writer[w].value[c] \in Nat /\ db[c] \in Nat
        /\ announced[c] <= db[c] /\ writer[w].value[c] <= db[c]
    BY <1>0, Facts DEF Inductive, AnnouncedCommitted
  <2> QED BY <2>1, <2>2
<1>4. TypeOK'
  <2>1. version' \in [Scopes -> Versions]
    BY <1>0, <1>2 DEF Bump
  <2>2. announced' \in [Scopes -> Nat]
    BY <1>3 DEF Invalidate
  <2> QED BY <1>0, <1>1, <2>1, <2>2 DEF TypeOK
<1>5. VersionsLeft'
  BY <1>2 DEF VersionsLeft
<1>6. AnnouncedCommitted'
  BY <1>0, <1>1, <1>3 DEF Inductive, AnnouncedCommitted
<1>7. QueriedFresh'
  <2> SUFFICES ASSUME NEW r \in Readers PROVE reader[r].floor <= announced'[Scope[r]]
    BY <1>0 DEF Inductive, QueriedFresh
  <2>1. Scope[r] \in Scopes /\ reader[r].floor \in Nat /\ announced[Scope[r]] \in Nat
    BY <1>0, Facts
  <2>2. reader[r].floor <= announced[Scope[r]]
    BY DEF Inductive, QueriedFresh
  <2> QED BY <1>3, <2>1, <2>2
<1>8. VisibleFresh'
  <2> SUFFICES ASSUME NEW c \in Scopes, NEW v \in Versions, v \notin excused[c]
               PROVE  /\ v = version'[c] /\ page[c][v] # NoPage => page[c][v] >= announced'[c]
                      /\ v > version'[c] => page[c][v] = NoPage
                      /\ \A q \in Between(c) : reader[q].ver = v =>
                            /\ v <= version'[c]
                            /\ (reader[q].pc = "store" /\ v = version'[c]) => reader[q].value >= announced'[c]
    BY <1>0 DEF VisibleFresh, Between
  <2>0. /\ v > version[c] => page[c][v] = NoPage
        /\ \A q \in Between(c) : reader[q].ver = v => v <= version[c]
        /\ v \in Nat
    BY <1>0, Facts DEF Inductive, VisibleFresh
  <2>1. CASE c \in Affected(w)
    <3>1. version'[c] = version[c] + 1 /\ version[c] \in Nat
      BY <1>2, <2>1
    <3>2. v >= version'[c] => page[c][v] = NoPage
      BY <2>0, <3>1
    <3>3. \A q \in Between(c) : reader[q].ver = v => v <= version'[c] /\ v # version'[c]
      BY <2>0, <3>1
    <3>4. v = version'[c] \/ v > version'[c] => v >= version'[c]
      BY <2>0, <3>1
    <3> QED BY <3>2, <3>3, <3>4
  <2>2. CASE c \notin Affected(w)
    <3>1. version'[c] = version[c] /\ announced'[c] = announced[c]
      BY <1>2, <1>3, <2>2
    <3> QED BY <3>1 DEF Inductive, VisibleFresh
  <2> QED BY <2>1, <2>2
<1>9. LateReadsFresh' /\ ServedFresh'
  BY <1>0 DEF Inductive, LateReadsFresh, ServedFresh, Between
<1> QED BY <1>4, <1>5, <1>6, <1>7, <1>8, <1>9 DEF Inductive

\* An invalidation that fails, or a process that dies before it.
LEMMA InvalidateFailsKeeps ==
    ASSUME Inductive, NEW w \in Writers, InvalidateFails(w)
    PROVE  Inductive'
<1>0. /\ TypeOK /\ writer[w].left > 0 /\ faults' \in Nat
      /\ UNCHANGED <<db, version, page, reader, announced, excused>>
  BY DEF Inductive, InvalidateFails, Fault, TypeOK
<1>1. PICK n \in {0, writer[w].left - 1} : writer' = [writer EXCEPT ![w].left = n]
  BY DEF InvalidateFails
<1>2. /\ writer' \in [Writers -> WriterState]
      /\ \A u \in Writers : writer'[u].value = writer[u].value
      /\ Cardinality(Left(1)) \in Nat /\ Cardinality(Left(2)) \in Nat
      /\ Cardinality(Left(1)') \in Nat /\ Cardinality(Left(2)') \in Nat
      /\ Cardinality(Left(1)') + Cardinality(Left(2)') + 1
         <= Cardinality(Left(1)) + Cardinality(Left(2))
  BY <1>0, <1>1, LeftLess
<1>3. TypeOK'
  BY <1>0, <1>2 DEF TypeOK
<1>4. VersionsLeft'
  <2> SUFFICES ASSUME NEW c \in Scopes
               PROVE  version[c] + Cardinality(Left(1)') + Cardinality(Left(2)') <= 2 * Cardinality(Writers)
    BY <1>0 DEF VersionsLeft
  <2>1. version[c] + Cardinality(Left(1)) + Cardinality(Left(2)) <= 2 * Cardinality(Writers)
    BY DEF Inductive, VersionsLeft
  <2>2. version[c] \in Nat /\ Cardinality(Writers) \in Nat
    BY <1>0, Facts
  <2> QED BY <1>2, <2>1, <2>2
<1>5. AnnouncedCommitted'
  BY <1>0, <1>2 DEF Inductive, AnnouncedCommitted
<1>6. QueriedFresh' /\ VisibleFresh' /\ LateReadsFresh' /\ ServedFresh'
  BY <1>0 DEF Inductive, QueriedFresh, VisibleFresh, LateReadsFresh, ServedFresh, Between
<1> QED BY <1>3, <1>4, <1>5, <1>6 DEF Inductive

\* A page that expires is a page less.
LEMMA PageExpiresKeeps ==
    ASSUME Inductive, NEW c \in Scopes, NEW v \in Versions, PageExpires(c, v)
    PROVE  Inductive'
<1>0. TypeOK /\ UNCHANGED <<db, version, reader, writer, announced, excused, faults>>
  BY DEF Inductive, PageExpires
<1>1. /\ page' \in [Scopes -> [Versions -> Nat \cup {NoPage}]]
      /\ \A d \in Scopes : \A x \in Versions : page'[d][x] \in {page[d][x], NoPage}
  BY <1>0 DEF PageExpires, TypeOK
<1>2. TypeOK'
  BY <1>0, <1>1 DEF TypeOK
<1>3. VersionsLeft' /\ AnnouncedCommitted' /\ QueriedFresh' /\ ServedFresh'
  BY <1>0 DEF Inductive, VersionsLeft, AnnouncedCommitted, QueriedFresh, ServedFresh, Left
<1>4. VisibleFresh'
  <2>1. \A d \in Scopes : version[d] \in Versions
    BY <1>0, Facts
  <2> QED BY <1>0, <1>1, <2>1 DEF Inductive, VisibleFresh, Between
<1>5. LateReadsFresh'
  <2>1. \A r \in Readers : Scope[r] \in Scopes /\ reader[r].ver \in Versions
    BY <1>0, Facts
  <2> QED BY <1>0, <1>1, <2>1 DEF Inductive, LateReadsFresh, Between
<1> QED BY <1>2, <1>3, <1>4, <1>5 DEF Inductive

\* The version counter expires: nothing of the scope is left in sight, or the
\* number that will be used again is the excuse.
LEMMA VersionExpiresKeeps ==
    ASSUME Inductive, NEW c \in Scopes, VersionExpires(c)
    PROVE  Inductive'
<1>0. /\ TypeOK /\ UNCHANGED <<db, page, reader, writer, announced, faults>>
      /\ Cardinality(Writers) \in Nat /\ 0 \in Versions
  BY Facts DEF Inductive, VersionExpires, Versions
<1>1. /\ version'[c] = 0 /\ (\A d \in Scopes : d # c => version'[d] = version[d])
      /\ version' \in [Scopes -> Versions]
  BY <1>0 DEF VersionExpires, TypeOK
<1>2. /\ excused' \in [Scopes -> SUBSET Versions]
      /\ \A d \in Scopes : excused[d] \subseteq excused'[d]
      /\ version[c] \notin excused'[c] => page[c][version[c]] = NoPage /\ Between(c) = {}
  <2>1. PICK e : e = (IF page[c][version[c]] # NoPage \/ Between(c) # {}
                      THEN excused[c] \cup {version[c]} ELSE excused[c])
    OBVIOUS
  <2>2. excused' = [excused EXCEPT ![c] = e]
    BY <2>1 DEF VersionExpires
  <2>3. excused \in [Scopes -> SUBSET Versions] /\ version[c] \in Versions
    BY <1>0 DEF TypeOK
  <2>4. e \in SUBSET Versions /\ excused[c] \subseteq e
    BY <1>0, <2>1, <2>3
  <2>5. excused'[c] = e /\ \A d \in Scopes : d # c => excused'[d] = excused[d]
    BY <2>2, <2>3
  <2>6. excused' \in [Scopes -> SUBSET Versions]
    BY <2>2, <2>3, <2>4
  <2> QED BY <2>1, <2>4, <2>5, <2>6
<1>3. TypeOK'
  BY <1>0, <1>1, <1>2 DEF TypeOK
<1>4. VersionsLeft'
  <2>1. \A n : Left(n)' = Left(n)
    BY <1>0 DEF Left
  <2> SUFFICES ASSUME NEW d \in Scopes
               PROVE  version'[d] + Cardinality(Left(1)) + Cardinality(Left(2)) <= 2 * Cardinality(Writers)
    BY <2>1 DEF VersionsLeft
  <2>2. version[d] + Cardinality(Left(1)) + Cardinality(Left(2)) <= 2 * Cardinality(Writers)
    BY DEF Inductive, VersionsLeft
  <2>3. Cardinality(Left(1)) \in Nat /\ Cardinality(Left(2)) \in Nat
    BY CacheAssumption, FS_Subset, FS_CardinalityType DEF Left
  <2>4. version[d] \in Nat /\ version'[d] \in Nat /\ version'[d] <= version[d]
    BY <1>0, <1>1, Facts
  <2> QED BY <1>0, <2>2, <2>3, <2>4
<1>5. AnnouncedCommitted' /\ QueriedFresh'
  BY <1>0 DEF Inductive, AnnouncedCommitted, QueriedFresh
<1>6. VisibleFresh'
  <2> SUFFICES ASSUME NEW d \in Scopes, NEW v \in Versions, v \notin excused'[d]
               PROVE  /\ v = version'[d] /\ page[d][v] # NoPage => page[d][v] >= announced[d]
                      /\ v > version'[d] => page[d][v] = NoPage
                      /\ \A q \in Between(d) : reader[q].ver = v =>
                            /\ v <= version'[d]
                            /\ (reader[q].pc = "store" /\ v = version'[d]) => reader[q].value >= announced[d]
    BY <1>0 DEF VisibleFresh, Between
  <2>1. CASE d = c
    <3>1. page[d][v] = NoPage
      BY <1>2, <2>1 DEF VersionExpires
    <3>2. \A q \in Between(d) : reader[q].ver # v
      BY <1>2, <2>1 DEF VersionExpires
    <3> QED BY <3>1, <3>2
  <2>2. CASE d # c
    BY <1>1, <1>2, <2>2 DEF Inductive, VisibleFresh
  <2> QED BY <2>1, <2>2
<1>7. LateReadsFresh' /\ ServedFresh'
  <2>1. \A r \in Readers : Scope[r] \in Scopes /\ excused[Scope[r]] \subseteq excused'[Scope[r]]
    BY <1>0, <1>2, Facts
  <2>2. LateReadsFresh'
    BY <1>0, <2>1 DEF Inductive, LateReadsFresh, Between
  <2>3. ServedFresh'
    BY <1>0, <2>1 DEF Inductive, ServedFresh
  <2> QED BY <2>2, <2>3
<1> QED BY <1>3, <1>4, <1>5, <1>6, <1>7 DEF Inductive

\* The reading steps of a list request.
LEMMA ReaderKeeps ==
    ASSUME Inductive, NEW r \in Readers,
           GetVersion(r) \/ GetPage(r) \/ Query(r) \/ RedisFails(r) \/ NextRequest(r)
    PROVE  Inductive'
<1> DEFINE c == Scope[r]
<1>0. /\ TypeOK /\ c \in Scopes /\ reader[r] \in ReaderState /\ faults \in Nat
      /\ db[c] \in Nat /\ announced[c] \in Nat /\ version[c] \in Versions /\ NoPage \notin Nat
      /\ reader[r].ver \in Versions /\ reader[r].floor \in Nat
      /\ page[c][reader[r].ver] \in Nat \cup {NoPage}
      /\ reader[r].floor <= announced[c] /\ announced[c] <= db[c]
      /\ UNCHANGED <<db, version, page, writer, announced, excused>>
  BY Facts DEF Inductive, TypeOK, QueriedFresh, AnnouncedCommitted,
               GetVersion, GetPage, Query, RedisFails, NextRequest
<1>1. CASE GetVersion(r)
  <2>1. PICK new : new = [reader[r] EXCEPT !.pc = "get", !.ver = version[c], !.floor = announced[c]]
    OBVIOUS
  <2>2. new \in ReaderState /\ new.pc = "get" /\ new.ver = version[c] /\ new.floor = announced[c]
    BY <1>0, <2>1 DEF ReaderState
  <2>3. reader' = [reader EXCEPT ![r] = new] /\ faults' \in Nat
    BY <1>0, <1>1, <2>1 DEF GetVersion, TypeOK, ReaderState
  <2>4. new.floor <= announced[c]
    BY <1>0, <2>2
  <2> QED BY <1>0, <2>2, <2>3, <2>4, ReaderMoves
<1>2. CASE GetPage(r)
  <2>0. PICK hit : hit = page[c][reader[r].ver]
    OBVIOUS
  <2>1. PICK new : new = [reader[r] EXCEPT !.pc = IF hit = NoPage THEN "query" ELSE "done", !.value = hit]
    OBVIOUS
  <2>2. /\ new \in ReaderState /\ new.pc = (IF hit = NoPage THEN "query" ELSE "done")
        /\ new.value = hit /\ new.floor = reader[r].floor /\ new.ver = reader[r].ver
    BY <1>0, <2>0, <2>1 DEF ReaderState
  <2>3. reader' = [reader EXCEPT ![r] = new] /\ faults' \in Nat
    BY <1>0, <1>2, <2>0, <2>1 DEF GetPage, TypeOK, ReaderState
  <2>4. new.pc = "done" => new.value \in Nat /\ (new.value >= new.floor \/ new.ver \in excused[c])
    BY <1>0, <1>2, <2>0, <2>2 DEF GetPage, Inductive, LateReadsFresh
  <2> QED BY <1>0, <2>2, <2>3, <2>4, ReaderMoves
<1>3. CASE Query(r)
  <2>1. PICK new : new = [reader[r] EXCEPT !.pc = "storeversion", !.value = db[c]]
    OBVIOUS
  <2>2. /\ new \in ReaderState /\ new.pc = "storeversion" /\ new.value = db[c]
        /\ new.floor = reader[r].floor
    BY <1>0, <2>1 DEF ReaderState
  <2>3. reader' = [reader EXCEPT ![r] = new] /\ faults' \in Nat
    BY <1>0, <1>3, <2>1 DEF Query, TypeOK, ReaderState
  <2>4. new.value \in Nat /\ new.value >= new.floor
    BY <1>0, <2>2
  <2> QED BY <1>0, <2>2, <2>3, <2>4, ReaderMoves
<1>4. CASE RedisFails(r)
  <2>0. PICK x, y : /\ x = (IF reader[r].pc \in {"start", "get"} THEN "query" ELSE "done")
                    /\ y = (IF reader[r].pc = "start" THEN announced[c] ELSE reader[r].floor)
    OBVIOUS
  <2>1. PICK new : new = [reader[r] EXCEPT !.pc = x, !.floor = y]
    OBVIOUS
  <2>2. x \in {"query", "done"} /\ y \in Nat /\ y <= announced[c]
    BY <1>0, <2>0
  <2>3. /\ new \in ReaderState /\ new.pc = x /\ new.value = reader[r].value /\ new.floor = y
    BY <1>0, <2>1, <2>2 DEF ReaderState
  <2>4. reader' = [reader EXCEPT ![r] = new] /\ faults' \in Nat
    <3>1. faults' \in Nat
      BY <1>0, <1>4 DEF RedisFails, Fault
    <3>2. reader' = [reader EXCEPT ![r].pc = x, ![r].floor = y]
      BY <1>0, <1>4, <2>0, Zenon DEF RedisFails
    <3>3. reader' = [reader EXCEPT ![r] = new]
      BY <1>0, <2>1, <3>2 DEF TypeOK, ReaderState
    <3> QED BY <3>1, <3>3
  <2>5. new.pc = "done" => new.value \in Nat /\ new.value >= new.floor
    BY <1>4, <2>0, <2>3 DEF RedisFails, Inductive, QueriedFresh
  <2> QED BY <1>0, <2>2, <2>3, <2>4, <2>5, ReaderMoves
<1>5. CASE NextRequest(r)
  <2>1. PICK new : new = NewRequest
    OBVIOUS
  <2>2. new \in ReaderState /\ new.pc = "start" /\ new.floor = 0
    <3>1. 0 \in Versions
      BY <1>0, Facts DEF Versions
    <3> QED BY <2>1, <3>1 DEF NewRequest, ReaderState
  <2>3. reader' = [reader EXCEPT ![r] = new] /\ faults' \in Nat
    BY <1>0, <1>5, <2>1 DEF NextRequest
  <2>4. new.floor <= announced[c]
    BY <1>0, <2>2
  <2> QED BY <1>0, <2>2, <2>3, <2>4, ReaderMoves
<1> QED BY <1>1, <1>2, <1>3, <1>4, <1>5

-----------------------------------------------------------------------------
(* The theorems. *)

\* The cache starts empty.
LEMMA CacheInit == Init => Inductive
<1> SUFFICES ASSUME Init PROVE Inductive
  OBVIOUS
<1>0. Cardinality(Writers) \in Nat /\ 0 \in Versions
  BY CacheAssumption, FS_CardinalityType DEF Versions
<1>1. TypeOK
  <2>1. NewRequest \in ReaderState /\ NewRequest.pc = "start"
    BY <1>0 DEF NewRequest, ReaderState
  <2>2. \A w \in Writers : writer[w] \in WriterState
    BY CacheAssumption DEF Init, WriterState
  <2>3. writer \in [Writers -> WriterState]
    BY <2>2 DEF Init
  <2> QED BY <1>0, <2>1, <2>3 DEF Init, TypeOK
<1>2. VersionsLeft
  <2>1. ASSUME NEW n PROVE Cardinality(Left(n)) \in Nat /\ Cardinality(Left(n)) <= Cardinality(Writers)
    BY CacheAssumption, FS_Subset, FS_CardinalityType DEF Left
  <2>2. \A c \in Scopes : version[c] = 0
    BY DEF Init
  <2>3. Cardinality(Left(1)) + Cardinality(Left(2)) <= 2 * Cardinality(Writers)
    BY <1>0, <2>1
  <2> QED BY <2>1, <2>2, <2>3 DEF VersionsLeft
<1>3. AnnouncedCommitted
  BY DEF Init, AnnouncedCommitted
<1>4. QueriedFresh /\ LateReadsFresh /\ ServedFresh
  BY CacheAssumption DEF Init, NewRequest, QueriedFresh, LateReadsFresh, ServedFresh
<1>5. VisibleFresh
  BY <1>0 DEF Init, NewRequest, VisibleFresh, Between
<1> QED BY <1>1, <1>2, <1>3, <1>4, <1>5 DEF Inductive

\* The inductive invariant of the list cache.
LEMMA CacheInvariant == Spec => []Inductive
<1>1. Inductive /\ [Next]_vars => Inductive'
  <2> SUFFICES ASSUME Inductive, [Next]_vars PROVE Inductive'
    OBVIOUS
  <2>1. CASE UNCHANGED vars
    BY <2>1 DEF vars, Inductive, TypeOK, VersionsLeft, AnnouncedCommitted, QueriedFresh, VisibleFresh,
                LateReadsFresh, ServedFresh, Between, Left
  <2> QED BY <2>1, ReaderKeeps, StoreVersionKeeps, StorePageKeeps, CommitKeeps, InvalidateKeeps,
             InvalidateFailsKeeps, PageExpiresKeeps, VersionExpiresKeeps
          DEF Next, ReaderStep
<1> QED BY <1>1, CacheInit, PTL DEF Spec

\* Every variable of the cache model keeps its type: a miss is never served, and
\* no version is raised more often than there are invalidations.
THEOREM CacheTypeCorrect == Spec => []TypeOK
BY CacheInvariant, PTL DEF Inductive

\* A list has every change announced when its request began, for any number of
\* readers, writers and failed Redis calls, but for the two named excuses.
THEOREM ListsAreFresh == Spec => []ServedFresh
BY CacheInvariant, PTL DEF Inductive
=============================================================================
