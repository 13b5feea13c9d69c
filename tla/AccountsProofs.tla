---------------------------- MODULE AccountsProofs ----------------------------
(***************************************************************************)
(* Proofs about Accounts, for any number of registrations, commands,       *)
(* logins, calls and faults, any spelling of the addresses, any lifetime   *)
(* of a token.                                                             *)
(***************************************************************************)
EXTENDS Accounts, TLAPS

\* Every request has an address.
LEMMA EmailIn ==
    /\ \A r \in Requests : EmailOf(r) \in Emails /\ Password[r] \in Passwords
    /\ \A r \in Requests : EmailOf(r) = Normal[Typed[r]]
    /\ NoAnswer \notin Passwords
BY AccountsAssumption DEF EmailOf, NormalizeEmail, Passwords

\* A step sets the state of request r and leaves the other requests alone.
ReqSets(r, c, a) ==
    /\ req'[r].pc = c
    /\ req'[r].answer = a
    /\ \A q \in Requests : q # r => req'[q] = req[q]

\* The two ways a step writes a request.
LEMMA ReqEffects ==
    ASSUME TypeOK, NEW r \in Requests
    PROVE  /\ \A a : Answered(r, a) => ReqSets(r, "done", a)
           /\ \A c : req' = [req EXCEPT ![r].pc = c] => ReqSets(r, c, req[r].answer)
<1>1. ASSUME NEW a, Answered(r, a) PROVE ReqSets(r, "done", a)
  BY <1>1 DEF Answered, ReqSets, TypeOK
<1>2. ASSUME NEW c, req' = [req EXCEPT ![r].pc = c] PROVE ReqSets(r, c, req[r].answer)
  BY <1>2 DEF ReqSets, TypeOK, ReqState
<1> QED BY <1>1, <1>2

\* The end of a transaction frees its row locks.
LEMMA UnlockedEffect ==
    ASSUME NEW r \in Requests, NEW i \in Requests
    PROVE  Unlocked(r)[i] = (IF lock[i] = r THEN NoUser ELSE lock[i])
BY DEF Unlocked

Rows ==
    /\ RowsOfRequests
    /\ OneAccountPerEmail
    /\ InsertedAlone
    /\ LocksOfCommands
    /\ ResetsHaveRows
    /\ RegistrationTruthful
    /\ AdminStands

\* A request that writes nothing: it moves on to its INSERT or is answered.
LEMMA RowsRead ==
    ASSUME TypeOK, Rows, NEW r \in Requests, NEW c \in {"insert", "done"}, NEW a,
           ReqSets(r, c, a), req[r].pc # "done", UNCHANGED <<user, reset>>,
           \/ UNCHANGED lock /\ req[r].pc # "update"
           \/ lock' = Unlocked(r),
           a = "duplicate" => a = req[r].answer \/ WithEmail(EmailOf(r)) # {},
           a = "created" => a = req[r].answer
    PROVE  Rows'
<1>1. \A e : WithEmail(e)' = WithEmail(e)
  BY DEF WithEmail
<1>2. user[r] = NoUser
  BY DEF Rows, RowsOfRequests
<1>3. RowsOfRequests' /\ OneAccountPerEmail'
  BY <1>2 DEF Rows, RowsOfRequests, OneAccountPerEmail, ReqSets, EmailOf, NormalizeEmail
<1>4. InsertedAlone'
  BY <1>1 DEF Rows, InsertedAlone, ReqSets, EmailOf, NormalizeEmail
<1>5. LocksOfCommands'
  <2>1. ASSUME NEW i \in Requests, lock'[i] # NoUser
        PROVE  /\ lock'[i] = lock[i] /\ lock[i] # r
               /\ lock'[i] \in Commands
               /\ req'[lock'[i]].pc = "update"
               /\ user'[i] # NoUser /\ user'[i].email = EmailOf(lock'[i])
    <3>1. lock'[i] = lock[i] /\ lock[i] # r
      BY <2>1, UnlockedEffect DEF Rows, LocksOfCommands
    <3>2. lock[i] \in Requests
      BY <2>1, <3>1 DEF TypeOK
    <3> QED BY <2>1, <3>1, <3>2 DEF Rows, LocksOfCommands, ReqSets
  <2>2. ASSUME NEW q \in Requests, req'[q].pc = "update"
        PROVE  q \in Commands /\ \E i \in Requests : lock'[i] = q
    <3>1. q # r /\ req[q].pc = "update"
      BY <2>2 DEF ReqSets
    <3>2. PICK i \in Requests : lock[i] = q
      BY <3>1 DEF Rows, LocksOfCommands
    <3>3. lock'[i] = q
      BY <3>1, <3>2, UnlockedEffect
    <3> QED BY <3>1, <3>3 DEF Rows, LocksOfCommands
  <2> QED BY <2>1, <2>2 DEF LocksOfCommands, EmailOf, NormalizeEmail
<1>6. ResetsHaveRows' /\ AdminStands'
  BY <1>1 DEF Rows, ResetsHaveRows, AdminStands
<1>7. RegistrationTruthful'
  <2>1. \A q \in Registrations : q # r => req'[q] = req[q]
    BY DEF ReqSets, Requests
  <2> QED BY <1>1, <2>1 DEF Rows, RegistrationTruthful, ReqSets, EmailOf, NormalizeEmail
<1> QED BY <1>3, <1>4, <1>5, <1>6, <1>7 DEF Rows

\* SELECT ... FOR UPDATE finds the row and locks it.
LEMMA RowsLocked ==
    ASSUME TypeOK, Rows, NEW r \in Requests, r \in Commands, NEW i \in WithEmail(EmailOf(r)),
           lock[i] = NoUser, lock' = [lock EXCEPT ![i] = r],
           req[r].pc = "start", ReqSets(r, "update", req[r].answer), UNCHANGED <<user, reset>>
    PROVE  Rows'
<1>0. i \in Requests /\ user[i] # NoUser /\ user[i].email = EmailOf(r)
  BY DEF WithEmail
<1>1. \A e : WithEmail(e)' = WithEmail(e)
  BY DEF WithEmail
<1>2. user[r] = NoUser
  BY DEF Rows, RowsOfRequests
<1>3. RowsOfRequests' /\ OneAccountPerEmail'
  BY <1>2 DEF Rows, RowsOfRequests, OneAccountPerEmail, ReqSets, EmailOf, NormalizeEmail
<1>4. InsertedAlone'
  BY <1>1 DEF Rows, InsertedAlone, ReqSets, EmailOf, NormalizeEmail
<1>5. LocksOfCommands'
  <2>0. lock'[i] = r /\ \A k \in Requests : k # i => lock'[k] = lock[k]
    BY <1>0 DEF TypeOK
  <2>1. ASSUME NEW k \in Requests, lock'[k] # NoUser
        PROVE  /\ lock'[k] \in Commands
               /\ req'[lock'[k]].pc = "update"
               /\ user'[k] # NoUser /\ user'[k].email = EmailOf(lock'[k])
    <3>1. CASE k = i
      BY <1>0, <2>0, <3>1 DEF ReqSets
    <3>2. CASE k # i
      <4>1. lock'[k] = lock[k] /\ lock[k] \in Requests /\ lock[k] # r
        BY <2>0, <2>1, <3>2 DEF TypeOK, Rows, LocksOfCommands
      <4> QED BY <2>1, <4>1 DEF Rows, LocksOfCommands, ReqSets
    <3> QED BY <3>1, <3>2
  <2>2. ASSUME NEW q \in Requests, req'[q].pc = "update"
        PROVE  q \in Commands /\ \E k \in Requests : lock'[k] = q
    <3>1. CASE q = r
      BY <1>0, <2>0, <3>1
    <3>2. CASE q # r
      <4>1. req[q].pc = "update"
        BY <2>2, <3>2 DEF ReqSets
      <4>2. PICK k \in Requests : lock[k] = q
        BY <4>1 DEF Rows, LocksOfCommands
      <4>3. k # i
        BY <4>2, AbsentAssumption
      <4> QED BY <2>0, <4>1, <4>2, <4>3 DEF Rows, LocksOfCommands
    <3> QED BY <3>1, <3>2
  <2> QED BY <2>1, <2>2 DEF LocksOfCommands, EmailOf, NormalizeEmail
<1>6. ResetsHaveRows' /\ AdminStands'
  BY <1>1 DEF Rows, ResetsHaveRows, AdminStands
<1>7. RegistrationTruthful'
  <2>1. \A q \in Registrations : req'[q].answer = req[q].answer
    BY DEF ReqSets, Requests
  <2> QED BY <1>1, <2>1 DEF Rows, RegistrationTruthful, EmailOf, NormalizeEmail
<1> QED BY <1>3, <1>4, <1>5, <1>6, <1>7 DEF Rows

\* The unique constraint lets the INSERT in.
LEMMA RowsInserted ==
    ASSUME TypeOK, Rows, NEW r \in Requests, req[r].pc = "insert",
           ~\E q \in Requests \ {r} : req[q].pc = "inserted" /\ EmailOf(q) = EmailOf(r),
           WithEmail(EmailOf(r)) = {},
           ReqSets(r, "inserted", req[r].answer), UNCHANGED <<user, reset, lock>>
    PROVE  Rows'
<1>1. \A e : WithEmail(e)' = WithEmail(e)
  BY DEF WithEmail
<1>2. user[r] = NoUser
  BY DEF Rows, RowsOfRequests
<1>3. RowsOfRequests' /\ OneAccountPerEmail'
  BY <1>2 DEF Rows, RowsOfRequests, OneAccountPerEmail, ReqSets, EmailOf, NormalizeEmail
<1>4. InsertedAlone'
  <2> SUFFICES ASSUME NEW q \in Requests, req'[q].pc = "inserted"
               PROVE  /\ WithEmail(EmailOf(q)) = {}
                      /\ \A p \in Requests \ {q} : req'[p].pc = "inserted" => EmailOf(p) # EmailOf(q)
    BY <1>1 DEF InsertedAlone, EmailOf, NormalizeEmail
  <2>1. CASE q = r
    BY <2>1 DEF ReqSets
  <2>2. CASE q # r
    BY <2>2 DEF Rows, InsertedAlone, ReqSets
  <2> QED BY <2>1, <2>2
<1>5. LocksOfCommands'
  <2>1. \A q \in Requests : req'[q].pc = "update" <=> req[q].pc = "update"
    BY DEF ReqSets
  <2>2. \A i \in Requests : lock[i] # NoUser => lock[i] \in Requests
    BY DEF TypeOK
  <2> QED BY <2>1, <2>2 DEF Rows, LocksOfCommands, EmailOf, NormalizeEmail
<1>6. ResetsHaveRows' /\ AdminStands'
  BY <1>1 DEF Rows, ResetsHaveRows, AdminStands
<1>7. RegistrationTruthful'
  <2>1. \A q \in Registrations : req'[q].answer = req[q].answer
    BY DEF ReqSets, Requests
  <2> QED BY <1>1, <2>1 DEF Rows, RegistrationTruthful, EmailOf, NormalizeEmail
<1> QED BY <1>3, <1>4, <1>5, <1>6, <1>7 DEF Rows

\* What the reset history becomes when request r commits.
LEMMA ResetEffect ==
    ASSUME TypeOK, NEW r \in Requests,
           reset' = IF r \in Commands THEN [reset EXCEPT ![EmailOf(r)] = Password[r]] ELSE reset
    PROVE  /\ r \in Commands => reset'[EmailOf(r)] = Password[r] /\ reset'[EmailOf(r)] # NoAnswer
           /\ r \notin Commands => reset'[EmailOf(r)] = reset[EmailOf(r)]
           /\ \A e \in Emails : e # EmailOf(r) => reset'[e] = reset[e]
           /\ \A e \in Emails : reset[e] # NoAnswer => reset'[e] # NoAnswer
BY EmailIn DEF TypeOK

\* The commit of an INSERT, whether or not the caller learns of it.
LEMMA RowsCreated ==
    ASSUME TypeOK, Rows, NEW r \in Requests, NEW a \in {"created", "error"},
           req[r].pc = "inserted", ReqSets(r, "done", a),
           user' = [user EXCEPT ![r] = NewRow(r)],
           reset' = IF r \in Commands THEN [reset EXCEPT ![EmailOf(r)] = Password[r]] ELSE reset,
           lock' = Unlocked(r)
    PROVE  Rows'
<1>0. /\ WithEmail(EmailOf(r)) = {}
      /\ \A q \in Requests \ {r} : req[q].pc = "inserted" => EmailOf(q) # EmailOf(r)
      /\ user[r] = NoUser
  BY DEF Rows, InsertedAlone, RowsOfRequests
<1>1. /\ user'[r] # NoUser /\ user'[r].email = EmailOf(r) /\ user'[r].password = Password[r]
      /\ user'[r].role = (IF r \in Registrations THEN "user" ELSE "admin")
      /\ \A i \in Requests : i # r => user'[i] = user[i]
  <2>1. user'[r] = NewRow(r) /\ \A i \in Requests : i # r => user'[i] = user[i]
    BY DEF TypeOK
  <2>2. NewRow(r) \in UserRow
    BY EmailIn DEF NewRow, UserRow
  <2>3. NewRow(r) # NoUser
    BY <2>2, AbsentAssumption
  <2> QED BY <2>1, <2>3 DEF NewRow
<1>2. \A i \in Requests : i # r /\ user[i] # NoUser => user[i].email # EmailOf(r) /\ EmailOf(i) # EmailOf(r)
  BY <1>0 DEF WithEmail, Rows, RowsOfRequests
<1>3. /\ \A e : WithEmail(e) \subseteq WithEmail(e)'
      /\ \A e : e # EmailOf(r) => WithEmail(e)' = WithEmail(e)
      /\ r \in WithEmail(EmailOf(r))'
  BY <1>0, <1>1 DEF WithEmail, EmailOf, NormalizeEmail
<1>4. RowsOfRequests'
  <2> SUFFICES ASSUME NEW i \in Requests, user'[i] # NoUser
               PROVE  user'[i].email = EmailOf(i) /\ req'[i].pc = "done"
    BY DEF RowsOfRequests, EmailOf, NormalizeEmail
  <2> QED BY <1>1 DEF Rows, RowsOfRequests, ReqSets
<1>5. OneAccountPerEmail'
  <2> SUFFICES ASSUME NEW i \in Requests, NEW k \in Requests, user'[i] # NoUser, user'[k] # NoUser,
                      EmailOf(i) = EmailOf(k)
               PROVE  i = k
    BY EmailIn DEF OneAccountPerEmail
  <2>1. CASE i # r /\ k # r
    BY <1>1, <2>1, EmailIn DEF Rows, OneAccountPerEmail
  <2>2. CASE i = r \/ k = r
    BY <1>1, <1>2, <2>2
  <2> QED BY <2>1, <2>2
<1>6. InsertedAlone'
  <2> SUFFICES ASSUME NEW q \in Requests, req'[q].pc = "inserted"
               PROVE  /\ WithEmail(EmailOf(q))' = {}
                      /\ \A p \in Requests \ {q} : req'[p].pc = "inserted" => EmailOf(p) # EmailOf(q)
    BY DEF InsertedAlone, EmailOf, NormalizeEmail
  <2>1. q # r /\ req[q].pc = "inserted" /\ EmailOf(q) # EmailOf(r)
    BY <1>0 DEF ReqSets
  <2>2. WithEmail(EmailOf(q))' = {}
    BY <1>3, <2>1 DEF Rows, InsertedAlone, EmailOf, NormalizeEmail
  <2> QED BY <2>1, <2>2 DEF Rows, InsertedAlone, ReqSets
<1>7. LocksOfCommands'
  <2>1. \A i \in Requests : lock[i] # r
    BY AbsentAssumption DEF Rows, LocksOfCommands
  <2>2. \A i \in Requests : lock'[i] = lock[i] /\ (lock[i] # NoUser => lock[i] \in Requests)
    BY <2>1, UnlockedEffect DEF TypeOK
  <2>3. \A q \in Requests : req'[q].pc = "update" <=> req[q].pc = "update"
    BY DEF ReqSets
  <2>4. \A i \in Requests : user[i] # NoUser => user'[i] = user[i]
    BY <1>0, <1>1
  <2> QED BY <2>2, <2>3, <2>4 DEF Rows, LocksOfCommands, EmailOf, NormalizeEmail
<1>8. ResetsHaveRows'
  <2> SUFFICES ASSUME NEW e \in Emails, reset'[e] # NoAnswer PROVE WithEmail(e)' # {}
    BY DEF ResetsHaveRows
  <2>1. CASE e = EmailOf(r)
    <3>1. WithEmail(e)' = WithEmail(EmailOf(r))'
      BY <2>1 DEF WithEmail, EmailOf, NormalizeEmail
    <3> QED BY <1>3, <3>1
  <2>2. CASE e # EmailOf(r)
    BY <1>3, <2>2, ResetEffect DEF Rows, ResetsHaveRows
  <2> QED BY <2>1, <2>2
<1>9. RegistrationTruthful'
  <2> SUFFICES ASSUME NEW q \in Registrations
               PROVE  /\ req'[q].answer = "duplicate" => WithEmail(EmailOf(q))' # {}
                      /\ req'[q].answer = "created" =>
                            /\ user'[q] # NoUser
                            /\ user'[q].password = Password[q] \/ reset'[EmailOf(q)] # NoAnswer
    BY DEF RegistrationTruthful, EmailOf, NormalizeEmail
  <2>0. q \in Requests
    BY DEF Requests
  <2>1. CASE q = r
    BY <1>1, <2>1 DEF ReqSets
  <2>2. CASE q # r
    <3>1. req'[q] = req[q] /\ user'[q] = user[q] /\ EmailOf(q) \in Emails
      BY <1>1, <2>0, <2>2, EmailIn DEF ReqSets
    <3> QED BY <1>3, <3>1, ResetEffect DEF Rows, RegistrationTruthful
  <2> QED BY <2>1, <2>2
<1>10. AdminStands'
  <2> SUFFICES ASSUME NEW i \in Requests, user'[i] # NoUser
               PROVE  LET p == reset'[user'[i].email] IN
                      IF p = NoAnswer THEN user'[i].role = "user"
                      ELSE user'[i].role = "admin" /\ user'[i].password = p
    BY DEF AdminStands
  <2>1. CASE i = r
    <3>1. CASE r \in Commands
      <4>1. r \notin Registrations
        BY <3>1, AccountsAssumption
      <4>2. reset'[EmailOf(r)] = Password[r] /\ Password[r] # NoAnswer
        BY <3>1, ResetEffect
      <4>3. /\ user'[i].email = EmailOf(r) /\ user'[i].role = "admin"
            /\ user'[i].password = Password[r]
        BY <1>1, <2>1, <4>1
      <4> QED BY <4>2, <4>3
    <3>2. CASE r \notin Commands
      <4>1. r \in Registrations
        BY <3>2 DEF Requests
      <4>2. reset[EmailOf(r)] = NoAnswer
        BY <1>0, EmailIn DEF Rows, ResetsHaveRows
      <4> QED BY <1>1, <2>1, <3>2, <4>1, <4>2, ResetEffect
    <3> QED BY <3>1, <3>2
  <2>2. CASE i # r
    <3>1. user'[i] = user[i] /\ user[i].email # EmailOf(r) /\ user[i].email \in Emails
      BY <1>1, <1>2, <2>2, EmailIn DEF Rows, RowsOfRequests
    <3>2. reset'[user[i].email] = reset[user[i].email]
      BY <3>1, ResetEffect
    <3> QED BY <3>1, <3>2 DEF Rows, AdminStands
  <2> QED BY <2>1, <2>2
<1> QED BY <1>4, <1>5, <1>6, <1>7, <1>8, <1>9, <1>10 DEF Rows

\* The commit of a command that found an account: the row of its address, which
\* it has locked, becomes an administrator's with its password.
LEMMA RowsUpdated ==
    ASSUME TypeOK, Rows, NEW r \in Requests, NEW a \in {"updated", "error"},
           req[r].pc = "update", ReqSets(r, "done", a),
           user' = [i \in Requests |->
                       IF lock[i] = r
                       THEN [user[i] EXCEPT !.password = Password[r], !.role = "admin", !.active = TRUE]
                       ELSE user[i]],
           reset' = IF r \in Commands THEN [reset EXCEPT ![EmailOf(r)] = Password[r]] ELSE reset,
           lock' = Unlocked(r)
    PROVE  Rows'
<1>0. r \in Commands /\ \E i \in Requests : lock[i] = r
  BY DEF Rows, LocksOfCommands
<1>1. \A i \in Requests : lock[i] # r => user'[i] = user[i]
  OBVIOUS
<1>2. ASSUME NEW i \in Requests, lock[i] = r
      PROVE  /\ user[i] # NoUser /\ user[i].email = EmailOf(r)
             /\ user'[i] # NoUser /\ user'[i].email = EmailOf(r)
             /\ user'[i].password = Password[r] /\ user'[i].role = "admin"
  <2>1. user[i] # NoUser /\ user[i].email = EmailOf(r)
    BY <1>2, AbsentAssumption DEF Rows, LocksOfCommands
  <2>2. user[i] \in UserRow
    BY <2>1 DEF TypeOK
  <2>3. user'[i] = [user[i] EXCEPT !.password = Password[r], !.role = "admin", !.active = TRUE]
    BY <1>2
  <2>4. /\ user'[i].email = EmailOf(r) /\ user'[i].password = Password[r]
        /\ user'[i].role = "admin"
    BY <2>1, <2>2, <2>3 DEF UserRow
  <2>5. user'[i] \in UserRow
    BY <2>2, <2>3, EmailIn DEF UserRow
  <2> QED BY <2>1, <2>4, <2>5, AbsentAssumption
<1>3. \A i \in Requests : /\ user'[i] = NoUser <=> user[i] = NoUser
                          /\ user[i] # NoUser => user'[i].email = user[i].email
  BY <1>1, <1>2
<1>4. \A e : WithEmail(e)' = WithEmail(e)
  BY <1>3 DEF WithEmail
<1>5. \A i \in Requests : user[i] # NoUser /\ user[i].email = EmailOf(r) => lock[i] = r
  <2> SUFFICES ASSUME NEW i \in Requests, user[i] # NoUser, user[i].email = EmailOf(r)
               PROVE  lock[i] = r
    OBVIOUS
  <2>1. PICK k \in Requests : lock[k] = r
    BY <1>0
  <2>2. user[k] # NoUser /\ user[k].email = EmailOf(r)
    BY <1>2, <2>1
  <2>3. EmailOf(i) = EmailOf(k)
    BY <2>2 DEF Rows, RowsOfRequests
  <2>4. i = k
    BY <2>2, <2>3, EmailIn DEF Rows, OneAccountPerEmail
  <2> QED BY <2>1, <2>4
<1>6. RowsOfRequests'
  <2> SUFFICES ASSUME NEW i \in Requests, user'[i] # NoUser
               PROVE  user'[i].email = EmailOf(i) /\ req'[i].pc = "done"
    BY DEF RowsOfRequests, EmailOf, NormalizeEmail
  <2> QED BY <1>3 DEF Rows, RowsOfRequests, ReqSets
<1>7. OneAccountPerEmail'
  BY <1>3 DEF Rows, OneAccountPerEmail
<1>8. InsertedAlone'
  BY <1>4 DEF Rows, InsertedAlone, ReqSets, EmailOf, NormalizeEmail
<1>9. LocksOfCommands'
  <2>1. ASSUME NEW i \in Requests, lock'[i] # NoUser
        PROVE  /\ lock'[i] \in Commands
               /\ req'[lock'[i]].pc = "update"
               /\ user'[i] # NoUser /\ user'[i].email = EmailOf(lock'[i])
    <3>1. lock'[i] = lock[i] /\ lock[i] # r /\ lock[i] \in Requests
      BY <2>1, UnlockedEffect DEF TypeOK
    <3>2. /\ lock[i] \in Commands /\ req[lock[i]].pc = "update"
          /\ user[i] # NoUser /\ user[i].email = EmailOf(lock[i])
      BY <2>1, <3>1 DEF Rows, LocksOfCommands
    <3>3. req'[lock[i]] = req[lock[i]]
      BY <3>1 DEF ReqSets
    <3> QED BY <1>3, <3>1, <3>2, <3>3
  <2>2. ASSUME NEW q \in Requests, req'[q].pc = "update"
        PROVE  q \in Commands /\ \E i \in Requests : lock'[i] = q
    <3>1. q # r /\ req[q].pc = "update"
      BY <2>2 DEF ReqSets
    <3>2. PICK i \in Requests : lock[i] = q
      BY <3>1 DEF Rows, LocksOfCommands
    <3>3. lock'[i] = q
      BY <3>1, <3>2, UnlockedEffect
    <3> QED BY <3>1, <3>3 DEF Rows, LocksOfCommands
  <2> QED BY <2>1, <2>2 DEF LocksOfCommands, EmailOf, NormalizeEmail
<1>10. ResetsHaveRows'
  <2> SUFFICES ASSUME NEW e \in Emails, reset'[e] # NoAnswer PROVE WithEmail(e) # {}
    BY <1>4 DEF ResetsHaveRows
  <2>1. CASE e = EmailOf(r)
    BY <1>0, <1>2, <2>1 DEF WithEmail
  <2>2. CASE e # EmailOf(r)
    BY <2>2, ResetEffect DEF Rows, ResetsHaveRows
  <2> QED BY <2>1, <2>2
<1>11. RegistrationTruthful'
  <2> SUFFICES ASSUME NEW q \in Registrations
               PROVE  /\ req'[q].answer = "duplicate" => WithEmail(EmailOf(q))' # {}
                      /\ req'[q].answer = "created" =>
                            /\ user'[q] # NoUser
                            /\ user'[q].password = Password[q] \/ reset'[EmailOf(q)] # NoAnswer
    BY DEF RegistrationTruthful, EmailOf, NormalizeEmail
  <2>0. q \in Requests /\ q # r /\ req'[q] = req[q] /\ EmailOf(q) \in Emails
    BY <1>0, AccountsAssumption, EmailIn DEF Requests, ReqSets
  <2>1. WithEmail(EmailOf(q))' = WithEmail(EmailOf(q))
    BY <1>4 DEF EmailOf, NormalizeEmail
  <2>2. CASE lock[q] = r
    <3>1. EmailOf(q) = EmailOf(r)
      BY <1>2, <2>0, <2>2 DEF Rows, RowsOfRequests
    <3>2. reset'[EmailOf(q)] # NoAnswer
      BY <1>0, <3>1, ResetEffect
    <3> QED BY <1>2, <2>0, <2>1, <2>2, <3>2 DEF Rows, RegistrationTruthful
  <2>3. CASE lock[q] # r
    BY <1>1, <2>0, <2>1, <2>3, ResetEffect DEF Rows, RegistrationTruthful
  <2> QED BY <2>2, <2>3
<1>12. AdminStands'
  <2> SUFFICES ASSUME NEW i \in Requests, user'[i] # NoUser
               PROVE  LET p == reset'[user'[i].email] IN
                      IF p = NoAnswer THEN user'[i].role = "user"
                      ELSE user'[i].role = "admin" /\ user'[i].password = p
    BY DEF AdminStands
  <2>1. CASE lock[i] = r
    <3>1. reset'[EmailOf(r)] = Password[r] /\ Password[r] # NoAnswer
      BY <1>0, ResetEffect
    <3>2. /\ user'[i].email = EmailOf(r) /\ user'[i].role = "admin"
          /\ user'[i].password = Password[r]
      BY <1>2, <2>1
    <3> QED BY <3>1, <3>2
  <2>2. CASE lock[i] # r
    <3>1. user'[i] = user[i] /\ user[i].email # EmailOf(r) /\ user[i].email \in Emails
      BY <1>1, <1>5, <2>2, EmailIn DEF Rows, RowsOfRequests
    <3>2. reset'[user[i].email] = reset[user[i].email]
      BY <3>1, ResetEffect
    <3> QED BY <3>1, <3>2 DEF Rows, AdminStands
  <2> QED BY <2>1, <2>2
<1> QED BY <1>6, <1>7, <1>8, <1>9, <1>10, <1>11, <1>12 DEF Rows

\* The operator who deactivates an account changes nothing else of it.
LEMMA RowsDeactivated ==
    ASSUME TypeOK, Rows, NEW i \in Requests, Deactivate(i)
    PROVE  Rows'
<1>0. user[i] # NoUser /\ user[i] \in UserRow /\ UNCHANGED <<lock, req, reset>>
  BY DEF Deactivate, TypeOK
<1>1. user'[i] = [user[i] EXCEPT !.active = FALSE] /\ \A k \in Requests : k # i => user'[k] = user[k]
  BY DEF Deactivate, TypeOK
<1>2. /\ user'[i].email = user[i].email /\ user'[i].password = user[i].password
      /\ user'[i].role = user[i].role /\ user'[i] \in UserRow
  BY <1>0, <1>1 DEF UserRow
<1>3. \A k \in Requests :
         /\ user'[k] = NoUser <=> user[k] = NoUser
         /\ user[k] # NoUser => /\ user'[k].email = user[k].email
                                /\ user'[k].password = user[k].password
                                /\ user'[k].role = user[k].role
  BY <1>0, <1>1, <1>2, AbsentAssumption
<1>4. \A e : WithEmail(e)' = WithEmail(e)
  BY <1>3 DEF WithEmail
<1>5. RowsOfRequests' /\ OneAccountPerEmail' /\ InsertedAlone'
  BY <1>0, <1>3, <1>4 DEF Rows, RowsOfRequests, OneAccountPerEmail, InsertedAlone, EmailOf, NormalizeEmail
<1>6. LocksOfCommands' /\ ResetsHaveRows' /\ AdminStands'
  BY <1>0, <1>3, <1>4 DEF Rows, LocksOfCommands, ResetsHaveRows, AdminStands, EmailOf, NormalizeEmail
<1>7. RegistrationTruthful'
  BY <1>0, <1>3, <1>4 DEF Rows, RegistrationTruthful, EmailOf, NormalizeEmail, Requests
<1> QED BY <1>5, <1>6, <1>7 DEF Rows

\* No step of the system breaks the rows' invariant.
LEMMA RowsStep ==
    ASSUME TypeOK, Rows, [Next]_vars
    PROVE  Rows'
<1>1. ASSUME NEW r \in Requests, Lookup(r) PROVE Rows'
  <2>1. req[r].pc = "start" /\ UNCHANGED <<user, lock, reset>>
    BY <1>1 DEF Lookup
  <2>2. \/ WithEmail(EmailOf(r)) # {} /\ ReqSets(r, "done", "duplicate")
        \/ ReqSets(r, "insert", req[r].answer)
    BY <1>1, ReqEffects DEF Lookup
  <2>3. CASE WithEmail(EmailOf(r)) # {} /\ ReqSets(r, "done", "duplicate")
    BY <2>1, <2>3, RowsRead
  <2>4. CASE ReqSets(r, "insert", req[r].answer)
    BY <2>1, <2>4, RowsRead
  <2> QED BY <2>2, <2>3, <2>4
<1>2. ASSUME NEW r \in Requests, SelectForUpdate(r) PROVE Rows'
  <2>1. r \in Commands /\ req[r].pc = "start" /\ UNCHANGED <<user, reset>>
    BY <1>2 DEF SelectForUpdate
  <2>2. CASE UNCHANGED lock /\ req' = [req EXCEPT ![r].pc = "insert"]
    <3>1. ReqSets(r, "insert", req[r].answer)
      BY <2>2, ReqEffects
    <3> QED BY <2>1, <2>2, <3>1, RowsRead
  <2>3. ASSUME NEW i \in WithEmail(EmailOf(r)), lock[i] = NoUser, lock' = [lock EXCEPT ![i] = r],
               req' = [req EXCEPT ![r].pc = "update"]
        PROVE  Rows'
    <3>1. ReqSets(r, "update", req[r].answer)
      BY <2>3, ReqEffects
    <3> QED BY <2>1, <2>3, <3>1, RowsLocked
  <2> QED BY <1>2, <2>2, <2>3 DEF SelectForUpdate
<1>3. ASSUME NEW r \in Requests, FlushInsert(r) PROVE Rows'
  <2>1. /\ req[r].pc = "insert" /\ UNCHANGED <<user, lock, reset>>
        /\ ~\E q \in Requests \ {r} : req[q].pc = "inserted" /\ EmailOf(q) = EmailOf(r)
    BY <1>3 DEF FlushInsert
  <2>2. CASE WithEmail(EmailOf(r)) = {}
    <3>1. ReqSets(r, "inserted", req[r].answer)
      BY <1>3, <2>2, ReqEffects DEF FlushInsert
    <3> QED BY <2>1, <2>2, <3>1, RowsInserted
  <2>3. CASE WithEmail(EmailOf(r)) # {}
    <3>1. PICK a \in {"duplicate", "error"} : ReqSets(r, "done", a)
      BY <1>3, <2>3, ReqEffects DEF FlushInsert
    <3> QED BY <2>1, <2>3, <3>1, RowsRead
  <2> QED BY <2>2, <2>3
<1>4. ASSUME NEW r \in Requests, CommitRequest(r) PROVE Rows'
  <2>1. CASE req[r].pc = "inserted"
    <3>1. ReqSets(r, "done", "created")
      BY <1>4, <2>1, ReqEffects DEF CommitRequest
    <3> QED BY <1>4, <2>1, <3>1, RowsCreated DEF CommitRequest, Wrote
  <2>2. CASE req[r].pc = "update"
    <3>1. ReqSets(r, "done", "updated")
      BY <1>4, <2>2, ReqEffects DEF CommitRequest
    <3> QED BY <1>4, <2>2, <3>1, RowsUpdated DEF CommitRequest, Wrote
  <2> QED BY <1>4, <2>1, <2>2 DEF CommitRequest, Wrote
<1>5. ASSUME NEW r \in Requests, RequestFails(r) PROVE Rows'
  <2>1. req[r].pc # "done" /\ ReqSets(r, "done", "error")
    BY <1>5, ReqEffects DEF RequestFails
  <2>2. CASE UNCHANGED <<user, reset>> /\ lock' = Unlocked(r)
    BY <2>1, <2>2, RowsRead
  <2>3. CASE Wrote(r) /\ req[r].pc = "inserted"
    BY <2>1, <2>3, RowsCreated DEF Wrote
  <2>4. CASE Wrote(r) /\ req[r].pc = "update"
    BY <2>1, <2>4, RowsUpdated DEF Wrote
  <2> QED BY <1>5, <2>2, <2>3, <2>4 DEF RequestFails, Wrote
<1>6. CASE UNCHANGED <<user, lock, req, reset>>
  BY <1>6 DEF Rows, RowsOfRequests, OneAccountPerEmail, InsertedAlone, LocksOfCommands,
              ResetsHaveRows, RegistrationTruthful, AdminStands, WithEmail, EmailOf, NormalizeEmail
<1> QED BY <1>1, <1>2, <1>3, <1>4, <1>5, <1>6, RowsDeactivated
        DEF Next, RequestStep, ReadAccount, VerifyPassword, GetCurrentUser, DecodeToken, Tick, vars

-----------------------------------------------------------------------------
(* Types and tokens. *)

\* A request keeps its type when it moves on or is answered.
LEMMA ReqTypes ==
    ASSUME TypeOK, NEW r \in Requests
    PROVE  /\ \A a \in Answers : Answered(r, a) => req' \in [Requests -> ReqState]
           /\ \A c \in {"insert", "inserted", "update"} :
                 [req EXCEPT ![r].pc = c] \in [Requests -> ReqState]
<1>1. ASSUME NEW a \in Answers, Answered(r, a) PROVE req' \in [Requests -> ReqState]
  <2>1. [pc |-> "done", answer |-> a] \in ReqState
    BY DEF ReqState
  <2> QED BY <1>1, <2>1 DEF Answered, TypeOK
<1>2. ASSUME NEW c \in {"insert", "inserted", "update"}
      PROVE  [req EXCEPT ![r].pc = c] \in [Requests -> ReqState]
  BY DEF TypeOK, ReqState
<1> QED BY <1>1, <1>2

\* What a committing request writes is well typed.
LEMMA WroteTypes ==
    ASSUME TypeOK, Rows, NEW r \in Requests, Wrote(r)
    PROVE  /\ user' \in [Requests -> UserRow \cup {NoUser}]
           /\ lock' \in [Requests -> Requests \cup {NoUser}]
           /\ reset' \in [Emails -> Passwords \cup {NoAnswer}]
<1>1. CASE user' = [user EXCEPT ![r] = NewRow(r)]
  <2>1. NewRow(r) \in UserRow
    BY EmailIn DEF NewRow, UserRow
  <2>2. user' \in [Requests -> UserRow \cup {NoUser}]
    BY <1>1, <2>1 DEF TypeOK
  <2> QED BY <2>2, EmailIn DEF Wrote, Unlocked, TypeOK
<1>2. CASE user' = [i \in Requests |->
                       IF lock[i] = r
                       THEN [user[i] EXCEPT !.password = Password[r], !.role = "admin", !.active = TRUE]
                       ELSE user[i]]
  <2>1. ASSUME NEW i \in Requests PROVE user'[i] \in UserRow \cup {NoUser}
    <3>1. CASE lock[i] = r
      <4>1. user[i] \in UserRow
        BY <3>1, AbsentAssumption DEF Rows, LocksOfCommands, TypeOK
      <4>2. user'[i] = [user[i] EXCEPT !.password = Password[r], !.role = "admin", !.active = TRUE]
        BY <1>2, <3>1
      <4> QED BY <4>1, <4>2, EmailIn DEF UserRow
    <3>2. CASE lock[i] # r
      BY <1>2, <3>2 DEF TypeOK
    <3> QED BY <3>1, <3>2
  <2>2. user' \in [Requests -> UserRow \cup {NoUser}]
    BY <1>2, <2>1
  <2> QED BY <2>2, EmailIn DEF Wrote, Unlocked, TypeOK
<1> QED BY <1>1, <1>2 DEF Wrote

\* Registrations, commands and the operator write what the tables may hold.
LEMMA RequestTypes ==
    ASSUME TypeOK, Rows, NEW r \in Requests,
           RequestStep(r) \/ RequestFails(r) \/ Deactivate(r)
    PROVE  TypeOK'
<1>0. Unlocked(r) \in [Requests -> Requests \cup {NoUser}]
  BY DEF Unlocked, TypeOK
<1>1. CASE Lookup(r)
  <2>1. req' \in [Requests -> ReqState]
    BY <1>1, ReqTypes DEF Lookup, Answers
  <2> QED BY <1>1, <2>1 DEF Lookup, TypeOK
<1>2. CASE SelectForUpdate(r)
  <2>1. req' \in [Requests -> ReqState]
    BY <1>2, ReqTypes DEF SelectForUpdate
  <2>2. lock' \in [Requests -> Requests \cup {NoUser}]
    BY <1>2 DEF SelectForUpdate, TypeOK
  <2> QED BY <1>2, <2>1, <2>2 DEF SelectForUpdate, TypeOK
<1>3. CASE FlushInsert(r)
  <2>1. req' \in [Requests -> ReqState]
    BY <1>3, ReqTypes DEF FlushInsert, Answers
  <2> QED BY <1>3, <2>1 DEF FlushInsert, TypeOK
<1>4. CASE CommitRequest(r)
  <2>1. req' \in [Requests -> ReqState]
    BY <1>4, ReqTypes DEF CommitRequest, Answers
  <2> QED BY <1>4, <2>1, WroteTypes DEF CommitRequest, TypeOK
<1>5. CASE RequestFails(r)
  <2>1. req' \in [Requests -> ReqState]
    BY <1>5, ReqTypes DEF RequestFails, Answers
  <2>2. CASE Wrote(r)
    BY <1>5, <2>1, <2>2, WroteTypes DEF RequestFails, TypeOK
  <2>3. CASE UNCHANGED <<user, reset>> /\ lock' = Unlocked(r)
    BY <1>0, <1>5, <2>1, <2>3 DEF RequestFails, TypeOK
  <2> QED BY <1>5, <2>2, <2>3 DEF RequestFails
<1>6. CASE Deactivate(r)
  <2>1. user[r] \in UserRow /\ user' = [user EXCEPT ![r] = [user[r] EXCEPT !.active = FALSE]]
    BY <1>6 DEF Deactivate, TypeOK
  <2>2. [user[r] EXCEPT !.active = FALSE] \in UserRow
    BY <2>1 DEF UserRow
  <2>3. user' \in [Requests -> UserRow \cup {NoUser}]
    BY <2>1, <2>2 DEF TypeOK
  <2> QED BY <1>6, <2>3 DEF Deactivate, TypeOK
<1> QED BY <1>1, <1>2, <1>3, <1>4, <1>5, <1>6 DEF RequestStep

\* A token expires no later than its client was told, although exp is cut to
\* whole seconds.
LEMMA TokenExpiry ==
    ASSUME TypeOK, TokensWellFormed, NEW l \in Logins, login[l].pc = "verify"
    PROVE  /\ CreateAccessToken(l) \in Token
           /\ CreateAccessToken(l).exp * 2 <= CreateAccessToken(l).until
<1>1. login[l].id \in Requests /\ login[l].row \in UserRow
  BY DEF TokensWellFormed
<1>2. PICK t \in Nat : t = now + TokenTtl
  BY AccountsAssumption DEF TypeOK
<1>3. t \div 2 \in Nat /\ (t \div 2) * 2 <= t
  OBVIOUS
<1> QED BY <1>1, <1>2, <1>3 DEF CreateAccessToken, Token, UserRow

\* Logins and calls keep their types and what they know of their tokens.
LEMMA TokenStep ==
    ASSUME TypeOK, Rows, TokensWellFormed, [Next]_vars
    PROVE  TypeOK' /\ TokensWellFormed'
<1>0. ASSUME UNCHANGED <<login, call>> PROVE TokensWellFormed'
  BY <1>0 DEF TokensWellFormed
<1>1. ASSUME NEW r \in Requests, RequestStep(r) \/ RequestFails(r) \/ Deactivate(r)
      PROVE  TypeOK' /\ TokensWellFormed'
  <2>1. UNCHANGED <<login, call>>
    BY <1>1 DEF RequestStep, RequestFails, Deactivate, Lookup, SelectForUpdate, FlushInsert, CommitRequest
  <2> QED BY <1>0, <1>1, <2>1, RequestTypes
<1>2. ASSUME NEW l \in Logins, NEW s \in Spellings, ReadAccount(l, s)
      PROVE  TypeOK' /\ TokensWellFormed'
  <2> DEFINE found == WithEmail(NormalizeEmail(s))
  <2>1. UNCHANGED <<user, lock, req, call, now, reset, faults>> /\ login[l] \in LoginState
    BY <1>2 DEF ReadAccount, TypeOK
  <2>2. PICK new : login' = [login EXCEPT ![l] = new] /\
           new = IF found = {} THEN [login[l] EXCEPT !.pc = "done"]
                 ELSE LET i == CHOOSE i \in found : TRUE
                      IN [login[l] EXCEPT !.pc = "verify", !.id = i, !.row = user[i]]
    BY <1>2 DEF ReadAccount, TypeOK
  <2>3. /\ new \in LoginState /\ new.token = login[l].token
        /\ new.pc = "verify" => new.id \in Requests /\ new.row \in UserRow
    <3>1. CASE found = {}
      BY <2>1, <2>2, <3>1 DEF LoginState
    <3>2. CASE found # {}
      <4>1. PICK i \in found : i = CHOOSE k \in found : TRUE
        BY <3>2
      <4>2. i \in Requests /\ user[i] \in UserRow
        BY <4>1 DEF WithEmail, TypeOK
      <4>3. new = [login[l] EXCEPT !.pc = "verify", !.id = i, !.row = user[i]]
        BY <2>2, <3>2, <4>1
      <4> QED BY <2>1, <4>2, <4>3 DEF LoginState
    <3> QED BY <3>1, <3>2
  <2>4. login'[l] = new /\ (\A k \in Logins : k # l => login'[k] = login[k])
        /\ login' \in [Logins -> LoginState]
    BY <2>2, <2>3 DEF TypeOK
  <2> QED BY <2>1, <2>3, <2>4 DEF TypeOK, TokensWellFormed
<1>3. ASSUME NEW l \in Logins, NEW p \in Passwords, VerifyPassword(l, p)
      PROVE  TypeOK' /\ TokensWellFormed'
  <2>1. /\ UNCHANGED <<user, lock, req, call, now, reset, faults>>
        /\ login[l] \in LoginState /\ login[l].pc = "verify"
    BY <1>3 DEF VerifyPassword, TypeOK
  <2>2. PICK t : t = IF login[l].row.password = p /\ login[l].row.active
                     THEN CreateAccessToken(l) ELSE NoToken
    OBVIOUS
  <2>3. t \in Token \cup {NoToken} /\ (t # NoToken => t.exp * 2 <= t.until)
    BY <2>1, <2>2, TokenExpiry
  <2>4. login' = [login EXCEPT ![l] = [login[l] EXCEPT !.pc = "done", !.token = t]]
    BY <1>3, <2>2 DEF VerifyPassword, TypeOK, LoginState
  <2>5. PICK new : new = [login[l] EXCEPT !.pc = "done", !.token = t]
    OBVIOUS
  <2>6. new \in LoginState /\ new.pc = "done" /\ new.token = t
    BY <2>1, <2>3, <2>5 DEF LoginState
  <2>7. login'[l] = new /\ (\A k \in Logins : k # l => login'[k] = login[k])
        /\ login' \in [Logins -> LoginState]
    BY <2>4, <2>5, <2>6 DEF TypeOK
  <2> QED BY <2>1, <2>3, <2>6, <2>7 DEF TypeOK, TokensWellFormed
<1>4. ASSUME NEW c \in Calls, GetCurrentUser(c) PROVE TypeOK' /\ TokensWellFormed'
  <2> DEFINE row == user[call[c].token.sub]
  <2>1. /\ UNCHANGED <<user, lock, req, login, now, reset, faults>>
        /\ call[c] \in CallState /\ call[c].pc = "read"
    BY <1>4 DEF GetCurrentUser, TypeOK
  <2>2. row \in UserRow \cup {NoUser}
    BY <2>1 DEF TokensWellFormed, Token, TypeOK
  <2>3. PICK new : call' = [call EXCEPT ![c] = new] /\
           new = IF row # NoUser /\ row.active
                 THEN [call[c] EXCEPT !.pc = "granted", !.role = row.role]
                 ELSE [call[c] EXCEPT !.pc = "refused"]
    BY <1>4 DEF GetCurrentUser, TypeOK
  <2>4. new \in CallState /\ new.pc # "read"
    BY <2>1, <2>2, <2>3 DEF CallState, UserRow
  <2>5. call'[c] = new /\ (\A k \in Calls : k # c => call'[k] = call[k])
        /\ call' \in [Calls -> CallState]
    BY <2>3, <2>4 DEF TypeOK
  <2> QED BY <2>1, <2>4, <2>5 DEF TypeOK, TokensWellFormed
<1>5. ASSUME NEW c \in Calls, NEW l \in Logins, DecodeToken(c, l) PROVE TypeOK' /\ TokensWellFormed'
  <2>1. /\ UNCHANGED <<user, lock, req, login, now, reset, faults>>
        /\ call[c] \in CallState /\ login[l].token \in Token
    BY <1>5 DEF DecodeToken, TypeOK, LoginState
  <2>2. PICK new : call' = [call EXCEPT ![c] = new] /\
           new = IF login[l].token.exp * 2 <= now THEN [call[c] EXCEPT !.pc = "refused"]
                 ELSE [call[c] EXCEPT !.pc = "read", !.token = login[l].token]
    BY <1>5 DEF DecodeToken, TypeOK
  <2>3. new \in CallState /\ (new.pc = "read" => new.token \in Token)
    BY <2>1, <2>2 DEF CallState
  <2>4. call'[c] = new /\ (\A k \in Calls : k # c => call'[k] = call[k])
        /\ call' \in [Calls -> CallState]
    BY <2>2, <2>3 DEF TypeOK
  <2> QED BY <2>1, <2>3, <2>4 DEF TypeOK, TokensWellFormed
<1>6. CASE Tick
  BY <1>0, <1>6 DEF Tick, TypeOK
<1>7. CASE UNCHANGED vars
  BY <1>0, <1>7 DEF vars, TypeOK
<1> QED BY <1>1, <1>2, <1>3, <1>4, <1>5, <1>6, <1>7 DEF Next

-----------------------------------------------------------------------------
(* The theorems. *)

\* The invariant holds in the empty database.
LEMMA AccountsInit == Init => Inductive
<1> SUFFICES ASSUME Init PROVE Inductive
  OBVIOUS
<1>0. /\ \A r \in Requests : /\ user[r] = NoUser /\ lock[r] = NoUser
                              /\ req[r].pc = "start" /\ req[r].answer = NoAnswer
      /\ \A e \in Emails : reset[e] = NoAnswer
      /\ \A l \in Logins : login[l].pc = "start" /\ login[l].token = NoToken
      /\ \A c \in Calls : call[c].pc = "start"
  BY DEF Init
<1>1. TypeOK
  <2>1. req \in [Requests -> ReqState]
    BY DEF Init, ReqState
  <2>2. login \in [Logins -> LoginState]
    BY DEF Init, LoginState
  <2>3. call \in [Calls -> CallState]
    BY DEF Init, CallState
  <2> QED BY <2>1, <2>2, <2>3 DEF Init, TypeOK
<1>2. RowsOfRequests /\ OneAccountPerEmail /\ AdminStands /\ ResetsHaveRows
  BY <1>0 DEF RowsOfRequests, OneAccountPerEmail, AdminStands, ResetsHaveRows
<1>3. InsertedAlone /\ LocksOfCommands /\ TokensWellFormed
  BY <1>0 DEF InsertedAlone, LocksOfCommands, TokensWellFormed
<1>4. RegistrationTruthful
  BY <1>0, AbsentAssumption DEF RegistrationTruthful, Requests, Answers
<1> QED BY <1>1, <1>2, <1>3, <1>4 DEF Inductive

\* Every step keeps the invariant.
LEMMA AccountsStep == Inductive /\ [Next]_vars => Inductive'
BY RowsStep, TokenStep DEF Inductive, Rows

\* The inductive invariant of accounts and tokens.
LEMMA AccountsInvariant == Spec => []Inductive
BY AccountsInit, AccountsStep, PTL DEF Spec

\* Every variable of the accounts model keeps its type: a row is complete when
\* it is committed, a login never signs a token for a row it has not read.
THEOREM AccountsTypeCorrect == Spec => []TypeOK
BY AccountsInvariant, PTL DEF Inductive

\* However an address is typed, and however many registrations and create_admin
\* commands race for it, it has one account.
THEOREM UniqueAccount == Spec => []OneAccountPerEmail
BY AccountsInvariant, PTL DEF Inductive

\* What register_user answers is true: a duplicate has an account, and a created
\* account exists with its password unless create_admin took the address over.
THEOREM TruthfulAnswers == Spec => []RegistrationTruthful
BY AccountsInvariant, PTL DEF Inductive

\* A registration never yields an administrator, and none undoes what a
\* create_admin command has committed.
THEOREM AdminsStand == Spec => []AdminStands
BY AccountsInvariant, PTL DEF Inductive

\* get_current_user grants what the account is worth when the token is used, and
\* no token is accepted after the expires_at its client was told.
THEOREM TokensFollow == Spec => TokensFollowAccount
<1>1. ASSUME Inductive, [Next]_vars, NEW c \in Calls
      PROVE  /\ (call[c].pc = "read" /\ call'[c].pc = "granted") =>
                  LET row == user[call[c].token.sub] IN row.active /\ call'[c].role = row.role
             /\ (call[c].pc = "start" /\ call'[c].pc = "read") => now < call'[c].token.until
  <2> DEFINE Goal == /\ (call[c].pc = "read" /\ call'[c].pc = "granted") =>
                          LET row == user[call[c].token.sub]
                          IN row.active /\ call'[c].role = row.role
                     /\ (call[c].pc = "start" /\ call'[c].pc = "read") => now < call'[c].token.until
  <2>0. TypeOK /\ TokensWellFormed
    BY <1>1 DEF Inductive
  <2>1. CASE call'[c] = call[c]
    BY <2>1
  <2>2. CASE GetCurrentUser(c)
    <3>1. call[c] \in CallState /\ call[c].pc = "read" /\ user[call[c].token.sub] \in UserRow \cup {NoUser}
      BY <2>0, <2>2 DEF GetCurrentUser, TypeOK, TokensWellFormed, Token
    <3>2. call'[c] = IF user[call[c].token.sub] # NoUser /\ user[call[c].token.sub].active
                     THEN [call[c] EXCEPT !.pc = "granted", !.role = user[call[c].token.sub].role]
                     ELSE [call[c] EXCEPT !.pc = "refused"]
      BY <2>0, <2>2 DEF GetCurrentUser, TypeOK
    <3>3. CASE user[call[c].token.sub] # NoUser /\ user[call[c].token.sub].active
      <4>1. call'[c] = [call[c] EXCEPT !.pc = "granted", !.role = user[call[c].token.sub].role]
        BY <3>2, <3>3
      <4>2. call'[c].role = user[call[c].token.sub].role
        BY <3>1, <4>1 DEF CallState
      <4> QED BY <3>1, <3>3, <4>2
    <3>4. CASE ~(user[call[c].token.sub] # NoUser /\ user[call[c].token.sub].active)
      <4>1. call'[c] = [call[c] EXCEPT !.pc = "refused"]
        BY <3>2, <3>4
      <4>2. call'[c].pc = "refused"
        BY <3>1, <4>1 DEF CallState
      <4> QED BY <4>2
    <3> QED BY <3>3, <3>4
  <2>3. ASSUME NEW l \in Logins, DecodeToken(c, l) PROVE Goal
    <3>1. /\ call[c] \in CallState /\ call[c].pc = "start"
          /\ login[l].token \in Token /\ login[l].token.exp * 2 <= login[l].token.until
      BY <2>0, <2>3 DEF DecodeToken, TypeOK, LoginState, TokensWellFormed
    <3>2. call'[c] = IF login[l].token.exp * 2 <= now THEN [call[c] EXCEPT !.pc = "refused"]
                     ELSE [call[c] EXCEPT !.pc = "read", !.token = login[l].token]
      BY <2>0, <2>3 DEF DecodeToken, TypeOK
    <3>3. CASE login[l].token.exp * 2 <= now
      <4>1. call'[c] = [call[c] EXCEPT !.pc = "refused"]
        BY <3>2, <3>3
      <4>2. call'[c].pc = "refused"
        BY <3>1, <4>1 DEF CallState
      <4> QED BY <4>2
    <3>4. CASE ~(login[l].token.exp * 2 <= now)
      <4>1. call'[c] = [call[c] EXCEPT !.pc = "read", !.token = login[l].token]
        BY <3>2, <3>4
      <4>2. call'[c].token = login[l].token /\ call'[c].pc = "read"
        BY <3>1, <4>1 DEF CallState
      <4>3. now \in Nat /\ login[l].token.exp \in Nat /\ login[l].token.until \in Nat
        BY <2>0, <3>1 DEF TypeOK, Token
      <4>4. now < login[l].token.until
        BY <3>1, <3>4, <4>3
      <4> QED BY <3>1, <4>2, <4>4
    <3> QED BY <3>3, <3>4
  <2>4. ASSUME NEW d \in Calls, d # c, GetCurrentUser(d) \/ \E l \in Logins : DecodeToken(d, l)
        PROVE  call'[c] = call[c]
    BY <2>0, <2>4 DEF GetCurrentUser, DecodeToken, TypeOK
  <2>5. \/ call'[c] = call[c]
        \/ \E d \in Calls : GetCurrentUser(d) \/ \E l \in Logins : DecodeToken(d, l)
    BY <1>1 DEF Next, RequestStep, RequestFails, Deactivate, Lookup, SelectForUpdate, FlushInsert,
                CommitRequest, ReadAccount, VerifyPassword, Tick, vars
  <2> HIDE DEF Goal
  <2>6. Goal
    <3>1. call'[c] = call[c] => Goal
      BY <2>1 DEF Goal
    <3>2. GetCurrentUser(c) => Goal
      BY <2>2 DEF Goal
    <3> QED BY <2>3, <2>4, <2>5, <3>1, <3>2
  <2> QED BY <2>6 DEF Goal
<1>2. Inductive /\ [Next]_vars =>
        [\A c \in Calls :
          /\ (call[c].pc = "read" /\ call'[c].pc = "granted") =>
                LET row == user[call[c].token.sub] IN row.active /\ call'[c].role = row.role
          /\ (call[c].pc = "start" /\ call'[c].pc = "read") => now < call'[c].token.until]_vars
  BY <1>1
<1> QED BY <1>2, AccountsInvariant, PTL DEF Spec, TokensFollowAccount
=============================================================================
