------------------------------- MODULE Accounts -------------------------------
(***************************************************************************)
(* Accounts and access tokens: public registration and the create_admin    *)
(* command, which race for an e-mail address; logins, which issue tokens;  *)
(* and the check of a token at the start of every API call.                *)
(*                                                                         *)
(* Transactions are split where others can see or block them: the lookup,  *)
(* the INSERT that waits for another transaction inserting the same        *)
(* address, the commit.  Hashes are abstracted to the passwords.           *)
(*                                                                         *)
(* No code in the repository deactivates a user; Deactivate stands for the *)
(* operator who clears is_active in the database.                          *)
(***************************************************************************)
EXTENDS Naturals

CONSTANTS
    Registrations, Commands,  \* POST /auth/register, create_admin
    Spellings, Emails,        \* addresses as typed and as stored
    Normal,                   \* strip().lower()
    Typed, Password,          \* what each registration and command is given
    Logins, Calls,            \* POST /auth/login, any call with a bearer token
    TokenTtl,                 \* ACCESS_TOKEN_TTL_MINUTES
    MaxTime,                  \* bound on the clock
    MaxFaults,                \* bound on database errors
    NoUser, NoAnswer, NoToken

Requests == Registrations \cup Commands
Passwords == {Password[r] : r \in Requests}

ASSUME AccountsAssumption ==
    /\ Registrations \cap Commands = {}
    /\ Normal \in [Spellings -> Emails]
    /\ Typed \in [Requests -> Spellings]
    /\ TokenTtl \in Nat /\ MaxTime \in Nat /\ MaxFaults \in Nat
    /\ NoAnswer \notin Passwords

VARIABLES
    user,   \* committed rows of users; a row is named after the request that
            \* inserted it, whose uuid4 it carries
    lock,   \* row locks on users
    req,    \* registrations and commands
    login, call,
    now,    \* in half seconds
    reset,  \* history: the password of the last command committed for an address
    faults

vars == <<user, lock, req, login, call, now, reset, faults>>

Answers == {"created", "duplicate", "updated", "error"}

UserRow == [email : Emails, password : Passwords, role : {"user", "admin"}, active : BOOLEAN]

\* exp is in whole seconds, until is the expires_at the client is told.
Token == [sub : Requests, role : {"user", "admin"}, exp : Nat, until : Nat]

ASSUME AbsentAssumption ==
    /\ NoUser \notin UserRow /\ NoUser \notin Requests
    /\ NoToken \notin Token /\ NoAnswer \notin Answers

ReqState == [pc : {"start", "insert", "inserted", "update", "done"},
             answer : Answers \cup {NoAnswer}]
LoginState == [pc : {"start", "verify", "done"}, id : Requests \cup {NoUser},
               row : UserRow \cup {NoUser}, token : Token \cup {NoToken}]
CallState == [pc : {"start", "read", "granted", "refused"},
              token : Token \cup {NoToken}, role : {"none", "user", "admin"}]

Init ==
    /\ user = [r \in Requests |-> NoUser]
    /\ lock = [r \in Requests |-> NoUser]
    /\ req = [r \in Requests |-> [pc |-> "start", answer |-> NoAnswer]]
    /\ login = [l \in Logins |-> [pc |-> "start", id |-> NoUser, row |-> NoUser, token |-> NoToken]]
    /\ call = [c \in Calls |-> [pc |-> "start", token |-> NoToken, role |-> "none"]]
    /\ now = 0
    /\ reset = [e \in Emails |-> NoAnswer]
    /\ faults = 0

-----------------------------------------------------------------------------
(* Registration and the admin command. *)

\* Mutant of NormalizeEmail: spaces are stripped, case is kept.
KeepSpelling(s) == s

NormalizeEmail(s) == Normal[s]

EmailOf(r) == NormalizeEmail(Typed[r])

\* get_by_email: a committed row.
WithEmail(e) == {i \in Requests : user[i] # NoUser /\ user[i].email = e}

Answered(r, a) == req' = [req EXCEPT ![r] = [pc |-> "done", answer |-> a]]

Unlocked(r) == [i \in Requests |-> IF lock[i] = r THEN NoUser ELSE lock[i]]

\* register_user's look at the table.
Lookup(r) ==
    /\ r \in Registrations
    /\ req[r].pc = "start"
    /\ IF WithEmail(EmailOf(r)) # {} THEN Answered(r, "duplicate")
       ELSE req' = [req EXCEPT ![r].pc = "insert"]
    /\ UNCHANGED <<user, lock, login, call, now, reset, faults>>

\* SELECT ... FOR UPDATE waits for another command's lock, but an address that
\* is not committed yet gives it nothing to lock.
SelectForUpdate(r) ==
    /\ r \in Commands
    /\ req[r].pc = "start"
    /\ \/ /\ WithEmail(EmailOf(r)) = {}
          /\ req' = [req EXCEPT ![r].pc = "insert"]
          /\ UNCHANGED lock
       \/ \E i \in WithEmail(EmailOf(r)) :
             /\ lock[i] = NoUser
             /\ lock' = [lock EXCEPT ![i] = r]
             /\ req' = [req EXCEPT ![r].pc = "update"]
    /\ UNCHANGED <<user, login, call, now, reset, faults>>

\* Mutant of FlushInsert: the address of a transaction in flight counts as taken.
InsertDoesNotWait(r) ==
    /\ req[r].pc = "insert"
    /\ IF \/ WithEmail(EmailOf(r)) # {}
          \/ \E q \in Requests \ {r} : req[q].pc = "inserted" /\ EmailOf(q) = EmailOf(r)
       THEN Answered(r, IF r \in Registrations THEN "duplicate" ELSE "error")
       ELSE req' = [req EXCEPT ![r].pc = "inserted"]
    /\ UNCHANGED <<user, lock, login, call, now, reset, faults>>

\* The unique constraint on email: the INSERT waits for a transaction that has
\* inserted the address and not ended.  Only create_user turns the violation
\* into DuplicateEmailError.
FlushInsert(r) ==
    /\ req[r].pc = "insert"
    /\ ~\E q \in Requests \ {r} : req[q].pc = "inserted" /\ EmailOf(q) = EmailOf(r)
    /\ IF WithEmail(EmailOf(r)) = {} THEN req' = [req EXCEPT ![r].pc = "inserted"]
       ELSE Answered(r, IF r \in Registrations THEN "duplicate" ELSE "error")
    /\ UNCHANGED <<user, lock, login, call, now, reset, faults>>

\* Mutant of NewRow: create_admin forgets the role when it has to insert.
NewRowIsUser(r) == [email |-> EmailOf(r), password |-> Password[r], active |-> TRUE, role |-> "user"]

\* Mutant of NewRow: the hash is not stored.
NewRowWithoutHash(r) == [email |-> EmailOf(r), password |-> NoAnswer, active |-> TRUE,
                         role |-> IF r \in Registrations THEN "user" ELSE "admin"]

NewRow(r) == [email |-> EmailOf(r), password |-> Password[r], active |-> TRUE,
              role |-> IF r \in Registrations THEN "user" ELSE "admin"]

Wrote(r) ==
    /\ \/ /\ req[r].pc = "inserted"
          /\ user' = [user EXCEPT ![r] = NewRow(r)]
       \/ /\ req[r].pc = "update"
          /\ user' = [i \in Requests |->
                         IF lock[i] = r
                         THEN [user[i] EXCEPT !.password = Password[r], !.role = "admin",
                                              !.active = TRUE]
                         ELSE user[i]]
    /\ reset' = IF r \in Commands THEN [reset EXCEPT ![EmailOf(r)] = Password[r]] ELSE reset
    /\ lock' = Unlocked(r)

\* Mutant of CommitRequest: the command leaves its transaction open.
CommitKeepsLock(r) ==
    /\ req[r].pc \in {"inserted", "update"}
    /\ user' = [i \in Requests |-> IF i = r /\ req[r].pc = "inserted" THEN NewRow(r) ELSE user[i]]
    /\ Answered(r, IF req[r].pc = "inserted" THEN "created" ELSE "updated")
    /\ UNCHANGED <<lock, login, call, now, reset, faults>>

CommitRequest(r) ==
    /\ Wrote(r)
    /\ Answered(r, IF req[r].pc = "inserted" THEN "created" ELSE "updated")
    /\ UNCHANGED <<login, call, now, faults>>

\* A database error: the transaction is rolled back, or its COMMIT was applied
\* and reported as failed.
RequestFails(r) ==
    /\ req[r].pc # "done"
    /\ faults < MaxFaults
    /\ faults' = faults + 1
    /\ \/ UNCHANGED <<user, reset>> /\ lock' = Unlocked(r)
       \/ Wrote(r)
    /\ Answered(r, "error")
    /\ UNCHANGED <<login, call, now>>

Deactivate(i) ==
    /\ user[i] # NoUser
    /\ user[i].active
    /\ lock[i] = NoUser
    /\ user' = [user EXCEPT ![i].active = FALSE]
    /\ UNCHANGED <<lock, req, login, call, now, reset, faults>>

-----------------------------------------------------------------------------
(* Tokens. *)

Tick ==
    /\ now < MaxTime
    /\ now' = now + 1
    /\ UNCHANGED <<user, lock, req, login, call, reset, faults>>

\* login_user copies the row and ends the transaction ...
ReadAccount(l, s) ==
    LET found == WithEmail(NormalizeEmail(s)) IN
    /\ login[l].pc = "start"
    /\ login' = [login EXCEPT ![l] =
           IF found = {} THEN [@ EXCEPT !.pc = "done"]
           ELSE LET i == CHOOSE i \in found : TRUE
                IN [@ EXCEPT !.pc = "verify", !.id = i, !.row = user[i]]]
    /\ UNCHANGED <<user, lock, req, call, now, reset, faults>>

\* int(expires_at.timestamp()) cuts the fraction off.
CreateAccessToken(l) ==
    [sub |-> login[l].id, role |-> login[l].row.role,
     exp |-> (now + TokenTtl) \div 2, until |-> now + TokenTtl]

\* ... before the password is verified against the copy.
VerifyPassword(l, p) ==
    /\ login[l].pc = "verify"
    /\ login' = [login EXCEPT ![l].pc = "done",
                              ![l].token = IF login[l].row.password = p /\ login[l].row.active
                                           THEN CreateAccessToken(l) ELSE NoToken]
    /\ UNCHANGED <<user, lock, req, call, now, reset, faults>>

\* decode_access_token; PyJWT refuses a token from the second exp on.
DecodeToken(c, l) ==
    /\ call[c].pc = "start"
    /\ login[l].token # NoToken
    /\ call' = [call EXCEPT ![c] =
           IF login[l].token.exp * 2 <= now THEN [@ EXCEPT !.pc = "refused"]
           ELSE [@ EXCEPT !.pc = "read", !.token = login[l].token]]
    /\ UNCHANGED <<user, lock, req, login, now, reset, faults>>

\* Mutant of GetCurrentUser: the role is taken from the token.
TrustClaims(c) ==
    /\ call[c].pc = "read"
    /\ call' = [call EXCEPT ![c].pc = "granted", ![c].role = call[c].token.role]
    /\ UNCHANGED <<user, lock, req, login, now, reset, faults>>

\* get_current_user: the row decides, the token only names it.
GetCurrentUser(c) ==
    LET row == user[call[c].token.sub] IN
    /\ call[c].pc = "read"
    /\ call' = [call EXCEPT ![c] =
           IF row # NoUser /\ row.active
           THEN [@ EXCEPT !.pc = "granted", !.role = row.role]
           ELSE [@ EXCEPT !.pc = "refused"]]
    /\ UNCHANGED <<user, lock, req, login, now, reset, faults>>

-----------------------------------------------------------------------------
RequestStep(r) == Lookup(r) \/ SelectForUpdate(r) \/ FlushInsert(r) \/ CommitRequest(r)

Next ==
    \/ \E r \in Requests : RequestStep(r) \/ RequestFails(r) \/ Deactivate(r)
    \/ \E l \in Logins : \/ \E s \in Spellings : ReadAccount(l, s)
                         \/ \E p \in Passwords : VerifyPassword(l, p)
    \/ \E c \in Calls : GetCurrentUser(c) \/ \E l \in Logins : DecodeToken(c, l)
    \/ Tick

Spec == Init /\ [][Next]_vars

\* The processes run what can run, and PostgreSQL queues those that wait for a
\* lock; nobody has to log in.
FairSpec == Spec /\ \A r \in Requests : SF_vars(RequestStep(r))

TypeOK ==
    /\ user \in [Requests -> UserRow \cup {NoUser}]
    /\ lock \in [Requests -> Requests \cup {NoUser}]
    /\ req \in [Requests -> ReqState]
    /\ login \in [Logins -> LoginState]
    /\ call \in [Calls -> CallState]
    /\ now \in Nat
    /\ reset \in [Emails -> Passwords \cup {NoAnswer}]
    /\ faults \in Nat

-----------------------------------------------------------------------------
(* Properties. *)

\* However an address is typed and whoever inserts it at the same time, it has
\* one account.
OneAccountPerEmail ==
    \A i, k \in Requests :
        user[i] # NoUser /\ user[k] # NoUser /\ Normal[Typed[i]] = Normal[Typed[k]] => i = k

\* What a registration is told is true: refused as a duplicate, there is an
\* account; told it was created, its account exists with its password, unless
\* an administrator has taken the address over.
RegistrationTruthful ==
    \A r \in Registrations :
        /\ req[r].answer = "duplicate" => WithEmail(EmailOf(r)) # {}
        /\ req[r].answer = "created" =>
              /\ user[r] # NoUser
              /\ user[r].password = Password[r] \/ reset[EmailOf(r)] # NoAnswer

\* "Public registration always creates a user with role `user`"
\* (routes/auth.py:20), and no registration undoes what a create_admin command
\* has committed: its account is an administrator's and has its password.
AdminStands ==
    \A i \in Requests : user[i] # NoUser =>
        LET p == reset[user[i].email] IN
        IF p = NoAnswer THEN user[i].role = "user"
        ELSE user[i].role = "admin" /\ user[i].password = p

\* A token is worth what the account is worth when it is used: an account that
\* was deactivated, or promoted, after the token was issued is treated as it is
\* now (get_current_user), and a token never outlives the expires_at its client
\* was told, although exp is cut to seconds.
TokensFollowAccount ==
    [][\A c \in Calls :
          /\ (call[c].pc = "read" /\ call'[c].pc = "granted") =>
                LET row == user[call[c].token.sub] IN row.active /\ call'[c].role = row.role
          /\ (call[c].pc = "start" /\ call'[c].pc = "read") => now < call'[c].token.until]_vars

\* Every registration and every command is answered, whoever else waits for the
\* same address.
EveryoneAnswered == \A r \in Requests : <>(req[r].pc = "done")

-----------------------------------------------------------------------------
(* The inductive invariant behind the safety properties. *)

\* A row carries the address of the request that inserted it, which is over.
RowsOfRequests ==
    \A i \in Requests : user[i] # NoUser => user[i].email = EmailOf(i) /\ req[i].pc = "done"

\* A request that has inserted and not committed is alone with its address.
InsertedAlone ==
    \A r \in Requests : req[r].pc = "inserted" =>
        /\ WithEmail(EmailOf(r)) = {}
        /\ \A q \in Requests \ {r} : req[q].pc = "inserted" => EmailOf(q) # EmailOf(r)

\* A locked row is about to be updated, by the command that has its address.
LocksOfCommands ==
    /\ \A i \in Requests : lock[i] # NoUser =>
          /\ lock[i] \in Commands
          /\ req[lock[i]].pc = "update"
          /\ user[i] # NoUser /\ user[i].email = EmailOf(lock[i])
    /\ \A r \in Requests : req[r].pc = "update" => r \in Commands /\ \E i \in Requests : lock[i] = r

\* An address a command has written has an account.
ResetsHaveRows == \A e \in Emails : reset[e] # NoAnswer => WithEmail(e) # {}

\* What a login copies and issues, and what a call takes from its token.
TokensWellFormed ==
    /\ \A l \in Logins :
          /\ login[l].pc = "verify" => login[l].id \in Requests /\ login[l].row \in UserRow
          /\ login[l].token # NoToken => login[l].token.exp * 2 <= login[l].token.until
    /\ \A c \in Calls : call[c].pc = "read" => call[c].token \in Token

Inductive ==
    /\ TypeOK
    /\ RowsOfRequests
    /\ OneAccountPerEmail
    /\ InsertedAlone
    /\ LocksOfCommands
    /\ ResetsHaveRows
    /\ RegistrationTruthful
    /\ AdminStands
    /\ TokensWellFormed
=============================================================================
