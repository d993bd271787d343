----------------------------- MODULE AuthService -----------------------------
(***************************************************************************)
(* application/auth_service.py behind api/v1/endpoints/auth.py: accounts,  *)
(* sessions, reset tokens and the ledger of attempts, changed by requests  *)
(* that run at the same time, each in one PostgreSQL transaction (READ     *)
(* COMMITTED) that db/deps.py ends after the request was answered.         *)
(*                                                                         *)
(* Requests are numbered as they arrive.  The session row a login inserts, *)
(* the token row a forgot-password inserts and the event a request records *)
(* are named after the request.  A step is at most one statement that      *)
(* writes or waits; what it writes stays with the transaction (tx) until   *)
(* the commit, and so do the locks on the rows it wrote.                   *)
(***************************************************************************)
EXTENDS Integers, FiniteSets

CONSTANTS
    MaxRequests,      \* bound: requests of a behaviour
    AtMost,           \* bound: how many of them there may be to each endpoint
    Emails,           \* identifiers, normalised
    Passwords,
    FirstPassword,    \* the password of accounts that exist from the start
    OldHashes,        \* whether those were hashed with parameters since changed
    Origins,          \* client addresses
    Unset,            \* what a request does not carry
    IdentifierLimit,  \* RATE_LIMITS, per identifier (the same for every action)
    OriginLimit,      \* RATE_LIMITS, per origin
    Window,           \* RATE_LIMIT_WINDOW
    Retention,        \* RATE_LIMIT_EVENT_RETENTION
    SessionTtl,       \* session_ttl_minutes
    ResetTtl,         \* password_reset_ttl_minutes
    MaxTime,          \* bound: the clock stops here
    MaxFaults         \* bound: transactions that fail

Endpoints == {"register", "login", "forgot_password", "reset_password", "me", "logout"}

Requests == 1..MaxRequests
Nobody == 0

ASSUME AuthAssumption ==
    /\ MaxRequests \in Nat
    /\ AtMost \in [Endpoints -> Nat]
    /\ FirstPassword \in Passwords
    /\ OldHashes \in BOOLEAN
    /\ Unset \notin Endpoints \cup {"ok", "refused", "limited", "error"}
    /\ Unset \notin Emails \cup Passwords \cup Origins
    /\ Unset \notin Requests
    /\ IdentifierLimit \in Nat \ {0}
    /\ OriginLimit \in Nat \ {0}
    /\ {Window, Retention, SessionTtl, ResetTtl} \subseteq Nat
    /\ Window <= Retention
    /\ MaxTime \in Nat
    /\ MaxFaults \in Nat

VARIABLES
    now,      \* the clock
    users,    \* auth_users: identifier -> row
    grants,   \* auth_sessions and auth_password_reset_tokens: request -> row
    events,   \* auth_rate_limit_events: the requests whose attempt is on record
    rowLock,  \* [Emails -> the open transaction that wrote the account's row]
    sent,     \* the reset requests whose e-mail left
    req,      \* [Requests -> what the client sent]
    pc,       \* [Requests -> where its handler is]
    since,    \* [Requests -> the now of its handler]
    tx,       \* [Requests -> what its transaction wrote, and rows it has yet to close]
    result,   \* [Requests -> what it was answered]
    before,   \* history: [Requests -> requests that were over when it arrived]
    faults    \* faults so far, for the bound

database == <<users, grants, events, rowLock>>
arrivals == <<req, since, before>>
vars == <<now, database, sent, arrivals, pc, tx, result, faults>>

\* What a transaction inserts or updates besides the rows it closes: the event,
\* the account, its password, the session or token the request asks for.
Write == {"event", "account", "password", "grant"}

Input == [kind : Endpoints \cup {Unset}, email : Emails \cup {Unset},
          password : Passwords \cup {Unset}, origin : Origins \cup {Unset},
          grant : Requests \cup {Unset}]

NoInput == [kind |-> Unset, email |-> Unset, password |-> Unset, origin |-> Unset,
            grant |-> Unset]
NoTx == [writes |-> {}, targets |-> {}, held |-> {}, until |-> 0]

Over == {"committed", "rolled_back", "failed"}
Places == {"new", "lookup", "insert", "update", "consume", "invalidate", "mail", "revoke",
           "commit"} \cup Over

User == [password : Passwords, stale : BOOLEAN]
Grant == [email : Emails, expires : Nat, closed : BOOLEAN]
Tx == [writes : SUBSET Write, targets : SUBSET Requests, held : SUBSET Requests, until : Nat]

\* Types, and what each kind of row is named after.
TypeOK ==
    /\ now \in Nat
    /\ DOMAIN users \subseteq Emails
    /\ users \in [DOMAIN users -> User]
    /\ DOMAIN grants \subseteq {r \in Requests : req[r].kind \in {"login", "forgot_password"}}
    /\ grants \in [DOMAIN grants -> Grant]
    /\ events \subseteq {r \in Requests : req[r].kind \in {"register", "login", "forgot_password"}}
    /\ rowLock \in [Emails -> Requests \cup {Nobody}]
    /\ sent \subseteq {r \in Requests : req[r].kind = "forgot_password"}
    /\ req \in [Requests -> Input]
    /\ pc \in [Requests -> Places]
    /\ since \in [Requests -> Nat]
    /\ tx \in [Requests -> Tx]
    /\ result \in [Requests -> {Unset, "ok", "refused", "limited", "error"}]
    /\ before \in [Requests -> SUBSET Requests]
    /\ faults \in 0..MaxFaults

\* A database in which some accounts exist.
Init ==
    /\ now = 0
    /\ \E founders \in SUBSET Emails :
          users = [e \in founders |-> [password |-> FirstPassword, stale |-> OldHashes]]
    /\ grants = [g \in {} |-> NoInput]
    /\ events = {}
    /\ rowLock = [e \in Emails |-> Nobody]
    /\ sent = {}
    /\ req = [r \in Requests |-> NoInput]
    /\ pc = [r \in Requests |-> "new"]
    /\ since = [r \in Requests |-> 0]
    /\ tx = [r \in Requests |-> NoTx]
    /\ result = [r \in Requests |-> Unset]
    /\ before = [r \in Requests |-> {}]
    /\ faults = 0

-----------------------------------------------------------------------------
(* Rows, locks, transactions *)

Kind(r) == req[r].kind
Email(r) == req[r].email

\* Committed rows of the user that no UPDATE closed (consumed_at, revoked_at).
OpenTokens(e) == {g \in DOMAIN grants : /\ Kind(g) = "forgot_password"
                                        /\ grants[g].email = e /\ ~grants[g].closed}
OpenSessions(e) == {g \in DOMAIN grants : /\ Kind(g) = "login"
                                          /\ grants[g].email = e /\ ~grants[g].closed}

\* The open transactions, r's aside, that updated row g.
Holders(r, g) == {q \in Requests \ {r} : g \in tx[q].held}

GoTo(r, place) == pc' = [pc EXCEPT ![r] = place]
Answer(r, said) == result' = [result EXCEPT ![r] = said]
Writes(r, rows) == tx' = [tx EXCEPT ![r].writes = @ \cup rows]

\* Mistake: the connection goes back to the pool with its transaction open.
LeaveOpen(r) == UNCHANGED <<rowLock, tx>>

\* The end of a transaction frees the rows it wrote.
Unlock(r) ==
    /\ rowLock' = [e \in Emails |-> IF rowLock[e] = r THEN Nobody ELSE rowLock[e]]
    /\ tx' = [tx EXCEPT ![r] = NoTx]

LockAccount(r) ==
    /\ rowLock[Email(r)] = Nobody
    /\ rowLock' = [rowLock EXCEPT ![Email(r)] = r]

IsNext(r) == pc[r] = "new" /\ \A q \in Requests : q < r => pc[q] # "new"

\* A request arrives and its handler reads the clock.
Arrive(r, input) ==
    /\ Cardinality({q \in Requests : Kind(q) = input.kind}) < AtMost[input.kind]
    /\ req' = [req EXCEPT ![r] = input]
    /\ since' = [since EXCEPT ![r] = now]
    /\ before' = [before EXCEPT ![r] = {q \in Requests : pc[q] \in Over}]

-----------------------------------------------------------------------------
(* Attempts *)

\* The attempts a new one is counted with: LOGIN counts failures only.
Counted(kind) ==
    {q \in events : /\ Kind(q) = kind
                    /\ since[q] >= now - Window
                    /\ kind = "login" => result[q] = "refused"}

\* Mistake: one attempt more than the limit of an origin.
IsRateLimitedLate(input) ==
    LET counted == Counted(input.kind) IN
    \/ Cardinality({q \in counted : Email(q) = input.email}) >= IdentifierLimit
    \/ Cardinality({q \in counted : req[q].origin = input.origin}) > OriginLimit

IsRateLimited(input) ==
    LET counted == Counted(input.kind) IN
    \/ Cardinality({q \in counted : Email(q) = input.email}) >= IdentifierLimit
    \/ Cardinality({q \in counted : req[q].origin = input.origin}) >= OriginLimit

\* What the throttled endpoints are sent, as their schemas let it through.
Attempts ==
    [kind : {"register", "login"}, email : Emails, password : Passwords,
     origin : Origins, grant : {Unset}]
    \cup [kind : {"forgot_password"}, email : Emails, password : {Unset},
          origin : Origins, grant : {Unset}]

\* RateLimitedError, 429: nothing was written.
Throttle(r) ==
    /\ IsNext(r)
    /\ \E input \in Attempts : Arrive(r, input) /\ IsRateLimited(input)
    /\ Answer(r, "limited")
    /\ GoTo(r, "committed")
    /\ UNCHANGED <<now, database, sent, tx, faults>>

Admit(r) ==
    /\ IsNext(r)
    /\ \E input \in Attempts : Arrive(r, input) /\ ~IsRateLimited(input)
    /\ GoTo(r, "lookup")
    /\ UNCHANGED <<now, database, sent, tx, result, faults>>

-----------------------------------------------------------------------------
(* register_user *)

\* The account exists: the attempt is recorded and nothing else.
RegisterKnown(r) ==
    /\ pc[r] = "lookup" /\ Kind(r) = "register"
    /\ Email(r) \in DOMAIN users
    /\ Writes(r, {"event"})
    /\ Answer(r, "ok")
    /\ GoTo(r, "commit")
    /\ UNCHANGED <<now, database, sent, arrivals, faults>>

RegisterNew(r) ==
    /\ pc[r] = "lookup" /\ Kind(r) = "register"
    /\ Email(r) \notin DOMAIN users
    /\ Writes(r, {"event"})
    /\ GoTo(r, "insert")
    /\ UNCHANGED <<now, database, sent, arrivals, result, faults>>

\* INSERT INTO auth_users waits for a transaction that inserted the same
\* identifier and is still open.
InsertUser(r) ==
    /\ pc[r] = "insert"
    /\ Email(r) \notin DOMAIN users
    /\ LockAccount(r)
    /\ Writes(r, {"account"})
    /\ Answer(r, "ok")
    /\ GoTo(r, "commit")
    /\ UNCHANGED <<now, users, grants, events, sent, arrivals, faults>>

\* Mistake: an insert that is still under way counts as an account.
LoseRaceEarly(r) ==
    /\ pc[r] = "insert"
    /\ Email(r) \in DOMAIN users \/ rowLock[Email(r)] # Nobody
    /\ Unlock(r)
    /\ Answer(r, "ok")
    /\ GoTo(r, "rolled_back")
    /\ UNCHANGED <<now, users, grants, events, sent, arrivals, faults>>

\* IntegrityError: the whole transaction is rolled back, its event with it, and
\* the client is answered as if the account had been found.
LoseRace(r) ==
    /\ pc[r] = "insert"
    /\ Email(r) \in DOMAIN users
    /\ Unlock(r)
    /\ Answer(r, "ok")
    /\ GoTo(r, "rolled_back")
    /\ UNCHANGED <<now, users, grants, events, sent, arrivals, faults>>

-----------------------------------------------------------------------------
(* login: authenticate, create_session *)

PasswordMatches(r) ==
    /\ Email(r) \in DOMAIN users
    /\ users[Email(r)].password = req[r].password

\* Mistake: the failure leaves with the exception.
LoginFailsUnrecorded(r) ==
    /\ pc[r] = "lookup" /\ Kind(r) = "login"
    /\ ~PasswordMatches(r)
    /\ Answer(r, "refused")
    /\ GoTo(r, "commit")
    /\ UNCHANGED <<now, database, sent, arrivals, tx, faults>>

\* InvalidCredentialsError, 401: the failure is recorded, and get_db commits it.
LoginFails(r) ==
    /\ pc[r] = "lookup" /\ Kind(r) = "login"
    /\ ~PasswordMatches(r)
    /\ Writes(r, {"event"})
    /\ Answer(r, "refused")
    /\ GoTo(r, "commit")
    /\ UNCHANGED <<now, database, sent, arrivals, faults>>

\* The password matches the row as it was read; an old hash is replaced.
LoginPasses(r) ==
    /\ pc[r] = "lookup" /\ Kind(r) = "login"
    /\ PasswordMatches(r)
    /\ Writes(r, IF users[Email(r)].stale THEN {"password"} ELSE {})
    /\ GoTo(r, "update")
    /\ UNCHANGED <<now, database, sent, arrivals, result, faults>>

\* The flush that writes last_login_at (and the hash) with the event waits for
\* the account's row; then the session is inserted.
OpenSession(r) ==
    /\ pc[r] = "update" /\ Kind(r) = "login"
    /\ LockAccount(r)
    /\ tx' = [tx EXCEPT ![r].writes = @ \cup {"event", "grant"},
                        ![r].until = now + SessionTtl]
    /\ Answer(r, "ok")
    /\ GoTo(r, "commit")
    /\ UNCHANGED <<now, users, grants, events, sent, arrivals, faults>>

-----------------------------------------------------------------------------
(* me, logout: requests that carry a session *)

\* Requests that carry what an earlier one was given: the cookie of a login's
\* answer, the link of an e-mail.
Bearing(kind, passwords, given) ==
    {[kind |-> kind, email |-> Email(g), password |-> p, origin |-> Unset, grant |-> g] :
        g \in given, p \in passwords}

LoggedIn == {g \in Requests : Kind(g) = "login" /\ result[g] = "ok"}

\* Mistake: a revoked session is good until it expires.
ResolvesRevoked(g) == g \in DOMAIN grants /\ grants[g].expires > now

\* resolve_session; last_seen_at is not kept.
Resolves(g) == g \in DOMAIN grants /\ ~grants[g].closed /\ grants[g].expires > now

Me(r) ==
    IsNext(r) /\ \E input \in Bearing("me", {Unset}, LoggedIn) :
        /\ Arrive(r, input)
        /\ Answer(r, IF Resolves(input.grant) THEN "ok" ELSE "refused")
        /\ GoTo(r, "committed")
        /\ UNCHANGED <<now, database, sent, tx, faults>>

\* The session is looked up; the UPDATE is flushed by the commit, which comes
\* after the answer.
Logout(r) ==
    IsNext(r) /\ \E input \in Bearing("logout", {Unset}, LoggedIn) :
        LET g == input.grant
            found == {g} \cap OpenSessions(input.email)
        IN  /\ Arrive(r, input)
            /\ tx' = [tx EXCEPT ![r].targets = found]
            /\ Answer(r, "ok")
            /\ GoTo(r, IF found = {} THEN "committed" ELSE "revoke")
            /\ UNCHANGED <<now, database, sent, faults>>

-----------------------------------------------------------------------------
(* forgot_password, reset_password *)

ForgotUnknown(r) ==
    /\ pc[r] = "lookup" /\ Kind(r) = "forgot_password"
    /\ Email(r) \notin DOMAIN users
    /\ Writes(r, {"event"})
    /\ Answer(r, "ok")
    /\ GoTo(r, "commit")
    /\ UNCHANGED <<now, database, sent, arrivals, faults>>

\* Mistake: earlier tokens are left alone.
ForgotKeepsTokens(r) ==
    /\ pc[r] = "lookup" /\ Kind(r) = "forgot_password"
    /\ Email(r) \in DOMAIN users
    /\ Writes(r, {"event"})
    /\ GoTo(r, "invalidate")
    /\ UNCHANGED <<now, database, sent, arrivals, result, faults>>

\* The event is recorded and the UPDATE of _invalidate_pending_reset_tokens
\* begins: it sees the tokens committed by now.
ForgotKnown(r) ==
    /\ pc[r] = "lookup" /\ Kind(r) = "forgot_password"
    /\ Email(r) \in DOMAIN users
    /\ tx' = [tx EXCEPT ![r].writes = @ \cup {"event"}, ![r].targets = OpenTokens(Email(r))]
    /\ GoTo(r, "invalidate")
    /\ UNCHANGED <<now, database, sent, arrivals, result, faults>>

\* One row of an UPDATE ... WHERE it is open: wait for its lock, look again, and
\* leave it if it was closed in between.
CloseRow(r) ==
    /\ pc[r] \in {"invalidate", "revoke"}
    /\ \E g \in tx[r].targets :
          /\ Holders(r, g) = {}
          /\ tx' = [tx EXCEPT ![r].targets = @ \ {g},
                              ![r].held = IF grants[g].closed THEN @ ELSE @ \cup {g}]
    /\ UNCHANGED <<now, database, sent, arrivals, pc, result, faults>>

\* _issue_reset_token.
IssueToken(r) ==
    /\ pc[r] = "invalidate" /\ Kind(r) = "forgot_password"
    /\ tx[r].targets = {}
    /\ tx' = [tx EXCEPT ![r].writes = @ \cup {"grant"}, ![r].until = since[r] + ResetTtl]
    /\ GoTo(r, "mail")
    /\ UNCHANGED <<now, database, sent, arrivals, result, faults>>

\* The e-mail leaves before the commit; that it cannot be sent changes nothing.
SendMail(r) ==
    /\ pc[r] = "mail"
    /\ sent' \in {sent, sent \cup {r}}
    /\ Answer(r, "ok")
    /\ GoTo(r, "commit")
    /\ UNCHANGED <<now, database, arrivals, tx, faults>>

\* reset_password: now is read, then the token.
Reset(r) ==
    /\ IsNext(r)
    /\ \E input \in Bearing("reset_password", Passwords, sent) : Arrive(r, input)
    /\ GoTo(r, "lookup")
    /\ UNCHANGED <<now, database, sent, tx, result, faults>>

TokenIsGood(r) ==
    LET g == req[r].grant IN
    g \in DOMAIN grants /\ ~grants[g].closed /\ grants[g].expires > since[r]

\* TokenInvalidError, TokenExpiredError: 400.
RefuseToken(r) ==
    /\ pc[r] = "lookup" /\ Kind(r) = "reset_password"
    /\ ~TokenIsGood(r)
    /\ Answer(r, "refused")
    /\ GoTo(r, "committed")
    /\ UNCHANGED <<now, database, sent, arrivals, tx, faults>>

AcceptToken(r) ==
    /\ pc[r] = "lookup" /\ Kind(r) = "reset_password"
    /\ TokenIsGood(r)
    /\ GoTo(r, "update")
    /\ UNCHANGED <<now, database, sent, arrivals, tx, result, faults>>

\* Mistake: the new hash is set on an object that is not flushed.
UpdateNothing(r) ==
    /\ pc[r] = "update" /\ Kind(r) = "reset_password"
    /\ LockAccount(r)
    /\ GoTo(r, "consume")
    /\ UNCHANGED <<now, users, grants, events, sent, arrivals, tx, result, faults>>

\* The flush: UPDATE auth_users, then the token by its key, each waiting for the
\* row and neither looking at what was committed meanwhile.
UpdatePassword(r) ==
    /\ pc[r] = "update" /\ Kind(r) = "reset_password"
    /\ LockAccount(r)
    /\ Writes(r, {"password"})
    /\ GoTo(r, "consume")
    /\ UNCHANGED <<now, users, grants, events, sent, arrivals, result, faults>>

ConsumeToken(r) ==
    /\ pc[r] = "consume"
    /\ Holders(r, req[r].grant) = {}
    /\ tx' = [tx EXCEPT ![r].held = {req[r].grant},
                        ![r].targets = OpenTokens(Email(r)) \ {req[r].grant}]
    /\ GoTo(r, "invalidate")
    /\ UNCHANGED <<now, database, sent, arrivals, result, faults>>

\* Mistake: the session that is about to expire is not worth an UPDATE.
FindLongSessions(r) ==
    /\ pc[r] = "invalidate" /\ Kind(r) = "reset_password"
    /\ tx[r].targets = {}
    /\ tx' = [tx EXCEPT ![r].targets =
                 {g \in OpenSessions(Email(r)) : grants[g].expires > now + 1}]
    /\ GoTo(r, "revoke")
    /\ UNCHANGED <<now, database, sent, arrivals, result, faults>>

\* The tokens are done; revoke_all_sessions_for_user sees the sessions
\* committed by now.
FindSessions(r) ==
    /\ pc[r] = "invalidate" /\ Kind(r) = "reset_password"
    /\ tx[r].targets = {}
    /\ tx' = [tx EXCEPT ![r].targets = OpenSessions(Email(r))]
    /\ GoTo(r, "revoke")
    /\ UNCHANGED <<now, database, sent, arrivals, result, faults>>

EndRevoke(r) ==
    /\ pc[r] = "revoke"
    /\ tx[r].targets = {}
    /\ Answer(r, "ok")
    /\ GoTo(r, "commit")
    /\ UNCHANGED <<now, database, sent, arrivals, tx, faults>>

-----------------------------------------------------------------------------
(* The end of a request *)

Account(r) == [password |-> req[r].password, stale |-> FALSE]

\* The users after r's transaction.
NewUsers(r) ==
    [e \in DOMAIN users \cup (IF "account" \in tx[r].writes THEN {Email(r)} ELSE {}) |->
        IF e = Email(r) /\ tx[r].writes \cap {"account", "password"} # {}
        THEN Account(r) ELSE users[e]]

\* Mistake: a grant comes with anything that a request wrote.
NewGrantsUnnamed(r) ==
    [g \in DOMAIN grants \cup (IF tx[r].writes # {} THEN {r} ELSE {}) |->
        IF g = r THEN [email |-> Email(r), expires |-> tx[r].until, closed |-> FALSE]
        ELSE [grants[g] EXCEPT !.closed = @ \/ g \in tx[r].held]]

\* The sessions and tokens after it.
NewGrants(r) ==
    [g \in DOMAIN grants \cup (IF "grant" \in tx[r].writes THEN {r} ELSE {}) |->
        IF g = r THEN [email |-> Email(r), expires |-> tx[r].until, closed |-> FALSE]
        ELSE [grants[g] EXCEPT !.closed = @ \/ g \in tx[r].held]]

\* The ledger after it: recording an event purges the ones past Retention.
NewEvents(r) ==
    IF "event" \in tx[r].writes
    THEN {q \in events : since[q] >= since[r] - Retention} \cup {r}
    ELSE events

\* get_db, once the answer is out.
Commit(r) ==
    /\ pc[r] = "commit"
    /\ users' = NewUsers(r)
    /\ grants' = NewGrants(r)
    /\ events' = NewEvents(r)
    /\ Unlock(r)
    /\ GoTo(r, "committed")
    /\ UNCHANGED <<now, sent, arrivals, result, faults>>

\* The transaction is rolled back; a client that has no answer yet gets a 500.
RollBack(r) ==
    /\ Unlock(r)
    /\ result' = [result EXCEPT ![r] = IF @ = "ok" THEN @ ELSE "error"]
    /\ GoTo(r, "failed")
    /\ UNCHANGED <<now, users, grants, events, sent, arrivals>>

\* Anything unexpected: the database fails, the process is killed.
Fail(r) ==
    /\ pc[r] \notin Over \cup {"new"}
    /\ faults < MaxFaults
    /\ RollBack(r)
    /\ faults' = faults + 1

\* The transactions r's next row waits for.
WaitsFor(r) ==
    CASE pc[r] \in {"insert", "update"} -> {rowLock[Email(r)]} \ {Nobody}
      [] pc[r] = "consume" -> Holders(r, req[r].grant)
      [] pc[r] \in {"invalidate", "revoke"} /\ \A g \in tx[r].targets : Holders(r, g) # {}
            -> UNION {Holders(r, g) : g \in tx[r].targets}
      [] OTHER -> {}

\* PostgreSQL ends one of the transactions that wait for each other.
BreakDeadlock(r) ==
    /\ WaitsFor(r) # {}
    /\ \E circle \in SUBSET Requests :
          /\ r \in circle
          /\ \A q \in circle : WaitsFor(q) \cap circle # {}
    /\ RollBack(r)
    /\ UNCHANGED faults

Tick ==
    /\ now < MaxTime
    /\ now' = now + 1
    /\ UNCHANGED <<database, sent, arrivals, pc, tx, result, faults>>

-----------------------------------------------------------------------------
(* Specification *)

Request(r) == Throttle(r) \/ Admit(r) \/ Me(r) \/ Logout(r) \/ Reset(r)

Handle(r) ==
    \/ RegisterKnown(r) \/ RegisterNew(r) \/ InsertUser(r) \/ LoseRace(r)
    \/ LoginFails(r) \/ LoginPasses(r) \/ OpenSession(r)
    \/ ForgotUnknown(r) \/ ForgotKnown(r) \/ IssueToken(r) \/ SendMail(r)
    \/ RefuseToken(r) \/ AcceptToken(r) \/ UpdatePassword(r) \/ ConsumeToken(r)
    \/ FindSessions(r) \/ CloseRow(r) \/ EndRevoke(r)
    \/ Commit(r)
    \/ BreakDeadlock(r)

Next ==
    \/ Tick
    \/ \E r \in Requests : Request(r) \/ Handle(r) \/ Fail(r)

\* Every admitted request keeps its thread of the server's pool until it is over.
Fairness == \A r \in Requests : WF_vars(Handle(r))

Spec == Init /\ [][Next]_vars
FairSpec == Spec /\ Fairness

-----------------------------------------------------------------------------
(* Properties *)

Committed(r) == pc[r] = "committed"

\* A registration answered with "your account has been created" whose
\* transaction ended as the code meant it to leaves an account behind, its own
\* or the one that won the race on the identifier (register_user 453-460): also
\* when the winner's transaction fails.
AcknowledgedAccountsExist ==
    \A r \in Requests :
        Kind(r) = "register" /\ result[r] = "ok" /\ pc[r] \in {"committed", "rolled_back"}
            => Email(r) \in DOMAIN users

\* Two transactions of which neither was over when the other arrived.
Overlap(q, r) == q \notin before[r] /\ r \notin before[q]

\* "every attempt counts" (RATE_LIMITS, 30-35): the attempt of a request that was
\* answered is on record for as long as it can count, whatever other transactions
\* lock, fail or purge.  The code keeps this but for two kinds of requests: those
\* whose own transaction failed, and registrations that lost the race on their
\* identifier.  Of those that race, though, the one that won is on record.
AttemptsGoOnRecord ==
    \A r \in Requests :
        ( /\ Kind(r) \in {"register", "login", "forgot_password"}
          /\ result[r] \in {"ok", "refused"} /\ pc[r] \in {"committed", "rolled_back"} )
        => \E q \in Requests :
               /\ \/ q = r
                  \/ /\ pc[r] = "rolled_back" /\ Overlap(q, r)
                     /\ Kind(q) = "register" /\ Email(q) = Email(r)
               /\ Committed(q)
               /\ since[q] >= now - Retention => q \in events

\* Attempts of r's kind and account that were committed when it arrived (for a
\* login, failures), within its window.
Earlier(r) ==
    {q \in before[r] : /\ Committed(q)
                       /\ Kind(q) = Kind(r)
                       /\ result[q] \in (IF Kind(r) = "login" THEN {"refused"} ELSE {"ok"})
                       /\ since[q] >= since[r] - Window}

\* No attempt gets past 429 when as many earlier ones as the limit of its
\* identifier or of its origin were committed: none of them was lost on the way, by
\* a refusal, a concurrent transaction or the purge (RATE_LIMITS, get_db 53-56).
LimitsHold ==
    \A r \in Requests :
        Kind(r) \in {"register", "login", "forgot_password"} /\ result[r] # "limited" =>
            /\ Cardinality({q \in Earlier(r) : Email(q) = Email(r)}) < IdentifierLimit
            /\ Cardinality({q \in Earlier(r) : req[q].origin = req[r].origin}) < OriginLimit

\* A reset closes every session of the account whose login was over when the
\* reset arrived (reset_password 573), whatever runs beside it.
ResetEndsEarlierSessions ==
    \A r \in Requests :
        Kind(r) = "reset_password" /\ Committed(r) /\ result[r] = "ok" =>
            \A g \in before[r] \cap DOMAIN grants :
                Kind(g) = "login" /\ Email(g) = Email(r) => grants[g].closed

\* A session that was logged out, or ended by a reset, is refused from then on
\* (resolve_session 293): by every request that arrives once the logout or the
\* reset is over, provided the login was over when those arrived.
EndedSessionsStayEnded ==
    \A m \in Requests : Kind(m) = "me" /\ result[m] = "ok" =>
        ~ \E q \in before[m] :
              /\ Committed(q)
              /\ req[m].grant \in before[q]
              /\ \/ Kind(q) = "logout" /\ req[q].grant = req[m].grant
                 \/ Kind(q) = "reset_password" /\ result[q] = "ok" /\ Email(q) = Email(m)

\* q is committed and took the token of r out of use.
Outdates(q, r) ==
    /\ Committed(q) /\ result[q] = "ok"
    /\ Email(q) = Email(r)
    /\ \/ Kind(q) = "reset_password" /\ req[q].grant = req[r].grant
       \/ /\ Kind(q) \in {"reset_password", "forgot_password"}
          /\ req[r].grant \in before[q]

\* "calling this again reissues a fresh token and invalidates the previous one"
\* (request_password_reset 487-490), and a reset uses its token up: when a reset
\* accepts its token, nobody has used it, and neither a request nor a reset that
\* arrived after it was issued has invalidated it.  Used or invalidated is what
\* was committed by then: of two resets that both look before either commits,
\* both are accepted, and both succeed (555-573).
AcceptedTokensAreTheLatest ==
    [][\A r \in Requests :
          Kind(r) = "reset_password" /\ pc[r] = "lookup" /\ pc'[r] = "update" =>
              ~ \E q \in Requests : Outdates(q, r)]_vars

\* The account's password is the one of its reset, until a later or overlapping
\* reset; only a login that overlapped it may have written another one back
\* (authenticate 242-243).
PasswordIsTheLastReset ==
    \A r \in Requests :
        ( /\ Kind(r) = "reset_password" /\ Committed(r) /\ result[r] = "ok"
          /\ users[Email(r)].password # req[r].password )
        => \E q \in Requests \ {r} :
               /\ Committed(q) /\ result[q] = "ok" /\ Email(q) = Email(r)
               /\ \/ Kind(q) = "reset_password" /\ q \notin before[r]
                  \/ Kind(q) = "login" /\ Overlap(q, r)

\* "old password no longer works, new one does" (test_auth_email_flows.py:177):
\* a login that arrives when a reset is over is not let in with another password,
\* unless there is another reset after or beside that one.
OnlyTheNewPasswordLogsIn ==
    \A r, l \in Requests :
        ( /\ Kind(r) = "reset_password" /\ Committed(r) /\ result[r] = "ok"
          /\ Kind(l) = "login" /\ Email(l) = Email(r) /\ r \in before[l]
          /\ result[l] = "ok" /\ req[l].password # req[r].password )
        => \E q \in Requests \ {r} :
               Kind(q) = "reset_password" /\ Email(q) = Email(r) /\ q \notin before[r]

\* Every request that was let in is over in the end, so that again and again
\* none is under way: no row stays locked by a transaction nobody ends, whatever
\* waits for whatever (get_db 58-69).
EveryRequestEnds == []<>(\A r \in Requests : pc[r] \in Over \cup {"new"})

=============================================================================
