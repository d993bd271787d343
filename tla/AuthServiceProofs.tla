-------------------------- MODULE AuthServiceProofs --------------------------
(***************************************************************************)
(* Proofs about AuthService, for any number of requests, accounts, clients *)
(* and failures: its types; what a step of one request leaves alone; that  *)
(* an acknowledged account exists; that the sessions a reset or a logout   *)
(* ends stay ended; and what outlives a request: a reset token that was    *)
(* used or replaced is not accepted, the account's password is the one of  *)
(* its last reset, and an attempt that counts is not lost before the       *)
(* limits that count it.  The last ones rest on History: what was over     *)
(* when a request arrived stays as it is.                                  *)
(***************************************************************************)
EXTENDS AuthService, FiniteSetTheorems, TLAPS

\* What a transaction writes depends on the endpoint of its request.
MayWrite(kind) ==
    {w \in Write : \/ w = "event" /\ kind \in {"register", "login", "forgot_password"}
                   \/ w = "account" /\ kind = "register"
                   \/ w = "password" /\ kind \in {"login", "reset_password"}
                   \/ w = "grant" /\ kind \in {"login", "forgot_password"}}

\* So does what the request carries, and where its handler may be.
WellFormed(input) ==
    /\ input \in Input
    /\ input.kind \in Endpoints
    /\ input.email \in Emails
    /\ input.kind \in {"register", "login", "reset_password"} => input.password \in Passwords
    /\ input.kind \in {"me", "logout", "reset_password"} => input.grant \in Requests

Shape(r) ==
    /\ IF pc[r] = "new" THEN Kind(r) = Unset ELSE WellFormed(req[r])
    /\ tx[r].writes \subseteq MayWrite(Kind(r))
    /\ pc[r] = "insert" => Kind(r) = "register"
    /\ pc[r] = "mail" => Kind(r) = "forgot_password"
    /\ pc[r] = "consume" => Kind(r) = "reset_password"

Shaped == TypeOK /\ \A r \in Requests : Shape(r)

\* Initially no request has arrived.
LEMMA InitShaped == Init => Shaped
<1> SUFFICES ASSUME Init PROVE Shaped
    OBVIOUS
<1>1. DOMAIN users \subseteq Emails /\ users \in [DOMAIN users -> User]
    BY AuthAssumption DEF Init, User
<1>2. DOMAIN grants = {} /\ grants \in [DOMAIN grants -> Grant]
    BY DEF Init
<1>3. NoInput \in Input /\ NoTx \in Tx
    BY DEF NoInput, NoTx, Input, Tx
<1>4. TypeOK
    BY <1>1, <1>2, <1>3, AuthAssumption DEF Init, TypeOK, Places, Over, Requests, Nobody
<1>5. \A r \in Requests : Shape(r)
    BY DEF Init, Shape, Kind, NoInput, NoTx
<1> QED
    BY <1>4, <1>5 DEF Shaped

\* An arriving request that is well formed, and answered at once or let in.
LEMMA ArrivalShaped ==
    ASSUME Shaped, NEW r \in Requests, NEW input, IsNext(r), Arrive(r, input),
           WellFormed(input),
           tx' \in [Requests -> Tx], \A q \in Requests : tx'[q].writes = tx[q].writes,
           NEW place \in {"lookup", "revoke", "committed"}, GoTo(r, place),
           result' \in [Requests -> {Unset, "ok", "refused", "limited", "error"}],
           UNCHANGED <<now, database, sent, faults>>
    PROVE  Shaped'
<1> USE DEF Shaped, database
<1>1. req' = [req EXCEPT ![r] = input] /\ req' \in [Requests -> Input]
    BY DEF Arrive, WellFormed, TypeOK
<1>2. Kind(r) = Unset /\ \A q \in Requests \ {r} : req'[q] = req[q]
    BY <1>1 DEF IsNext, Shape, TypeOK
<1>3. Unset \notin Endpoints
    BY AuthAssumption
<1>4. since' \in [Requests -> Nat] /\ before' \in [Requests -> SUBSET Requests]
    BY DEF Arrive, TypeOK
<1>5. pc' \in [Requests -> Places] /\ pc' = [pc EXCEPT ![r] = place]
    BY DEF GoTo, TypeOK, Places, Over
<1>6. \A q \in Requests : req[q].kind # Unset => req'[q] = req[q]
    BY <1>2 DEF Kind
<1>7. {"register", "login", "forgot_password"} \subseteq Endpoints
    BY DEF Endpoints
<1>8. TypeOK'
    BY <1>1, <1>3, <1>4, <1>5, <1>6, <1>7 DEF TypeOK
<1>9. \A q \in Requests \ {r} : Shape(q)'
    BY <1>1, <1>2, <1>5 DEF Shape, TypeOK, Kind
<1>10. MayWrite(Unset) = {}
    BY <1>3 DEF MayWrite, Endpoints
<1>11. Shape(r)'
    BY <1>1, <1>2, <1>5, <1>10 DEF Shape, TypeOK, Kind
<1> QED
    BY <1>8, <1>9, <1>11

Answers == {Unset, "ok", "refused", "limited", "error"}

\* A step of a handler: it changes its own transaction, place and answer, and may
\* change rows to rows of their types.
LEMMA HandlerShaped ==
    ASSUME Shaped, NEW r \in Requests, pc[r] # "new", UNCHANGED <<now, arrivals>>,
           DOMAIN users' \subseteq Emails, users' \in [DOMAIN users' -> User],
           DOMAIN grants' \subseteq {g \in Requests : Kind(g) \in {"login", "forgot_password"}},
           grants' \in [DOMAIN grants' -> Grant],
           events' \subseteq {q \in Requests :
                                 Kind(q) \in {"register", "login", "forgot_password"}},
           rowLock' \in [Emails -> Requests \cup {Nobody}],
           sent' \subseteq {q \in Requests : Kind(q) = "forgot_password"},
           NEW place \in Places \ {"new"}, GoTo(r, place),
           place = "insert" => Kind(r) = "register",
           place = "mail" => Kind(r) = "forgot_password",
           place = "consume" => Kind(r) = "reset_password",
           NEW t \in Tx, tx' = [tx EXCEPT ![r] = t], t.writes \subseteq MayWrite(Kind(r)),
           result' \in [Requests -> Answers], faults' \in 0..MaxFaults
    PROVE  Shaped'
<1> USE DEF Shaped, arrivals
<1>1. pc' \in [Requests -> Places] /\ pc' = [pc EXCEPT ![r] = place]
    BY DEF GoTo, TypeOK
<1>2. tx' \in [Requests -> Tx]
    BY DEF TypeOK
<1>3. TypeOK'
    BY <1>1, <1>2 DEF TypeOK, Kind, Answers
<1>4. \A q \in Requests \ {r} : Shape(q)'
    BY <1>1 DEF Shape, TypeOK, Kind
<1>5. Shape(r)'
    BY <1>1 DEF Shape, TypeOK, Kind
<1> QED
    BY <1>3, <1>4, <1>5

\* The same when no committed row changes.
LEMMA LocalShaped ==
    ASSUME Shaped, NEW r \in Requests, pc[r] # "new",
           UNCHANGED <<now, users, grants, events, sent, arrivals, faults>>,
           rowLock' \in [Emails -> Requests \cup {Nobody}],
           NEW place \in Places \ {"new"}, GoTo(r, place),
           place = "insert" => Kind(r) = "register",
           place = "mail" => Kind(r) = "forgot_password",
           place = "consume" => Kind(r) = "reset_password",
           NEW t \in Tx, tx' = [tx EXCEPT ![r] = t], t.writes \subseteq MayWrite(Kind(r)),
           result' \in [Requests -> Answers]
    PROVE  Shaped'
<1>1. /\ DOMAIN users' \subseteq Emails
      /\ users' \in [DOMAIN users' -> User]
      /\ DOMAIN grants' \subseteq {g \in Requests : Kind(g) \in {"login", "forgot_password"}}
      /\ grants' \in [DOMAIN grants' -> Grant]
      /\ events' \subseteq {q \in Requests :
                                 Kind(q) \in {"register", "login", "forgot_password"}}
      /\ sent' \subseteq {q \in Requests : Kind(q) = "forgot_password"}
      /\ faults' \in 0..MaxFaults
    BY DEF Shaped, TypeOK, Kind
<1> QED
    BY <1>1, HandlerShaped

\* What Writes, Answer and the locks do, in the terms of LocalShaped.
LEMMA WritesTx ==
    ASSUME Shaped, NEW r \in Requests, NEW rows \in SUBSET MayWrite(Kind(r)), Writes(r, rows)
    PROVE  \E t \in Tx : tx' = [tx EXCEPT ![r] = t] /\ t.writes \subseteq MayWrite(Kind(r))
<1> DEFINE t == [tx[r] EXCEPT !.writes = @ \cup rows]
<1>1. tx[r] \in Tx /\ tx[r].writes \subseteq MayWrite(Kind(r)) /\ tx \in [Requests -> Tx]
    BY DEF Shaped, TypeOK, Shape
<1>2. rows \subseteq Write
    BY DEF MayWrite
<1>3. t \in Tx /\ t.writes \subseteq MayWrite(Kind(r))
    BY <1>1, <1>2 DEF Tx
<1>4. tx' = [tx EXCEPT ![r] = t]
    BY DEF Writes
<1> QED
    BY <1>3, <1>4

\* A transaction that keeps what it wrote.
LEMMA SameTx ==
    ASSUME Shaped, NEW r \in Requests, UNCHANGED tx
    PROVE  \E t \in Tx : tx' = [tx EXCEPT ![r] = t] /\ t.writes \subseteq MayWrite(Kind(r))
<1>1. tx[r] \in Tx /\ tx[r].writes \subseteq MayWrite(Kind(r)) /\ tx \in [Requests -> Tx]
    BY DEF Shaped, TypeOK, Shape
<1> QED
    BY <1>1

LEMMA UnlockTx ==
    ASSUME Shaped, NEW r \in Requests, Unlock(r)
    PROVE  /\ rowLock' \in [Emails -> Requests \cup {Nobody}]
           /\ \E t \in Tx : tx' = [tx EXCEPT ![r] = t] /\ t.writes \subseteq MayWrite(Kind(r))
<1>1. NoTx \in Tx /\ NoTx.writes = {}
    BY DEF NoTx, Tx
<1>2. rowLock' \in [Emails -> Requests \cup {Nobody}]
    BY DEF Unlock, Shaped, TypeOK
<1> QED
    BY <1>1, <1>2 DEF Unlock

LEMMA LockAccountTyped ==
    ASSUME Shaped, NEW r \in Requests, LockAccount(r)
    PROVE  rowLock' \in [Emails -> Requests \cup {Nobody}]
BY DEF LockAccount, Shaped, TypeOK

LEMMA AnswerTyped ==
    ASSUME Shaped, NEW r \in Requests, NEW said \in Answers, Answer(r, said)
    PROVE  result' \in [Requests -> Answers]
BY DEF Answer, Answers, Shaped, TypeOK

\* register_user.
LEMMA RegisterShaped ==
    ASSUME Shaped, NEW r \in Requests,
           RegisterKnown(r) \/ RegisterNew(r) \/ InsertUser(r) \/ LoseRace(r)
    PROVE  Shaped'
<1>1. pc[r] # "new" /\ Kind(r) = "register" /\ result \in [Requests -> Answers]
      /\ rowLock \in [Emails -> Requests \cup {Nobody}]
    BY DEF RegisterKnown, RegisterNew, InsertUser, LoseRace, Shaped, Shape, TypeOK, Answers
<1>2. {"event", "account"} \subseteq MayWrite(Kind(r))
    BY <1>1 DEF MayWrite, Write
<1>3. {"commit", "insert", "rolled_back"} \subseteq Places \ {"new"} /\ "ok" \in Answers
    BY DEF Places, Over, Answers
<1>4. CASE RegisterKnown(r)
    <2>1. result' \in [Requests -> Answers]
        BY <1>3, <1>4, AnswerTyped DEF RegisterKnown
    <2>2. PICK t \in Tx : tx' = [tx EXCEPT ![r] = t] /\ t.writes \subseteq MayWrite(Kind(r))
        BY <1>2, <1>4, WritesTx DEF RegisterKnown
    <2> QED
        BY <1>1, <1>3, <1>4, <2>1, <2>2, LocalShaped DEF RegisterKnown, database
<1>5. CASE RegisterNew(r)
    <2>1. PICK t \in Tx : tx' = [tx EXCEPT ![r] = t] /\ t.writes \subseteq MayWrite(Kind(r))
        BY <1>2, <1>5, WritesTx DEF RegisterNew
    <2> QED
        BY <1>1, <1>3, <1>5, <2>1, LocalShaped DEF RegisterNew, database
<1>6. CASE InsertUser(r)
    <2>1. result' \in [Requests -> Answers] /\ rowLock' \in [Emails -> Requests \cup {Nobody}]
        BY <1>3, <1>6, AnswerTyped, LockAccountTyped DEF InsertUser
    <2>2. PICK t \in Tx : tx' = [tx EXCEPT ![r] = t] /\ t.writes \subseteq MayWrite(Kind(r))
        BY <1>2, <1>6, WritesTx DEF InsertUser
    <2> QED
        BY <1>1, <1>3, <1>6, <2>1, <2>2, LocalShaped DEF InsertUser
<1>7. CASE LoseRace(r)
    <2>1. result' \in [Requests -> Answers] /\ rowLock' \in [Emails -> Requests \cup {Nobody}]
        BY <1>3, <1>7, AnswerTyped, UnlockTx DEF LoseRace
    <2>2. PICK t \in Tx : tx' = [tx EXCEPT ![r] = t] /\ t.writes \subseteq MayWrite(Kind(r))
        BY <1>7, UnlockTx DEF LoseRace
    <2> QED
        BY <1>1, <1>3, <1>7, <2>1, <2>2, LocalShaped DEF LoseRace
<1> QED
    BY <1>4, <1>5, <1>6, <1>7

\* login.
LEMMA LoginShaped ==
    ASSUME Shaped, NEW r \in Requests, LoginFails(r) \/ LoginPasses(r) \/ OpenSession(r)
    PROVE  Shaped'
<1>1. pc[r] # "new" /\ Kind(r) = "login" /\ result \in [Requests -> Answers]
      /\ rowLock \in [Emails -> Requests \cup {Nobody}]
    BY DEF LoginFails, LoginPasses, OpenSession, Shaped, TypeOK, Answers
<1>2. {"event", "grant", "password"} \subseteq MayWrite(Kind(r))
    BY <1>1 DEF MayWrite, Write
<1>3. {"commit", "update"} \subseteq Places \ {"new"} /\ {"ok", "refused"} \subseteq Answers
    BY DEF Places, Over, Answers
<1>4. CASE LoginFails(r)
    <2>1. result' \in [Requests -> Answers]
        BY <1>3, <1>4, AnswerTyped DEF LoginFails
    <2>2. PICK t \in Tx : tx' = [tx EXCEPT ![r] = t] /\ t.writes \subseteq MayWrite(Kind(r))
        BY <1>2, <1>4, WritesTx DEF LoginFails
    <2> QED
        BY <1>1, <1>3, <1>4, <2>1, <2>2, LocalShaped DEF LoginFails, database
<1>5. CASE LoginPasses(r)
    <2>1. PICK t \in Tx : tx' = [tx EXCEPT ![r] = t] /\ t.writes \subseteq MayWrite(Kind(r))
        BY <1>2, <1>5, WritesTx DEF LoginPasses
    <2> QED
        BY <1>1, <1>3, <1>5, <2>1, LocalShaped DEF LoginPasses, database
<1>6. CASE OpenSession(r)
    <2> DEFINE t == [tx[r] EXCEPT !.writes = @ \cup {"event", "grant"},
                                  !.until = now + SessionTtl]
    <2>1. result' \in [Requests -> Answers] /\ rowLock' \in [Emails -> Requests \cup {Nobody}]
        BY <1>3, <1>6, AnswerTyped, LockAccountTyped DEF OpenSession
    <2>2. tx[r] \in Tx /\ tx[r].writes \subseteq MayWrite(Kind(r)) /\ now + SessionTtl \in Nat
        BY AuthAssumption DEF Shaped, TypeOK, Shape
    <2>3. t \in Tx /\ t.writes \subseteq MayWrite(Kind(r))
        BY <1>2, <2>2 DEF Tx, Write
    <2>4. tx' = [tx EXCEPT ![r] = t]
        BY <1>6 DEF OpenSession, Shaped, TypeOK
    <2> QED
        BY <1>1, <1>3, <1>6, <2>1, <2>3, <2>4, LocalShaped DEF OpenSession
<1> QED
    BY <1>4, <1>5, <1>6

\* forgot_password, and the rows an UPDATE closes.
LEMMA ForgotShaped ==
    ASSUME Shaped, NEW r \in Requests,
           ForgotUnknown(r) \/ ForgotKnown(r) \/ IssueToken(r)
    PROVE  Shaped'
<1>1. pc[r] # "new" /\ Kind(r) = "forgot_password" /\ result \in [Requests -> Answers]
      /\ rowLock \in [Emails -> Requests \cup {Nobody}]
    BY DEF ForgotUnknown, ForgotKnown, IssueToken, Shaped, TypeOK, Answers
<1>2. {"event", "grant"} \subseteq MayWrite(Kind(r)) /\ {"event", "grant"} \subseteq Write
    BY <1>1 DEF MayWrite, Write
<1>3. {"commit", "invalidate", "mail"} \subseteq Places \ {"new"} /\ "ok" \in Answers
    BY DEF Places, Over, Answers
<1>4. tx[r] \in Tx /\ tx[r].writes \subseteq MayWrite(Kind(r)) /\ tx \in [Requests -> Tx]
    BY DEF Shaped, TypeOK, Shape
<1>5. CASE ForgotUnknown(r)
    <2>1. result' \in [Requests -> Answers]
        BY <1>3, <1>5, AnswerTyped DEF ForgotUnknown
    <2>2. PICK t \in Tx : tx' = [tx EXCEPT ![r] = t] /\ t.writes \subseteq MayWrite(Kind(r))
        BY <1>2, <1>5, WritesTx DEF ForgotUnknown
    <2> QED
        BY <1>1, <1>3, <1>5, <2>1, <2>2, LocalShaped DEF ForgotUnknown, database
<1>6. CASE ForgotKnown(r)
    <2> DEFINE t == [tx[r] EXCEPT !.writes = @ \cup {"event"}, !.targets = OpenTokens(Email(r))]
    <2>1. OpenTokens(Email(r)) \subseteq Requests
        BY DEF OpenTokens, Shaped, TypeOK
    <2>2. t \in Tx /\ t.writes \subseteq MayWrite(Kind(r))
        BY <1>2, <1>4, <2>1 DEF Tx
    <2>3. tx' = [tx EXCEPT ![r] = t]
        BY <1>4, <1>6 DEF ForgotKnown
    <2> QED
        BY <1>1, <1>3, <1>6, <2>2, <2>3, LocalShaped DEF ForgotKnown, database
<1>7. CASE IssueToken(r)
    <2> DEFINE t == [tx[r] EXCEPT !.writes = @ \cup {"grant"}, !.until = since[r] + ResetTtl]
    <2>1. since[r] + ResetTtl \in Nat
        BY AuthAssumption DEF Shaped, TypeOK
    <2>2. t \in Tx /\ t.writes \subseteq MayWrite(Kind(r))
        BY <1>2, <1>4, <2>1 DEF Tx
    <2>3. tx' = [tx EXCEPT ![r] = t]
        BY <1>4, <1>7 DEF IssueToken
    <2> QED
        BY <1>1, <1>3, <1>7, <2>2, <2>3, LocalShaped DEF IssueToken, database
<1> QED
    BY <1>5, <1>6, <1>7

LEMMA SendMailShaped ==
    ASSUME Shaped, NEW r \in Requests, SendMail(r)
    PROVE  Shaped'
<1>1. pc[r] # "new" /\ Kind(r) = "forgot_password"
    BY DEF SendMail, Shaped, Shape
<1>2. "commit" \in Places \ {"new"} /\ "ok" \in Answers
    BY DEF Places, Over, Answers
<1>3. result' \in [Requests -> Answers]
    BY <1>2, AnswerTyped DEF SendMail
<1>4. PICK t \in Tx : tx' = [tx EXCEPT ![r] = t] /\ t.writes \subseteq MayWrite(Kind(r))
    BY SameTx DEF SendMail
<1>5. sent' \subseteq {q \in Requests : Kind(q) = "forgot_password"}
    BY <1>1 DEF SendMail, Shaped, TypeOK, Kind
<1>6. /\ DOMAIN users' \subseteq Emails
      /\ users' \in [DOMAIN users' -> User]
      /\ DOMAIN grants' \subseteq {g \in Requests : Kind(g) \in {"login", "forgot_password"}}
      /\ grants' \in [DOMAIN grants' -> Grant]
      /\ events' \subseteq {q \in Requests :
                                 Kind(q) \in {"register", "login", "forgot_password"}}
      /\ rowLock' \in [Emails -> Requests \cup {Nobody}]
      /\ faults' \in 0..MaxFaults
    BY DEF SendMail, Shaped, TypeOK, Kind, database
<1> QED
    BY <1>1, <1>2, <1>3, <1>4, <1>5, <1>6, HandlerShaped DEF SendMail

LEMMA CloseRowShaped ==
    ASSUME Shaped, NEW r \in Requests, CloseRow(r)
    PROVE  Shaped'
<1>1. pc[r] # "new" /\ pc[r] \in Places /\ result \in [Requests -> Answers]
      /\ pc = [pc EXCEPT ![r] = pc[r]] /\ pc[r] \notin {"insert", "mail", "consume"}
    BY DEF CloseRow, Shaped, TypeOK, Answers
<1>2. tx[r] \in Tx /\ tx[r].writes \subseteq MayWrite(Kind(r)) /\ tx \in [Requests -> Tx]
    BY DEF Shaped, TypeOK, Shape
<1>3. PICK g \in tx[r].targets :
          tx' = [tx EXCEPT ![r].targets = @ \ {g},
                           ![r].held = IF grants[g].closed THEN @ ELSE @ \cup {g}]
    BY DEF CloseRow
<1> DEFINE t == [tx[r] EXCEPT !.targets = @ \ {g},
                              !.held = IF grants[g].closed THEN @ ELSE @ \cup {g}]
<1>4. t \in Tx /\ t.writes \subseteq MayWrite(Kind(r))
    BY <1>2 DEF Tx
<1>5. tx' = [tx EXCEPT ![r] = t]
    BY <1>2, <1>3
<1>6. GoTo(r, pc[r]) /\ rowLock' \in [Emails -> Requests \cup {Nobody}]
    BY <1>1 DEF CloseRow, GoTo, Shaped, TypeOK, database
<1> QED
    BY <1>1, <1>4, <1>5, <1>6, LocalShaped DEF CloseRow, database

\* reset_password.
LEMMA ResetShaped ==
    ASSUME Shaped, NEW r \in Requests,
           RefuseToken(r) \/ AcceptToken(r) \/ UpdatePassword(r) \/ ConsumeToken(r)
           \/ FindSessions(r) \/ EndRevoke(r)
    PROVE  Shaped'
<1>1. pc[r] # "new" /\ result \in [Requests -> Answers]
      /\ rowLock \in [Emails -> Requests \cup {Nobody}]
    BY DEF RefuseToken, AcceptToken, UpdatePassword, ConsumeToken, FindSessions, EndRevoke,
           Shaped, TypeOK, Answers
<1>2. {"committed", "update", "consume", "invalidate", "revoke", "commit"} \subseteq Places \ {"new"}
      /\ {"ok", "refused"} \subseteq Answers
    BY DEF Places, Over, Answers
<1>3. tx[r] \in Tx /\ tx[r].writes \subseteq MayWrite(Kind(r)) /\ tx \in [Requests -> Tx]
    BY DEF Shaped, TypeOK, Shape
<1>4. CASE RefuseToken(r)
    <2>1. result' \in [Requests -> Answers]
        BY <1>2, <1>4, AnswerTyped DEF RefuseToken
    <2>2. PICK t \in Tx : tx' = [tx EXCEPT ![r] = t] /\ t.writes \subseteq MayWrite(Kind(r))
        BY <1>4, SameTx DEF RefuseToken
    <2> QED
        BY <1>1, <1>2, <1>4, <2>1, <2>2, LocalShaped DEF RefuseToken, database
<1>5. CASE AcceptToken(r)
    <2>1. PICK t \in Tx : tx' = [tx EXCEPT ![r] = t] /\ t.writes \subseteq MayWrite(Kind(r))
        BY <1>5, SameTx DEF AcceptToken
    <2> QED
        BY <1>1, <1>2, <1>5, <2>1, LocalShaped DEF AcceptToken, database
<1>6. CASE UpdatePassword(r)
    <2>1. {"password"} \subseteq MayWrite(Kind(r)) /\ Kind(r) = "reset_password"
        BY <1>6 DEF MayWrite, Write, UpdatePassword
    <2>2. PICK t \in Tx : tx' = [tx EXCEPT ![r] = t] /\ t.writes \subseteq MayWrite(Kind(r))
        BY <1>6, <2>1, WritesTx DEF UpdatePassword
    <2>3. rowLock' \in [Emails -> Requests \cup {Nobody}]
        BY <1>6, LockAccountTyped DEF UpdatePassword
    <2> QED
        BY <1>1, <1>2, <1>6, <2>1, <2>2, <2>3, LocalShaped DEF UpdatePassword
<1>7. CASE ConsumeToken(r)
    <2> DEFINE t == [tx[r] EXCEPT !.held = {req[r].grant},
                                  !.targets = OpenTokens(Email(r)) \ {req[r].grant}]
    <2>1. req[r].grant \in Requests
        BY <1>7 DEF ConsumeToken, Shaped, Shape, WellFormed, Kind
    <2>2. OpenTokens(Email(r)) \subseteq Requests
        BY DEF OpenTokens, Shaped, TypeOK
    <2>3. t \in Tx /\ t.writes \subseteq MayWrite(Kind(r))
        BY <1>3, <2>1, <2>2 DEF Tx
    <2>4. tx' = [tx EXCEPT ![r] = t]
        BY <1>3, <1>7 DEF ConsumeToken
    <2> QED
        BY <1>1, <1>2, <1>7, <2>3, <2>4, LocalShaped DEF ConsumeToken, database
<1>8. CASE FindSessions(r)
    <2> DEFINE t == [tx[r] EXCEPT !.targets = OpenSessions(Email(r))]
    <2>1. OpenSessions(Email(r)) \subseteq Requests
        BY DEF OpenSessions, Shaped, TypeOK
    <2>2. t \in Tx /\ t.writes \subseteq MayWrite(Kind(r))
        BY <1>3, <2>1 DEF Tx
    <2>3. tx' = [tx EXCEPT ![r] = t]
        BY <1>3, <1>8 DEF FindSessions
    <2> QED
        BY <1>1, <1>2, <1>8, <2>2, <2>3, LocalShaped DEF FindSessions, database
<1>9. CASE EndRevoke(r)
    <2>1. result' \in [Requests -> Answers]
        BY <1>2, <1>9, AnswerTyped DEF EndRevoke
    <2>2. PICK t \in Tx : tx' = [tx EXCEPT ![r] = t] /\ t.writes \subseteq MayWrite(Kind(r))
        BY <1>9, SameTx DEF EndRevoke
    <2> QED
        BY <1>1, <1>2, <1>9, <2>1, <2>2, LocalShaped DEF EndRevoke, database
<1> QED
    BY <1>4, <1>5, <1>6, <1>7, <1>8, <1>9

\* The end of a transaction.
LEMMA CommitShaped ==
    ASSUME Shaped, NEW r \in Requests, Commit(r)
    PROVE  Shaped'
<1>1. /\ pc[r] = "commit" /\ WellFormed(req[r])
      /\ tx[r] \in Tx /\ tx[r].writes \subseteq MayWrite(Kind(r))
    BY DEF Commit, Shaped, Shape, TypeOK
<1>2. Email(r) \in Emails
    BY <1>1 DEF WellFormed, Email
<1>3. tx[r].writes \cap {"account", "password"} # {} => Account(r) \in User
    BY <1>1 DEF MayWrite, WellFormed, Kind, Account, User
<1>4. DOMAIN users' \subseteq Emails /\ users' \in [DOMAIN users' -> User]
    <2>1. DOMAIN users \subseteq Emails /\ users \in [DOMAIN users -> User]
        BY DEF Shaped, TypeOK
    <2>2. users' = NewUsers(r)
        BY DEF Commit
    <2> QED
        BY <1>2, <1>3, <2>1, <2>2 DEF NewUsers
<1>5. /\ DOMAIN grants' \subseteq {g \in Requests : Kind(g) \in {"login", "forgot_password"}}
      /\ grants' \in [DOMAIN grants' -> Grant]
    <2>1. /\ DOMAIN grants \subseteq {g \in Requests : Kind(g) \in {"login", "forgot_password"}}
          /\ grants \in [DOMAIN grants -> Grant]
        BY DEF Shaped, TypeOK, Kind
    <2>2. grants' = NewGrants(r)
        BY DEF Commit
    <2>3. "grant" \in tx[r].writes => Kind(r) \in {"login", "forgot_password"}
        BY <1>1 DEF MayWrite
    <2>4. DOMAIN grants' \subseteq {g \in Requests : Kind(g) \in {"login", "forgot_password"}}
        BY <2>1, <2>2, <2>3 DEF NewGrants
    <2>5. ASSUME NEW g \in DOMAIN grants' PROVE grants'[g] \in Grant
        <3>1. [email |-> Email(r), expires |-> tx[r].until, closed |-> FALSE] \in Grant
            BY <1>1, <1>2 DEF Grant, Tx
        <3>2. CASE g = r
            BY <2>2, <2>5, <3>1, <3>2 DEF NewGrants
        <3>3. CASE g # r
            <4>1. g \in DOMAIN grants /\ grants[g] \in Grant
                BY <2>1, <2>2, <2>5, <3>3 DEF NewGrants
            <4>2. grants'[g] = [grants[g] EXCEPT !.closed = @ \/ g \in tx[r].held]
                BY <2>2, <2>5, <3>3 DEF NewGrants
            <4> QED
                BY <4>1, <4>2 DEF Grant
        <3> QED
            BY <3>2, <3>3
    <2>6. grants' = [g \in DOMAIN grants' |-> grants'[g]]
        BY <2>2 DEF NewGrants
    <2> QED
        BY <2>4, <2>5, <2>6
<1>6. events' \subseteq {q \in Requests : Kind(q) \in {"register", "login", "forgot_password"}}
    BY <1>1 DEF Commit, NewEvents, MayWrite, Shaped, TypeOK, Kind
<1>7. "committed" \in Places \ {"new"} /\ result' \in [Requests -> Answers]
    BY DEF Commit, Places, Over, Answers, Shaped, TypeOK
<1>8. rowLock' \in [Emails -> Requests \cup {Nobody}]
    BY UnlockTx DEF Commit
<1>9. PICK t \in Tx : tx' = [tx EXCEPT ![r] = t] /\ t.writes \subseteq MayWrite(Kind(r))
    BY UnlockTx DEF Commit
<1>10. sent' \subseteq {q \in Requests : Kind(q) = "forgot_password"} /\ faults' \in 0..MaxFaults
    BY DEF Commit, Shaped, TypeOK, Kind
<1> QED
    BY <1>1, <1>4, <1>5, <1>6, <1>7, <1>8, <1>9, <1>10, HandlerShaped DEF Commit

LEMMA RollBackShaped ==
    ASSUME Shaped, NEW r \in Requests, pc[r] # "new", RollBack(r), faults' \in 0..MaxFaults
    PROVE  Shaped'
<1>1. "failed" \in Places \ {"new"} /\ result' \in [Requests -> Answers]
    BY DEF RollBack, Places, Over, Answers, Shaped, TypeOK
<1>2. rowLock' \in [Emails -> Requests \cup {Nobody}]
    BY UnlockTx DEF RollBack
<1>3. PICK t \in Tx : tx' = [tx EXCEPT ![r] = t] /\ t.writes \subseteq MayWrite(Kind(r))
    BY UnlockTx DEF RollBack
<1>4. /\ DOMAIN users' \subseteq Emails
      /\ users' \in [DOMAIN users' -> User]
      /\ DOMAIN grants' \subseteq {g \in Requests : Kind(g) \in {"login", "forgot_password"}}
      /\ grants' \in [DOMAIN grants' -> Grant]
      /\ events' \subseteq {q \in Requests :
                                 Kind(q) \in {"register", "login", "forgot_password"}}
      /\ sent' \subseteq {q \in Requests : Kind(q) = "forgot_password"}
    BY DEF RollBack, Shaped, TypeOK, Kind
<1> QED
    BY <1>1, <1>2, <1>3, <1>4, HandlerShaped DEF RollBack

\* A request that waits has arrived.
LEMMA WaitingIsUnderWay ==
    ASSUME NEW r \in Requests, WaitsFor(r) # {}
    PROVE  pc[r] \notin Over \cup {"new"}
BY DEF WaitsFor, Over

\* What clients send is well formed.
LEMMA AttemptsWellFormed ==
    ASSUME NEW input \in Attempts
    PROVE  WellFormed(input)
BY DEF Attempts, WellFormed, Input, Endpoints

LEMMA BearingWellFormed ==
    ASSUME Shaped, NEW kind \in {"me", "logout", "reset_password"},
           NEW passwords \in SUBSET (Passwords \cup {Unset}),
           kind = "reset_password" => passwords \subseteq Passwords,
           NEW given \in SUBSET Requests, \A g \in given : Kind(g) # Unset,
           NEW input \in Bearing(kind, passwords, given)
    PROVE  WellFormed(input) /\ input.kind = kind /\ input.grant \in given
<1>1. PICK g \in given, p \in passwords :
          input = [kind |-> kind, email |-> Email(g), password |-> p,
                   origin |-> Unset, grant |-> g]
    BY DEF Bearing
<1>2. Email(g) \in Emails
    BY DEF Shaped, Shape, WellFormed, Email, Kind
<1> QED
    BY <1>1, <1>2 DEF WellFormed, Input, Endpoints

\* Every request that arrives.
LEMMA RequestShaped ==
    ASSUME Shaped, NEW r \in Requests, Request(r)
    PROVE  Shaped'
<1>1. tx \in [Requests -> Tx] /\ result \in [Requests -> Answers]
    BY DEF Shaped, TypeOK, Answers
<1>2. Unset \notin Endpoints /\ {"login", "forgot_password"} \subseteq Endpoints
    BY AuthAssumption DEF Endpoints
<1>3. LoggedIn \in SUBSET Requests /\ \A g \in LoggedIn : Kind(g) # Unset
    BY <1>2 DEF LoggedIn
<1>4. sent \in SUBSET Requests /\ \A g \in sent : Kind(g) # Unset
    BY <1>2 DEF Shaped, TypeOK, Kind
<1>5. {"ok", "refused", "limited"} \subseteq Answers
    BY DEF Answers
<1>6. CASE Throttle(r)
    <2>1. PICK input \in Attempts : Arrive(r, input)
        BY <1>6 DEF Throttle
    <2>2. result' \in [Requests -> Answers]
        BY <1>5, <1>6, AnswerTyped DEF Throttle
    <2> QED
        BY <1>1, <1>6, <2>1, <2>2, AttemptsWellFormed, ArrivalShaped DEF Throttle, Answers
<1>7. CASE Admit(r)
    <2>1. PICK input \in Attempts : Arrive(r, input)
        BY <1>7 DEF Admit
    <2> QED
        BY <1>1, <1>7, <2>1, AttemptsWellFormed, ArrivalShaped DEF Admit, Answers
<1>8. CASE Me(r)
    <2>1. PICK input \in Bearing("me", {Unset}, LoggedIn) :
              /\ Arrive(r, input)
              /\ Answer(r, IF Resolves(input.grant) THEN "ok" ELSE "refused")
              /\ GoTo(r, "committed")
              /\ UNCHANGED <<now, database, sent, tx, faults>>
        BY <1>8 DEF Me
    <2>2. result' \in [Requests -> Answers]
        BY <1>5, <2>1, AnswerTyped
    <2>3. WellFormed(input)
        BY <1>3, BearingWellFormed
    <2> QED
        BY <1>1, <1>8, <2>1, <2>2, <2>3, ArrivalShaped DEF Me, Answers
<1>9. CASE Logout(r)
    <2>1. PICK input \in Bearing("logout", {Unset}, LoggedIn) :
              LET found == {input.grant} \cap OpenSessions(input.email)
              IN  /\ Arrive(r, input)
                  /\ tx' = [tx EXCEPT ![r].targets = found]
                  /\ Answer(r, "ok")
                  /\ GoTo(r, IF found = {} THEN "committed" ELSE "revoke")
                  /\ UNCHANGED <<now, database, sent, faults>>
        BY <1>9 DEF Logout
    <2> DEFINE found == {input.grant} \cap OpenSessions(input.email)
    <2>2. result' \in [Requests -> Answers]
        BY <1>5, <2>1, AnswerTyped
    <2>3. WellFormed(input) /\ found \subseteq Requests
        BY <1>3, BearingWellFormed
    <2>4. tx' \in [Requests -> Tx] /\ \A q \in Requests : tx'[q].writes = tx[q].writes
        <3>1. tx[r] \in Tx
            BY <1>1
        <3>2. [tx[r] EXCEPT !.targets = found] \in Tx
            BY <2>3, <3>1 DEF Tx
        <3>3. tx' = [tx EXCEPT ![r] = [tx[r] EXCEPT !.targets = found]]
            BY <2>1
        <3> QED
            BY <1>1, <3>1, <3>2, <3>3 DEF Tx
    <2> DEFINE place == IF found = {} THEN "committed" ELSE "revoke"
    <2>5. place \in {"lookup", "revoke", "committed"} /\ GoTo(r, place)
        BY <2>1
    <2>6. IsNext(r)
        BY <1>9 DEF Logout
    <2> HIDE DEF found, place
    <2> QED
        BY <2>1, <2>2, <2>3, <2>4, <2>5, <2>6, ArrivalShaped DEF Answers
<1>10. CASE Reset(r)
    <2>1. PICK input \in Bearing("reset_password", Passwords, sent) : Arrive(r, input)
        BY <1>10 DEF Reset
    <2>2. WellFormed(input)
        BY <1>4, BearingWellFormed
    <2> QED
        BY <1>1, <1>10, <2>1, <2>2, ArrivalShaped DEF Reset, Answers
<1> QED
    BY <1>6, <1>7, <1>8, <1>9, <1>10 DEF Request

\* Every step.
LEMMA NextShaped == Shaped /\ [Next]_vars => Shaped'
<1> SUFFICES ASSUME Shaped, [Next]_vars PROVE Shaped'
    OBVIOUS
<1>1. CASE Tick
    BY <1>1 DEF Tick, Shaped, TypeOK, Shape, Kind, database, arrivals
<1>2. ASSUME NEW r \in Requests, Request(r) PROVE Shaped'
    BY <1>2, RequestShaped
<1>3. ASSUME NEW r \in Requests, Fail(r) PROVE Shaped'
    <2>1. faults' \in 0..MaxFaults /\ pc[r] # "new"
        BY <1>3, AuthAssumption DEF Fail, Shaped, TypeOK
    <2> QED
        BY <1>3, <2>1, RollBackShaped DEF Fail
<1>4. ASSUME NEW r \in Requests, BreakDeadlock(r) PROVE Shaped'
    <2>1. faults' \in 0..MaxFaults /\ pc[r] # "new"
        BY <1>4, WaitingIsUnderWay DEF BreakDeadlock, Shaped, TypeOK
    <2> QED
        BY <1>4, <2>1, RollBackShaped DEF BreakDeadlock
<1>5. ASSUME NEW r \in Requests, Handle(r) PROVE Shaped'
    BY <1>4, <1>5, RegisterShaped, LoginShaped, ForgotShaped, SendMailShaped, CloseRowShaped,
       ResetShaped, CommitShaped DEF Handle
<1>6. CASE UNCHANGED vars
    BY <1>6 DEF vars, Shaped, TypeOK, Shape, Kind, database, arrivals
<1> QED
    BY <1>1, <1>2, <1>3, <1>5, <1>6 DEF Next

\* Types are kept, sessions and tokens are rows of the requests that asked for
\* them, and only throttled requests leave events.
THEOREM TypeCorrect == Spec => []TypeOK
<1>1. Shaped => TypeOK
    BY DEF Shaped
<1> QED
    BY <1>1, InitShaped, NextShaped, PTL DEF Spec

-----------------------------------------------------------------------------
(* What a step of one request leaves alone *)

Step(r) == Request(r) \/ Handle(r) \/ Fail(r)

\* A step of one request leaves the others where they are.
LEMMA OthersStay ==
    ASSUME Shaped, NEW q \in Requests, Step(q), NEW r \in Requests \ {q}
    PROVE  /\ pc'[r] = pc[r] /\ tx'[r] = tx[r] /\ result'[r] = result[r]
           /\ req'[r] = req[r] /\ before'[r] = before[r] /\ since'[r] = since[r]
<1> USE DEF GoTo, Answer, Writes, Unlock, Shaped, TypeOK
<1>1. CASE Request(q)
    <2>1. ASSUME NEW input, Arrive(q, input)
          PROVE  req'[r] = req[r] /\ before'[r] = before[r] /\ since'[r] = since[r]
        BY <2>1 DEF Arrive
    <2>2. CASE Throttle(q) \/ Admit(q) \/ Me(q) \/ Reset(q)
        BY <2>1, <2>2 DEF Throttle, Admit, Me, Reset
    <2>3. CASE Logout(q)
        BY <2>1, <2>3 DEF Logout
    <2> QED
        BY <1>1, <2>2, <2>3 DEF Request
<1>2. ASSUME RollBack(q) PROVE /\ pc'[r] = pc[r] /\ tx'[r] = tx[r] /\ result'[r] = result[r]
                               /\ req'[r] = req[r] /\ before'[r] = before[r]
                               /\ since'[r] = since[r]
    BY <1>2 DEF RollBack, arrivals
<1>3. CASE Handle(q)
    BY <1>2, <1>3 DEF Handle, RegisterKnown, RegisterNew, InsertUser, LoseRace, LoginFails,
       LoginPasses, OpenSession, ForgotUnknown, ForgotKnown, IssueToken, SendMail, RefuseToken,
       AcceptToken, UpdatePassword, ConsumeToken, FindSessions, CloseRow, EndRevoke, Commit,
       BreakDeadlock, arrivals
<1> QED
    BY <1>1, <1>2, <1>3 DEF Step, Fail

\* What a request carries does not change once it has arrived, and one that is
\* over takes no step.
LEMMA ArrivedStays ==
    ASSUME Shaped, NEW q \in Requests, Step(q), pc[q] # "new"
    PROVE  pc[q] \notin Over /\ UNCHANGED arrivals
<1>1. CASE Request(q)
    BY <1>1 DEF Request, Throttle, Admit, Me, Logout, Reset, IsNext
<1>2. CASE Fail(q)
    BY <1>2 DEF Fail, RollBack, Over
<1>3. CASE Handle(q)
    BY <1>3, WaitingIsUnderWay DEF Handle, RegisterKnown, RegisterNew, InsertUser, LoseRace,
       LoginFails, LoginPasses, OpenSession, ForgotUnknown, ForgotKnown, IssueToken, SendMail,
       RefuseToken, AcceptToken, UpdatePassword, ConsumeToken, FindSessions, CloseRow, EndRevoke,
       Commit, BreakDeadlock, RollBack, Over
<1> QED
    BY <1>1, <1>2, <1>3 DEF Step

\* Only a commit changes committed rows.
LEMMA RowsChangeAtCommit ==
    ASSUME NEW q \in Requests, Step(q), ~Commit(q)
    PROVE  UNCHANGED <<users, grants>>
<1>1. CASE Request(q)
    BY <1>1 DEF Request, Throttle, Admit, Me, Logout, Reset, database
<1>2. CASE Fail(q)
    BY <1>2 DEF Fail, RollBack
<1>3. CASE Handle(q)
    BY <1>3 DEF Handle, RegisterKnown, RegisterNew, InsertUser, LoseRace,
       LoginFails, LoginPasses, OpenSession, ForgotUnknown, ForgotKnown, IssueToken, SendMail,
       RefuseToken, AcceptToken, UpdatePassword, ConsumeToken, FindSessions, CloseRow, EndRevoke,
       BreakDeadlock, RollBack, database
<1> QED
    BY <1>1, <1>2, <1>3 DEF Step

-----------------------------------------------------------------------------
(* Acknowledged accounts *)

\* A registration that was acknowledged is about to commit its account, or there
\* is one, or its transaction failed.
Acknowledged(r) ==
    /\ pc[r] = "new" => result[r] = Unset
    /\ pc[r] = "revoke" => Kind(r) \in {"logout", "reset_password"}
    /\ Kind(r) = "register" /\ result[r] = "ok" =>
          \/ pc[r] = "failed"
          \/ Email(r) \in DOMAIN users
          \/ pc[r] = "commit" /\ "account" \in tx[r].writes

Accounts == Shaped /\ \A r \in Requests : Acknowledged(r)

\* Accounts are not deleted.
LEMMA UsersGrow ==
    ASSUME NEW q \in Requests, Step(q)
    PROVE  DOMAIN users \subseteq DOMAIN users'
<1>1. CASE Commit(q)
    BY <1>1 DEF Commit, NewUsers
<1> QED
    BY <1>1, RowsChangeAtCommit

\* The step of the request itself.
LEMMA OwnAcknowledgement ==
    ASSUME Accounts, NEW r \in Requests, Step(r)
    PROVE  Acknowledged(r)'
<1> USE DEF Accounts, Shaped, TypeOK, Kind, Email
<1>1. DOMAIN users \subseteq DOMAIN users'
    BY UsersGrow
<1>2. CASE Request(r)
    <2>1. pc[r] = "new" /\ result[r] = Unset
        BY <1>2 DEF Request, Throttle, Admit, Me, Logout, Reset, IsNext, Acknowledged
    <2>2. Unset # "ok"
        BY AuthAssumption
    <2>3. CASE Throttle(r) \/ Admit(r) \/ Reset(r)
        BY <2>1, <2>2, <2>3 DEF Throttle, Admit, Reset, GoTo, Answer, Acknowledged
    <2>4. CASE Me(r)
        <3>1. PICK input \in Bearing("me", {Unset}, LoggedIn) : Arrive(r, input)
            BY <2>4 DEF Me
        <3>2. Kind(r)' = "me"
            BY <3>1 DEF Arrive, Bearing
        <3> QED
            BY <2>4, <3>2 DEF Me, GoTo, Acknowledged
    <2>5. CASE Logout(r)
        <3>1. PICK input \in Bearing("logout", {Unset}, LoggedIn) :
                  Arrive(r, input) /\ pc'[r] # "new"
            BY <2>5 DEF Logout, GoTo
        <3>2. Kind(r)' = "logout"
            BY <3>1 DEF Arrive, Bearing
        <3> QED
            BY <3>1, <3>2 DEF Acknowledged
    <2> QED
        BY <1>2, <2>3, <2>4, <2>5 DEF Request
<1>3. CASE RollBack(r)
    <2>1. pc'[r] = "failed"
        BY <1>3 DEF RollBack, GoTo
    <2> QED
        BY <2>1 DEF Acknowledged
<1>4. CASE Commit(r)
    BY <1>1, <1>4 DEF Commit, NewUsers, GoTo, Acknowledged, arrivals
<1>5. CASE RegisterKnown(r) \/ RegisterNew(r) \/ InsertUser(r) \/ LoseRace(r)
    <2>1. CASE RegisterKnown(r)
        BY <2>1 DEF RegisterKnown, GoTo, Acknowledged, arrivals, database
    <2>2. CASE RegisterNew(r)
        BY <2>2 DEF RegisterNew, GoTo, Acknowledged, arrivals, database
    <2>3. CASE InsertUser(r)
        <3>1. pc'[r] = "commit"
            BY <2>3 DEF InsertUser, GoTo
        <3>2. tx'[r].writes = tx[r].writes \cup {"account"}
            BY <2>3 DEF InsertUser, Writes, Tx
        <3> QED
            BY <3>1, <3>2 DEF Acknowledged
    <2>4. CASE LoseRace(r)
        BY <2>4 DEF LoseRace, GoTo, Acknowledged, arrivals
    <2> QED
        BY <1>5, <2>1, <2>2, <2>3, <2>4
<1>6. CASE LoginFails(r) \/ LoginPasses(r) \/ OpenSession(r)
    BY <1>6 DEF LoginFails, LoginPasses, OpenSession, GoTo, Acknowledged, arrivals
<1>7. CASE ForgotUnknown(r) \/ ForgotKnown(r) \/ IssueToken(r) \/ SendMail(r)
    BY <1>7 DEF ForgotUnknown, ForgotKnown, IssueToken, SendMail, GoTo, Acknowledged, arrivals,
                Shape
<1>8. CASE RefuseToken(r) \/ AcceptToken(r) \/ UpdatePassword(r) \/ ConsumeToken(r)
           \/ FindSessions(r) \/ EndRevoke(r)
    BY <1>8 DEF RefuseToken, AcceptToken, UpdatePassword, ConsumeToken, FindSessions, EndRevoke,
                GoTo, Acknowledged, arrivals, Shape
<1>9. CASE CloseRow(r)
    BY <1>9 DEF CloseRow, Acknowledged, arrivals, database
<1> QED
    BY <1>2, <1>3, <1>4, <1>5, <1>6, <1>7, <1>8, <1>9 DEF Step, Handle, Fail, BreakDeadlock

LEMMA NextAccounts == Accounts /\ [Next]_vars => Accounts'
<1> SUFFICES ASSUME Accounts, [Next]_vars PROVE Accounts'
    OBVIOUS
<1>1. Shaped'
    BY NextShaped DEF Accounts
<1>2. CASE Tick \/ UNCHANGED vars
    BY <1>1, <1>2 DEF Tick, vars, Accounts, Acknowledged, Kind, Email, arrivals, database
<1>3. ASSUME NEW q \in Requests, Step(q) PROVE Accounts'
    <2>1. DOMAIN users \subseteq DOMAIN users'
        BY <1>3, UsersGrow
    <2>2. ASSUME NEW r \in Requests \ {q} PROVE Acknowledged(r)'
        <3>1. /\ pc'[r] = pc[r] /\ tx'[r] = tx[r] /\ result'[r] = result[r]
              /\ req'[r] = req[r] /\ before'[r] = before[r]
            BY <1>3, OthersStay DEF Accounts
        <3> QED
            BY <2>1, <3>1 DEF Accounts, Acknowledged, Kind, Email
    <2>3. Acknowledged(q)'
        BY <1>3, OwnAcknowledgement
    <2> QED
        BY <1>1, <2>2, <2>3 DEF Accounts
<1> QED
    BY <1>2, <1>3 DEF Next, Step

\* No registration is told that its account was created while there is none,
\* unless the database or the process failed after the answer.
THEOREM AccountsAreThere == Spec => []AcknowledgedAccountsExist
<1>1. Init => Accounts
    BY InitShaped, AuthAssumption DEF Init, Accounts, Acknowledged, Kind, NoInput, Endpoints
<1>2. Accounts => AcknowledgedAccountsExist
    BY DEF Accounts, Acknowledged, AcknowledgedAccountsExist
<1> QED
    BY <1>1, <1>2, NextAccounts, PTL DEF Spec

-----------------------------------------------------------------------------
(* What is over, and the rows it left *)

\* A request takes its first step when it arrives: it is told what is over, and
\* changes no row.
LEMMA Arrival ==
    ASSUME Shaped, NEW r \in Requests, Request(r)
    PROVE  /\ pc[r] = "new" /\ UNCHANGED <<now, users, grants, events, sent, rowLock>>
           /\ before'[r] = {q \in Requests : pc[q] \in Over}
           /\ since'[r] = now
           /\ tx'[r].writes = tx[r].writes
           /\ pc'[r] \in {"lookup", "revoke", "committed"}
<1>1. ASSUME NEW input, Arrive(r, input)
      PROVE  before'[r] = {q \in Requests : pc[q] \in Over} /\ since'[r] = now
    BY <1>1 DEF Arrive, Shaped, TypeOK
<1>2. CASE Throttle(r) \/ Admit(r) \/ Me(r) \/ Reset(r)
    BY <1>1, <1>2 DEF Throttle, Admit, Me, Reset, IsNext, database, GoTo, Shaped, TypeOK
<1>3. CASE Logout(r)
    BY <1>1, <1>3 DEF Logout, IsNext, database, GoTo, Shaped, TypeOK, Tx
<1> QED
    BY <1>2, <1>3 DEF Request

\* The steps after that: they lead on, and none leads back.
LEMMA HandlerIsUnderWay ==
    ASSUME NEW r \in Requests, Handle(r) \/ Fail(r)
    PROVE  pc[r] \notin Over \cup {"new"}
<1>1. CASE Handle(r)
    BY <1>1, WaitingIsUnderWay DEF Handle, RegisterKnown, RegisterNew, InsertUser, LoseRace,
       LoginFails, LoginPasses, OpenSession, ForgotUnknown, ForgotKnown, IssueToken, SendMail,
       RefuseToken, AcceptToken, UpdatePassword, ConsumeToken, FindSessions, CloseRow, EndRevoke,
       Commit, BreakDeadlock, Over
<1> QED
    BY <1>1 DEF Fail

LEMMA NoWayBack ==
    ASSUME Shaped, NEW r \in Requests, Step(r)
    PROVE  pc'[r] # "new"
<1>1. CASE Request(r)
    BY <1>1, Arrival
<1>2. CASE Handle(r) \/ Fail(r)
    BY <1>2 DEF Handle, Fail, BreakDeadlock, RollBack, RegisterKnown, RegisterNew, InsertUser,
       LoseRace, LoginFails, LoginPasses, OpenSession, ForgotUnknown, ForgotKnown, IssueToken,
       SendMail, RefuseToken, AcceptToken, UpdatePassword, ConsumeToken, FindSessions, CloseRow,
       EndRevoke, Commit, GoTo, Shaped, TypeOK
<1> QED
    BY <1>1, <1>2 DEF Step

\* A session or token is there since its request was committed, for its account;
\* what was over when r arrived is over; nobody is answered before arriving.
Past(r) ==
    /\ pc[r] = "new" => result[r] = Unset
    /\ r \in DOMAIN grants => pc[r] = "committed" /\ grants[r].email = Email(r)
    /\ \A g \in before[r] : pc[g] \in Over

History == Shaped /\ \A r \in Requests : Past(r)

\* Nothing reopens a session or token or removes one, and a new one is the
\* committing request's own.
LEMMA ClosedStays ==
    ASSUME History, NEW q \in Requests, Step(q)
    PROVE  /\ DOMAIN grants \subseteq DOMAIN grants'
           /\ \A g \in DOMAIN grants' :
                 \/ /\ g = q /\ Commit(q) /\ grants'[g].email = Email(q)
                    /\ "grant" \in tx[q].writes
                 \/ /\ g \in DOMAIN grants
                    /\ grants'[g].email = grants[g].email
                    /\ grants[g].closed => grants'[g].closed
<1>1. CASE Commit(q)
    <2>1. q \notin DOMAIN grants
        BY <1>1 DEF Commit, History, Past
    <2>2. \A g \in DOMAIN grants : grants[g] \in Grant
        BY DEF History, Shaped, TypeOK
    <2> QED
        BY <1>1, <2>1, <2>2 DEF Commit, NewGrants, Grant
<1> QED
    BY <1>1, RowsChangeAtCommit

LEMMA NextPast ==
    ASSUME History, NEW q \in Requests, Step(q), NEW r \in Requests
    PROVE  Past(r)'
<1> USE DEF History, Shaped, TypeOK
<1>1. \A g \in Requests : pc[g] \in Over => pc'[g] = pc[g]
    BY OthersStay, ArrivedStays DEF Over
<1>2. \A g \in Requests : pc[g] # "new" => req'[g] = req[g] /\ before'[g] = before[g]
    BY OthersStay, ArrivedStays DEF arrivals
<1>3. ASSUME r \in DOMAIN grants'
      PROVE  (pc[r] = "committed" /\ grants[r].email = Email(r) /\ grants[r].email = grants'[r].email)
             \/ (r = q /\ Commit(q) /\ grants'[r].email = Email(r))
    BY <1>3, ClosedStays DEF Past
<1>4. r \in DOMAIN grants' => pc'[r] = "committed" /\ grants'[r].email = Email(r)'
    BY <1>1, <1>2, <1>3 DEF Commit, GoTo, Over, Email
<1>5. \A g \in before'[r] : pc'[g] \in Over
    <2>1. CASE before'[r] = before[r]
        BY <1>1, <2>1 DEF Past
    <2>2. CASE before'[r] # before[r]
        <3>1. q = r /\ pc[r] = "new"
            BY <2>2, OthersStay, ArrivedStays DEF arrivals
        <3>2. before'[r] = {g \in Requests : pc[g] \in Over}
            BY <3>1, HandlerIsUnderWay, Arrival DEF Step
        <3> QED
            BY <1>1, <3>2
    <2> QED
        BY <2>1, <2>2
<1>6. pc'[r] = "new" => result'[r] = Unset
    <2>1. CASE q = r
        BY <2>1, NoWayBack
    <2>2. CASE q # r
        BY <2>2, OthersStay DEF Past
    <2> QED
        BY <2>1, <2>2
<1> QED
    BY <1>4, <1>5, <1>6 DEF Past

LEMMA NextHistory == History /\ [Next]_vars => History'
<1> SUFFICES ASSUME History, [Next]_vars PROVE History'
    OBVIOUS
<1>1. Shaped'
    BY NextShaped DEF History
<1>2. CASE Tick \/ UNCHANGED vars
    BY <1>1, <1>2 DEF Tick, vars, History, Past, Email, arrivals, database
<1> QED
    BY <1>1, <1>2, NextPast DEF Next, Step, History

LEMMA InitHistory == Init => History
BY InitShaped DEF Init, History, Past

\* What was over when r arrived stays as it is, and gets no session or token any
\* more; the ones it got stay, and stay closed.
LEMMA EarlierStays ==
    ASSUME History, NEW q \in Requests, Step(q), NEW r \in Requests, pc[r] # "new"
    PROVE  /\ req'[r] = req[r] /\ before'[r] = before[r] /\ since'[r] = since[r]
           /\ \A g \in before[r] :
                 /\ g \in Requests /\ g # q /\ pc[g] \in Over
                 /\ pc'[g] = pc[g] /\ req'[g] = req[g] /\ result'[g] = result[g]
                 /\ before'[g] = before[g] /\ since'[g] = since[g]
                 /\ g \in DOMAIN grants' =>
                       g \in DOMAIN grants /\ (grants[g].closed => grants'[g].closed)
<1> USE DEF History, Shaped, TypeOK
<1>1. req'[r] = req[r] /\ before'[r] = before[r] /\ since'[r] = since[r]
    BY OthersStay, ArrivedStays DEF arrivals
<1>2. ASSUME NEW g \in before[r]
      PROVE  /\ g \in Requests /\ g # q /\ pc[g] \in Over
             /\ pc'[g] = pc[g] /\ req'[g] = req[g] /\ result'[g] = result[g]
             /\ before'[g] = before[g] /\ since'[g] = since[g]
             /\ g \in DOMAIN grants' =>
                   g \in DOMAIN grants /\ (grants[g].closed => grants'[g].closed)
    <2>1. g \in Requests /\ pc[g] \in Over
        BY <1>2 DEF Past
    <2>2. g # q
        BY <2>1, ArrivedStays DEF Over
    <2>3. g \in DOMAIN grants' => g \in DOMAIN grants /\ (grants[g].closed => grants'[g].closed)
        BY <2>2, ClosedStays
    <2> QED
        BY <2>1, <2>2, <2>3, OthersStay
<1> QED
    BY <1>1, <1>2

-----------------------------------------------------------------------------
(* Ended sessions *)

\* The sessions that a reset or a logout must close.
Due(r) ==
    {g \in before[r] \cap DOMAIN grants :
        \/ Kind(r) = "reset_password" /\ Kind(g) = "login" /\ Email(g) = Email(r)
        \/ Kind(r) = "logout" /\ g = req[r].grant}

\* How far it has got with one of them.
Handled(r, g) ==
    /\ pc[r] = "revoke" => g \in tx[r].targets \cup tx[r].held \/ grants[g].closed
    /\ pc[r] = "commit" => g \in tx[r].held \/ grants[g].closed
    /\ pc[r] = "committed" /\ result[r] = "ok" => grants[g].closed

Ending(r) ==
    /\ Kind(r) \in {"reset_password", "logout"} => \A g \in Due(r) : Handled(r, g)
    /\ Kind(r) = "logout" => result[r] = "ok"

\* A request that was let in with a session came before the session's end.
LetIn(m) ==
    Kind(m) = "me" =>
        /\ pc[m] \in Over
        /\ result[m] = "ok" =>
              ~ \E q \in before[m] :
                    /\ Committed(q)
                    /\ req[m].grant \in before[q]
                    /\ \/ Kind(q) = "logout" /\ req[q].grant = req[m].grant
                       \/ Kind(q) = "reset_password" /\ result[q] = "ok" /\ Email(q) = Email(m)

Ledger == History /\ \A r \in Requests : Ending(r) /\ LetIn(r)

\* What a request must close does not grow once it has arrived.
LEMMA DueStays ==
    ASSUME History, NEW q \in Requests, Step(q), NEW r \in Requests, pc[r] # "new"
    PROVE  /\ Kind(r)' = Kind(r)
           /\ \A g \in Due(r)' : g \in Due(r) /\ g # q /\ (grants[g].closed => grants'[g].closed)
BY EarlierStays DEF Due, Kind, Email

\* The bearer of a session, when it arrives.
LEMMA BearerOfSession ==
    ASSUME Ledger, NEW r \in Requests, NEW kind, NEW input \in Bearing(kind, {Unset}, LoggedIn),
           Arrive(r, input), IsNext(r)
    PROVE  LET g == input.grant IN
           /\ Kind(r)' = kind /\ req'[r].grant = g /\ Email(r)' = Email(g)
           /\ g \in Requests /\ Kind(g) = "login" /\ input.email = Email(g)
<1>1. PICK g \in LoggedIn : input.kind = kind /\ input.grant = g /\ input.email = Email(g)
    BY DEF Bearing
<1>2. req' = [req EXCEPT ![r] = input]
    BY DEF Arrive
<1> QED
    BY <1>1, <1>2 DEF LoggedIn, Ledger, History, Shaped, TypeOK, Kind, Email

LEMMA MeArrives ==
    ASSUME Ledger, NEW r \in Requests, Me(r)
    PROVE  Ending(r)' /\ LetIn(r)'
<1> USE DEF Ledger, History, Shaped, TypeOK
<1>1. before'[r] = {q \in Requests : pc[q] \in Over} /\ pc[r] = "new"
    BY Arrival DEF Request
<1>2. PICK input \in Bearing("me", {Unset}, LoggedIn) :
          /\ Arrive(r, input)
          /\ Answer(r, IF Resolves(input.grant) THEN "ok" ELSE "refused")
          /\ GoTo(r, "committed")
    BY DEF Me
<1> DEFINE g == input.grant
<1>3. /\ Kind(r)' = "me" /\ req'[r].grant = g /\ Email(r)' = Email(g)
      /\ g \in Requests /\ Kind(g) = "login"
    BY <1>2, BearerOfSession DEF Me
<1>4. result'[r] = (IF Resolves(g) THEN "ok" ELSE "refused") /\ pc'[r] \in Over
    BY <1>2 DEF Answer, GoTo, Over
<1> HIDE DEF g
<1>5. \A q \in before'[r] : q # r /\ pc'[q] = pc[q] /\ req'[q] = req[q]
                            /\ before'[q] = before[q] /\ result'[q] = result[q]
    BY <1>1, OthersStay DEF Step, Request, Over
<1>6. SUFFICES ASSUME result'[r] = "ok", NEW q \in before'[r], Committed(q)', g \in before'[q],
                      \/ Kind(q)' = "logout" /\ req'[q].grant = g
                      \/ Kind(q)' = "reset_password" /\ result'[q] = "ok" /\ Email(q)' = Email(g)
               PROVE  FALSE
    BY <1>3, <1>4 DEF Ending, LetIn
<1>7. q \in Requests /\ pc[q] = "committed" /\ g \in before[q] /\ g \in DOMAIN grants
      /\ ~grants[g].closed
    BY <1>1, <1>4, <1>5, <1>6 DEF Resolves, Committed
<1>8. g \in Due(q) /\ result[q] = "ok" /\ Kind(q) \in {"reset_password", "logout"}
    BY <1>3, <1>5, <1>6, <1>7 DEF Due, Ending, Kind, Email
<1> QED
    BY <1>7, <1>8 DEF Ending, Handled

LEMMA LogoutArrives ==
    ASSUME Ledger, NEW r \in Requests, Logout(r)
    PROVE  Ending(r)' /\ LetIn(r)'
<1> USE DEF Ledger, History, Shaped, TypeOK
<1>1. UNCHANGED grants
    BY Arrival DEF Request
<1>2. PICK input \in Bearing("logout", {Unset}, LoggedIn) :
          LET found == {input.grant} \cap OpenSessions(input.email) IN
          /\ Arrive(r, input)
          /\ tx' = [tx EXCEPT ![r].targets = found]
          /\ Answer(r, "ok")
          /\ GoTo(r, IF found = {} THEN "committed" ELSE "revoke")
    BY DEF Logout
<1> DEFINE g == input.grant
<1>3. /\ Kind(r)' = "logout" /\ req'[r].grant = g
      /\ g \in Requests /\ Kind(g) = "login" /\ input.email = Email(g)
    BY <1>2, BearerOfSession DEF Logout
<1> DEFINE found == {g} \cap OpenSessions(Email(g))
<1>4. /\ tx'[r].targets = found /\ result'[r] = "ok"
      /\ pc'[r] = (IF found = {} THEN "committed" ELSE "revoke")
    BY <1>2, <1>3 DEF GoTo, Tx, Answer
<1>5. SUFFICES ASSUME g \in DOMAIN grants PROVE Handled(r, g)'
    BY <1>1, <1>3, <1>4 DEF Ending, LetIn, Due
<1>6. grants[g].closed \/ found = {g}
    BY <1>3, <1>5 DEF Past, OpenSessions
<1> HIDE DEF found, g
<1> QED
    BY <1>1, <1>4, <1>6 DEF Handled

\* The step of the request itself.
LEMMA OwnEnding ==
    ASSUME Ledger, NEW r \in Requests, Step(r)
    PROVE  Ending(r)' /\ LetIn(r)'
<1> USE DEF Ledger, History, Shaped, TypeOK
<1>1. CASE Request(r)
    <2>1. CASE Throttle(r) \/ Admit(r)
        <3>1. PICK input \in Attempts : Arrive(r, input)
            BY <2>1 DEF Throttle, Admit
        <3>2. Kind(r)' \notin {"reset_password", "logout", "me"}
            BY <3>1 DEF Arrive, Attempts, Kind
        <3> QED
            BY <3>2 DEF Ending, LetIn
    <2>2. CASE Reset(r)
        <3>1. PICK input \in Bearing("reset_password", Passwords, sent) : Arrive(r, input)
            BY <2>2 DEF Reset
        <3>2. Kind(r)' = "reset_password" /\ pc'[r] = "lookup"
            BY <2>2, <3>1 DEF Arrive, Bearing, Kind, Reset, GoTo
        <3> QED
            BY <3>2 DEF Ending, Handled, LetIn
    <2> QED
        BY <1>1, <2>1, <2>2, MeArrives, LogoutArrives DEF Request
<1>2. ASSUME Handle(r) \/ Fail(r) PROVE Ending(r)' /\ LetIn(r)'
    <2>1. pc[r] \notin Over \cup {"new"}
        BY <1>2, HandlerIsUnderWay
    <2>2. Kind(r)' = Kind(r)
        BY <2>1, DueStays
    <2>3. LetIn(r)'
        BY <2>1, <2>2 DEF LetIn
    <2>4. Kind(r) = "logout" => result'[r] = "ok"
        <3>1. CASE RollBack(r)
            BY <3>1 DEF RollBack, Ending
        <3>2. SUFFICES ASSUME Kind(r) = "logout", ~RollBack(r) PROVE result'[r] = "ok"
            BY <3>1
        <3>3. CloseRow(r) \/ EndRevoke(r) \/ Commit(r)
            BY <1>2, <3>2 DEF Handle, Fail, BreakDeadlock, RegisterKnown, RegisterNew, InsertUser,
               LoseRace, LoginFails, LoginPasses, OpenSession, ForgotUnknown, ForgotKnown,
               IssueToken, SendMail, RefuseToken, AcceptToken, UpdatePassword, ConsumeToken,
               FindSessions, Shape
        <3> QED
            BY <3>2, <3>3 DEF CloseRow, EndRevoke, Commit, Answer, Ending
    <2>5. SUFFICES ASSUME Kind(r) \in {"reset_password", "logout"}, NEW g \in Due(r),
                          Handled(r, g), grants[g].closed => grants'[g].closed, g # r
                   PROVE  Handled(r, g)'
        BY <2>1, <2>2, <2>3, <2>4, <1>2, DueStays DEF Ending, Step
    <2>6. CASE RollBack(r)
        BY <2>6 DEF RollBack, GoTo, Handled
    <2>7. CASE RegisterKnown(r) \/ RegisterNew(r) \/ InsertUser(r) \/ LoseRace(r)
               \/ LoginFails(r) \/ LoginPasses(r) \/ OpenSession(r)
               \/ ForgotUnknown(r) \/ ForgotKnown(r) \/ IssueToken(r) \/ SendMail(r)
        BY <2>5, <2>7 DEF RegisterKnown, RegisterNew, InsertUser, LoseRace, LoginFails,
           LoginPasses, OpenSession, ForgotUnknown, ForgotKnown, IssueToken, SendMail, Shape
    <2>8. CASE RefuseToken(r) \/ AcceptToken(r) \/ UpdatePassword(r) \/ ConsumeToken(r)
        BY <2>8 DEF RefuseToken, AcceptToken, UpdatePassword, ConsumeToken, GoTo, Answer, Handled
    <2>9. CASE FindSessions(r)
        <3>1. grants[g].email = Email(r) /\ Kind(g) = "login" /\ g \in DOMAIN grants
            BY <2>5, <2>9 DEF FindSessions, Due, Past
        <3>2. g \in OpenSessions(Email(r)) \/ grants[g].closed
            BY <3>1 DEF OpenSessions
        <3>3. tx'[r].targets = OpenSessions(Email(r)) /\ pc'[r] = "revoke"
            BY <2>9 DEF FindSessions, GoTo, Tx
        <3> QED
            BY <2>5, <3>2, <3>3 DEF Handled
    <2>10. CASE CloseRow(r)
        <3>1. PICK h \in tx[r].targets :
                 tx' = [tx EXCEPT ![r].targets = @ \ {h},
                                  ![r].held = IF grants[h].closed THEN @ ELSE @ \cup {h}]
            BY <2>10 DEF CloseRow
        <3>2. /\ tx'[r].targets = tx[r].targets \ {h}
              /\ tx'[r].held = IF grants[h].closed THEN tx[r].held ELSE tx[r].held \cup {h}
            BY <3>1 DEF Tx
        <3>3. pc'[r] \in {"invalidate", "revoke"} /\ pc'[r] = pc[r]
            BY <2>10 DEF CloseRow
        <3> QED
            BY <2>5, <3>2, <3>3 DEF Handled
    <2>11. CASE EndRevoke(r)
        BY <2>5, <2>11 DEF EndRevoke, GoTo, Handled
    <2>12. CASE Commit(r)
        <3>1. g \in DOMAIN grants /\ grants[g] \in Grant
            BY <2>5 DEF Due
        <3>2. grants'[g].closed
            BY <2>5, <2>12, <3>1 DEF Commit, NewGrants, Handled, Grant
        <3> QED
            BY <2>12, <3>2 DEF Commit, GoTo, Handled
    <2> QED
        BY <1>2, <2>6, <2>7, <2>8, <2>9, <2>10, <2>11, <2>12 DEF Handle, Fail, BreakDeadlock
<1> QED
    BY <1>1, <1>2 DEF Step

\* The steps of the others.
LEMMA OtherEnding ==
    ASSUME Ledger, NEW q \in Requests, Step(q), NEW r \in Requests \ {q}
    PROVE  Ending(r)' /\ LetIn(r)'
<1> USE DEF Ledger, Kind, Email
<1>1. pc'[r] = pc[r] /\ tx'[r] = tx[r] /\ result'[r] = result[r] /\ req'[r] = req[r]
    BY OthersStay DEF History
<1>2. CASE pc[r] = "new"
    <2>1. Kind(r)' = Unset
        BY <1>1, <1>2 DEF History, Shaped, Shape
    <2> QED
        BY <2>1, AuthAssumption DEF Ending, LetIn, Endpoints
<1>3. CASE pc[r] # "new"
    <2>1. Ending(r)'
        BY <1>1, <1>3, DueStays DEF Ending, Handled
    <2>2. LetIn(r)'
        BY <1>1, <1>3, EarlierStays DEF LetIn, Committed
    <2> QED
        BY <2>1, <2>2
<1> QED
    BY <1>2, <1>3

LEMMA NextLedger == Ledger /\ [Next]_vars => Ledger'
<1> SUFFICES ASSUME Ledger, [Next]_vars PROVE Ledger'
    OBVIOUS
<1>1. History'
    BY NextHistory DEF Ledger
<1>2. CASE Tick \/ UNCHANGED vars
    BY <1>1, <1>2 DEF Tick, vars, Ledger, Ending, LetIn, Due, Handled, Committed, Kind, Email,
                      arrivals, database
<1> QED
    BY <1>1, <1>2, OwnEnding, OtherEnding DEF Next, Step, Ledger

LEMMA InitLedger == Init => Ledger
BY InitHistory, AuthAssumption DEF Init, Ledger, Ending, LetIn, Kind, NoInput, Endpoints

\* No session that was there before a reset arrived survives it, however the
\* reset's UPDATEs interleave with other requests' transactions.
THEOREM ResetsEndSessions == Spec => []ResetEndsEarlierSessions
<1>1. Ledger => ResetEndsEarlierSessions
    BY DEF Ledger, Ending, Due, Handled, ResetEndsEarlierSessions, Committed
<1> QED
    BY <1>1, InitLedger, NextLedger, PTL DEF Spec

\* A session that a logout or a reset ended lets nobody in who comes after them.
THEOREM SessionsStayEnded == Spec => []EndedSessionsStayEnded
<1>1. Ledger => EndedSessionsStayEnded
    BY DEF Ledger, LetIn, EndedSessionsStayEnded
<1> QED
    BY <1>1, InitLedger, NextLedger, PTL DEF Spec

-----------------------------------------------------------------------------
(* Spent and replaced tokens *)

\* A token is issued to somebody who has an account.
Owned(r) ==
    /\ Kind(r) = "forgot_password"
    /\ \/ pc[r] \in {"invalidate", "mail"}
       \/ "grant" \in tx[r].writes
       \/ r \in DOMAIN grants
    => Email(r) \in DOMAIN users

\* A reset carries a token of its account; it was there when the reset accepted
\* it, the transaction holds its row once it has marked it as used, and closes it.
Accepting == {"update", "consume", "invalidate", "revoke", "commit"}

Spending(r) ==
    Kind(r) = "reset_password" =>
        /\ Kind(req[r].grant) = "forgot_password" /\ Email(req[r].grant) = Email(r)
        /\ pc[r] \in Accepting => req[r].grant \in DOMAIN grants
        /\ pc[r] \in {"invalidate", "revoke", "commit"} => req[r].grant \in tx[r].held
        /\ pc[r] = "commit" => result[r] = "ok"
        /\ pc[r] = "committed" /\ result[r] = "ok" =>
              req[r].grant \in DOMAIN grants /\ grants[req[r].grant].closed

\* The tokens that a reset or a request for a new one must close, and how far it
\* has got with one of them.
Void(r) == {g \in before[r] \cap DOMAIN grants :
               Kind(g) = "forgot_password" /\ Email(g) = Email(r)}

Voided(r, g) ==
    /\ pc[r] = "invalidate" => g \in tx[r].targets \cup tx[r].held \/ grants[g].closed
    /\ pc[r] \in {"mail", "revoke", "commit"} => g \in tx[r].held \/ grants[g].closed
    /\ pc[r] = "committed" /\ result[r] = "ok" => grants[g].closed

Voiding(r) ==
    Kind(r) \in {"forgot_password", "reset_password"} => \A g \in Void(r) : Voided(r, g)

Token(r) == Owned(r) /\ Spending(r) /\ Voiding(r)

Tokens == History /\ \A r \in Requests : Token(r)

\* A request that arrives.
LEMMA TokenArrival ==
    ASSUME Tokens, NEW r \in Requests, Request(r)
    PROVE  Token(r)'
<1> USE DEF Tokens, History, Shaped, TypeOK
<1>1. UNCHANGED <<users, grants, sent>> /\ pc[r] = "new" /\ r \notin DOMAIN grants
      /\ tx'[r].writes = tx[r].writes /\ tx[r].writes = {}
    <2>1. Kind(r) = Unset
        BY Arrival DEF Shape
    <2>2. MayWrite(Unset) = {}
        BY AuthAssumption DEF MayWrite, Endpoints
    <2> QED
        BY <2>1, <2>2, Arrival DEF Past, Shape
<1>2. CASE Throttle(r) \/ Admit(r)
    <2>1. PICK input \in Attempts : Arrive(r, input)
        BY <1>2 DEF Throttle, Admit
    <2>2. Kind(r)' # "reset_password"
        BY <2>1 DEF Arrive, Attempts, Kind
    <2>3. pc'[r] = "lookup" \/ (pc'[r] = "committed" /\ result'[r] = "limited")
        BY <1>2 DEF Throttle, Admit, GoTo, Answer
    <2> QED
        BY <1>1, <2>2, <2>3 DEF Token, Owned, Spending, Voiding, Voided
<1>3. CASE Me(r) \/ Logout(r)
    <2>1. PICK input \in Bearing("me", {Unset}, LoggedIn) \cup Bearing("logout", {Unset}, LoggedIn) :
              Arrive(r, input)
        BY <1>3 DEF Me, Logout
    <2>2. Kind(r)' \in {"me", "logout"}
        BY <2>1 DEF Arrive, Bearing, Kind
    <2> QED
        BY <2>2 DEF Token, Owned, Spending, Voiding
<1>4. CASE Reset(r)
    <2>1. PICK input \in Bearing("reset_password", Passwords, sent) : Arrive(r, input)
        BY <1>4 DEF Reset
    <2>2. PICK g \in sent : /\ input.kind = "reset_password" /\ input.grant = g
                            /\ input.email = Email(g)
        BY <2>1 DEF Bearing
    <2>3. req' = [req EXCEPT ![r] = input] /\ g \in Requests /\ Kind(g) = "forgot_password"
        BY <2>1 DEF Arrive, Kind
    <2>4. g # r
        BY <1>1, <2>3, AuthAssumption DEF Shape, Endpoints
    <2>5. /\ Kind(r)' = "reset_password" /\ req'[r].grant = g
          /\ Kind(g)' = "forgot_password" /\ Email(g)' = Email(r)'
        BY <2>2, <2>3, <2>4 DEF Kind, Email
    <2>6. pc'[r] = "lookup" /\ result'[r] = result[r] /\ result[r] # "ok"
        BY <1>1, <1>4, AuthAssumption DEF Reset, GoTo, Past
    <2> QED
        BY <2>5, <2>6 DEF Token, Owned, Spending, Voiding, Voided, Accepting
<1> QED
    BY <1>2, <1>3, <1>4 DEF Request

\* What the steps of others and its own leave alone once r has arrived.
LEMMA TokenFacts ==
    ASSUME Tokens, NEW q \in Requests, Step(q), NEW r \in Requests, pc[r] # "new"
    PROVE  /\ Kind(r)' = Kind(r) /\ Email(r)' = Email(r) /\ req'[r] = req[r]
           /\ DOMAIN users \subseteq DOMAIN users' /\ DOMAIN grants \subseteq DOMAIN grants'
           /\ \A g \in Void(r)' : g \in Void(r) /\ (grants[g].closed => grants'[g].closed)
           /\ before'[r] = before[r]
           /\ Kind(r) = "reset_password" =>
                 LET g == req[r].grant IN
                 /\ g \in Requests /\ Kind(g)' = "forgot_password" /\ Email(g)' = Email(r)
                 /\ g \in DOMAIN grants /\ grants[g].closed => grants'[g].closed
<1> USE DEF Tokens, Kind, Email
<1>1. /\ req'[r] = req[r] /\ before'[r] = before[r]
      /\ \A g \in Void(r)' : g \in Void(r) /\ (grants[g].closed => grants'[g].closed)
    BY EarlierStays DEF Void
<1>2. DOMAIN users \subseteq DOMAIN users' /\ DOMAIN grants \subseteq DOMAIN grants'
    BY UsersGrow, ClosedStays
<1>3. ASSUME Kind(r) = "reset_password", NEW g, g = req[r].grant
      PROVE  /\ g \in Requests /\ Kind(g)' = "forgot_password" /\ Email(g)' = Email(r)
             /\ g \in DOMAIN grants /\ grants[g].closed => grants'[g].closed
    <2>1. g \in Requests /\ Kind(g) = "forgot_password" /\ Email(g) = Email(r)
        BY <1>3 DEF Token, Spending, History, Shaped, Shape, WellFormed
    <2>2. pc[g] # "new"
        BY <2>1, AuthAssumption DEF History, Shaped, Shape, Endpoints
    <2>3. req'[g] = req[g]
        BY <2>1, <2>2, EarlierStays
    <2>4. g \in DOMAIN grants /\ grants[g].closed => grants'[g].closed
        BY ClosedStays DEF Commit, History, Past
    <2> QED
        BY <2>1, <2>3, <2>4
<1> QED
    BY <1>1, <1>2, <1>3

\* The steps of the others.
LEMMA TokenOthers ==
    ASSUME Tokens, NEW q \in Requests, Step(q), NEW r \in Requests \ {q}
    PROVE  Token(r)'
<1>1. /\ pc'[r] = pc[r] /\ tx'[r] = tx[r] /\ result'[r] = result[r] /\ req'[r] = req[r]
      /\ r \in DOMAIN grants' => r \in DOMAIN grants
    BY OthersStay, ClosedStays DEF Tokens, History
<1>2. CASE pc[r] = "new"
    <2>1. Kind(r)' = Unset
        BY <1>1, <1>2 DEF Tokens, History, Shaped, Shape, Kind
    <2> QED
        BY <2>1, AuthAssumption DEF Token, Owned, Spending, Voiding, Endpoints
<1>3. CASE pc[r] # "new"
    <2>1. Token(r) /\ r \in Requests
        BY DEF Tokens
    <2>2. Owned(r)'
        BY <1>1, <1>3, <2>1, TokenFacts DEF Token, Owned
    <2>3. Spending(r)'
        BY <1>1, <1>3, <2>1, TokenFacts DEF Token, Spending
    <2>4. Voiding(r)'
        BY <1>1, <1>3, <2>1, TokenFacts DEF Token, Voiding, Voided
    <2> QED
        BY <2>2, <2>3, <2>4 DEF Token
<1> QED
    BY <1>2, <1>3

\* The steps of a handler, but for the commit and the end by a failure.
LEMMA TokenHandler ==
    ASSUME Tokens, NEW r \in Requests, Handle(r), ~Commit(r), ~RollBack(r)
    PROVE  Token(r)'
<1>0. /\ pc \in [Requests -> Places] /\ tx \in [Requests -> Tx]
      /\ result \in [Requests -> {Unset, "ok", "refused", "limited", "error"}]
      /\ before[r] \subseteq Requests /\ \A q \in Requests : Token(q) /\ Past(q) /\ Shape(q)
    BY DEF Tokens, History, Shaped, TypeOK
<1>1. pc[r] # "new"
    BY HandlerIsUnderWay
<1>2. /\ Kind(r)' = Kind(r) /\ Email(r)' = Email(r) /\ req'[r] = req[r]
      /\ UNCHANGED <<users, grants>> /\ before'[r] = before[r]
      /\ \A g \in Void(r)' : g \in Void(r)
    BY <1>1, TokenFacts, RowsChangeAtCommit DEF Step
<1>3. Kind(r) = "reset_password" =>
         /\ Kind(req[r].grant)' = "forgot_password"
         /\ Email(req[r].grant)' = Email(r)
    BY <1>1, TokenFacts DEF Step
<1>4. CASE Kind(r) \notin {"forgot_password", "reset_password"}
    BY <1>0, <1>2, <1>4 DEF Token, Owned, Spending, Voiding
<1>5. CASE ForgotUnknown(r)
    <2>1. /\ Kind(r) = "forgot_password" /\ pc'[r] = "commit" /\ Email(r) \notin DOMAIN users
          /\ tx'[r].writes = tx[r].writes \cup {"event"} /\ pc[r] = "lookup"
        BY <1>0, <1>5 DEF ForgotUnknown, GoTo, Writes, Tx
    <2>2. \A g \in Void(r) : FALSE
        BY <1>0, <2>1 DEF Void, Token, Owned
    <2> QED
        BY <1>0, <1>2, <2>1, <2>2 DEF Token, Owned, Spending, Voiding
<1>6. CASE ForgotKnown(r)
    <2>1. /\ Kind(r) = "forgot_password" /\ pc'[r] = "invalidate" /\ Email(r) \in DOMAIN users
          /\ tx'[r].targets = OpenTokens(Email(r))
        BY <1>0, <1>6 DEF ForgotKnown, GoTo, Tx
    <2>2. \A g \in Void(r) : g \in OpenTokens(Email(r)) \/ grants[g].closed
        BY <1>0 DEF Void, OpenTokens, Past
    <2> QED
        BY <1>0, <1>2, <2>1, <2>2 DEF Token, Owned, Spending, Voiding, Voided
<1>7. CASE IssueToken(r)
    <2>1. /\ Kind(r) = "forgot_password" /\ pc'[r] = "mail" /\ pc[r] = "invalidate"
          /\ tx'[r].held = tx[r].held /\ tx[r].targets = {}
        BY <1>0, <1>7 DEF IssueToken, GoTo, Tx
    <2> QED
        BY <1>0, <1>2, <2>1 DEF Token, Owned, Spending, Voiding, Voided
<1>8. CASE SendMail(r)
    <2>1. /\ Kind(r) = "forgot_password" /\ pc'[r] = "commit" /\ pc[r] = "mail"
          /\ tx' = tx
        BY <1>0, <1>8 DEF SendMail, GoTo, Shape
    <2> QED
        BY <1>0, <1>2, <2>1 DEF Token, Owned, Spending, Voiding, Voided
<1>9. CASE CloseRow(r)
    <2>1. PICK h \in tx[r].targets :
             tx' = [tx EXCEPT ![r].targets = @ \ {h},
                              ![r].held = IF grants[h].closed THEN @ ELSE @ \cup {h}]
        BY <1>0, <1>9 DEF CloseRow
    <2>2. /\ tx'[r].targets = tx[r].targets \ {h} /\ tx'[r].writes = tx[r].writes
          /\ tx'[r].held = IF grants[h].closed THEN tx[r].held ELSE tx[r].held \cup {h}
        BY <1>0, <2>1 DEF Tx
    <2>3. pc[r] \in {"invalidate", "revoke"} /\ pc' = pc /\ result' = result
        BY <1>0, <1>9 DEF CloseRow
    <2>4. Owned(r)'
        BY <1>0, <1>2, <2>2, <2>3 DEF Token, Owned
    <2>5. Spending(r)'
        BY <1>0, <1>2, <1>3, <2>2, <2>3 DEF Token, Spending
    <2>6. Voiding(r)'
        <3> SUFFICES ASSUME Kind(r) \in {"forgot_password", "reset_password"}, NEW g \in Void(r)
                     PROVE  Voided(r, g)'
            BY <1>0, <1>2 DEF Voiding
        <3>1. Voided(r, g)
            BY <1>0 DEF Token, Voiding
        <3> QED
            BY <1>0, <1>2, <2>2, <2>3, <3>1 DEF Voided
    <2> QED
        BY <1>0, <2>4, <2>5, <2>6 DEF Token
<1>10. CASE RefuseToken(r)
    <2>1. Kind(r) = "reset_password" /\ pc'[r] = "committed" /\ result'[r] = "refused"
        BY <1>0, <1>10 DEF RefuseToken, GoTo, Answer
    <2> QED
        BY <1>0, <1>2, <1>3, <2>1 DEF Token, Owned, Spending, Voiding, Voided, Accepting
<1>11. CASE AcceptToken(r)
    <2>1. Kind(r) = "reset_password" /\ pc'[r] = "update" /\ TokenIsGood(r)
        BY <1>0, <1>11 DEF AcceptToken, GoTo
    <2>2. req[r].grant \in DOMAIN grants
        BY <2>1 DEF TokenIsGood
    <2> QED
        BY <1>0, <1>2, <1>3, <2>1, <2>2 DEF Token, Owned, Spending, Voiding, Voided, Accepting
<1>12. CASE UpdatePassword(r)
    <2>1. Kind(r) = "reset_password" /\ pc[r] = "update" /\ pc'[r] = "consume"
        BY <1>0, <1>12 DEF UpdatePassword, GoTo
    <2> QED
        BY <1>0, <1>2, <1>3, <2>1
        DEF Token, Owned, Spending, Voiding, Voided, Accepting
<1>13. CASE ConsumeToken(r)
    <2>1. /\ Kind(r) = "reset_password" /\ pc[r] = "consume" /\ pc'[r] = "invalidate"
          /\ tx'[r].held = {req[r].grant}
          /\ tx'[r].targets = OpenTokens(Email(r)) \ {req[r].grant}
        BY <1>0, <1>13 DEF ConsumeToken, GoTo, Shape, Tx
    <2>2. \A g \in Void(r) : g \in OpenTokens(Email(r)) \/ grants[g].closed
        BY <1>0 DEF Void, OpenTokens, Past
    <2> QED
        BY <1>0, <1>2, <1>3, <2>1, <2>2
        DEF Token, Owned, Spending, Voiding, Voided, Accepting
<1>14. CASE FindSessions(r)
    <2>1. /\ Kind(r) = "reset_password" /\ pc[r] = "invalidate" /\ pc'[r] = "revoke"
          /\ tx[r].targets = {} /\ tx'[r].held = tx[r].held
        BY <1>0, <1>14 DEF FindSessions, GoTo, Tx
    <2> QED
        BY <1>0, <1>2, <1>3, <2>1 DEF Token, Owned, Spending, Voiding, Voided, Accepting
<1>15. CASE EndRevoke(r)
    <2>1. /\ pc[r] = "revoke" /\ pc'[r] = "commit" /\ result'[r] = "ok" /\ tx' = tx
        BY <1>0, <1>15 DEF EndRevoke, GoTo, Answer
    <2> QED
        BY <1>0, <1>2, <1>3, <2>1 DEF Token, Owned, Spending, Voiding, Voided, Accepting
<1>16. CASE \/ RegisterKnown(r) \/ RegisterNew(r) \/ InsertUser(r) \/ LoseRace(r)
            \/ LoginFails(r) \/ LoginPasses(r) \/ OpenSession(r)
    BY <1>0, <1>4, <1>16 DEF RegisterKnown, RegisterNew, InsertUser, LoseRace, LoginFails, LoginPasses,
                       OpenSession, Shape
<1> QED
    BY <1>0, <1>5, <1>6, <1>7, <1>8, <1>9, <1>10, <1>11, <1>12, <1>13, <1>14, <1>15, <1>16
    DEF Handle, BreakDeadlock

LEMMA TokenEnd ==
    ASSUME Tokens, NEW r \in Requests, Step(r), Commit(r) \/ RollBack(r), pc[r] # "new"
    PROVE  Token(r)'
<1>0. /\ pc \in [Requests -> Places] /\ tx \in [Requests -> Tx]
      /\ result \in [Requests -> {Unset, "ok", "refused", "limited", "error"}]
      /\ before[r] \subseteq Requests /\ \A q \in Requests : Token(q) /\ Past(q) /\ Shape(q)
      /\ grants \in [DOMAIN grants -> Grant]
    BY DEF Tokens, History, Shaped, TypeOK
<1>1. /\ Kind(r)' = Kind(r) /\ Email(r)' = Email(r) /\ req'[r] = req[r]
      /\ DOMAIN users \subseteq DOMAIN users' /\ DOMAIN grants \subseteq DOMAIN grants'
      /\ before'[r] = before[r]
      /\ \A g \in Void(r)' : g \in Void(r)
    BY TokenFacts
<1>2. Kind(r) = "reset_password" =>
         /\ Kind(req[r].grant)' = "forgot_password"
         /\ Email(req[r].grant)' = Email(r)
    BY TokenFacts
<1>3. CASE Commit(r)
    <2>1. pc[r] = "commit" /\ pc'[r] = "committed" /\ result' = result /\ tx'[r].writes = {}
        BY <1>0, <1>3 DEF Commit, GoTo, Unlock, NoTx
    <2>2. \A g \in DOMAIN grants \cap tx[r].held : grants'[g].closed
        BY <1>0, <1>3, <2>1 DEF Commit, NewGrants, Grant, Past
    <2>3. \A g \in DOMAIN grants : grants[g].closed => grants'[g].closed
        BY <1>0, <2>1, ClosedStays DEF Past, Tokens
    <2>4. r \in DOMAIN grants' => r \in DOMAIN grants \/ "grant" \in tx[r].writes
        BY <1>0, <1>3 DEF Commit, NewGrants
    <2>5. Owned(r)'
        BY <1>0, <1>1, <2>1, <2>4 DEF Token, Owned
    <2>6. Spending(r)'
        BY <1>0, <1>1, <1>2, <2>1, <2>2 DEF Token, Spending, Accepting
    <2>7. Voiding(r)'
        BY <1>0, <1>1, <2>1, <2>2, <2>3 DEF Token, Voiding, Voided, Void
    <2> QED
        BY <1>0, <2>5, <2>6, <2>7 DEF Token
<1>4. CASE RollBack(r)
    <2>1. pc'[r] = "failed" /\ UNCHANGED grants /\ (result'[r] = "ok" => result[r] = "ok")
          /\ tx'[r].writes = {}
        BY <1>0, <1>4 DEF RollBack, GoTo, Unlock, NoTx
    <2> QED
        BY <1>0, <1>1, <1>2, <2>1 DEF Token, Owned, Spending, Voiding, Voided, Accepting
<1> QED
    BY <1>0, <1>3, <1>4

LEMMA NextTokens == Tokens /\ [Next]_vars => Tokens'
<1> SUFFICES ASSUME Tokens, [Next]_vars PROVE Tokens'
    OBVIOUS
<1>1. History'
    BY NextHistory DEF Tokens
<1>2. CASE Tick \/ UNCHANGED vars
    BY <1>1, <1>2 DEF Tick, vars, Tokens, Token, Owned, Spending, Voiding, Voided, Void,
                      Kind, Email, arrivals, database
<1>3. ASSUME NEW q \in Requests, Step(q) PROVE Tokens'
    <2>1. Token(q)'
        <3>1. CASE Request(q)
            BY <3>1, TokenArrival
        <3>2. CASE Handle(q) \/ Fail(q)
            <4>1. pc[q] # "new"
                BY <3>2, HandlerIsUnderWay
            <4> QED
                BY <1>3, <3>2, <4>1, TokenHandler, TokenEnd DEF Fail
        <3> QED
            BY <1>3, <3>1, <3>2 DEF Step
    <2> QED
        BY <1>1, <1>3, <2>1, TokenOthers DEF Tokens
<1> QED
    BY <1>2, <1>3 DEF Next, Step

LEMMA InitTokens == Init => Tokens
BY InitHistory, AuthAssumption DEF Init, Tokens, Token, Owned, Spending, Voiding, Kind,
   NoInput, Endpoints

\* Whoever took the token of an account out of use, and was committed, closed it.
LEMMA OutdatedIsClosed ==
    ASSUME Tokens, NEW q \in Requests, NEW r \in Requests, Kind(r) = "reset_password",
           req[r].grant \in DOMAIN grants, Outdates(q, r)
    PROVE  grants[req[r].grant].closed
<1> DEFINE g == req[r].grant
<1>1. Token(q) /\ Token(r)
    BY DEF Tokens
<1>2. Kind(g) = "forgot_password" /\ Email(g) = Email(r)
    BY <1>1 DEF Token, Spending
<1>3. CASE Kind(q) = "reset_password" /\ req[q].grant = g
    BY <1>1, <1>3 DEF Outdates, Committed, Token, Spending
<1>4. CASE Kind(q) \in {"reset_password", "forgot_password"} /\ g \in before[q]
    <2>1. g \in Void(q)
        BY <1>2, <1>4 DEF Outdates, Void
    <2> QED
        BY <1>1, <1>4, <2>1 DEF Outdates, Committed, Token, Voiding, Voided
<1> QED
    BY <1>3, <1>4 DEF Outdates

\* A reset accepts no token that was used or replaced by a transaction committed
\* before it looks.  Two resets that look before either commits both pass.
THEOREM TokensAreTheLatest == Spec => AcceptedTokensAreTheLatest
<1> DEFINE Accepts(r) == Kind(r) = "reset_password" /\ pc[r] = "lookup" /\ pc'[r] = "update"
<1>1. ASSUME Tokens, [Next]_vars, NEW r \in Requests, Accepts(r), NEW q \in Requests,
             Outdates(q, r)
      PROVE  FALSE
    <2>1. PICK p \in Requests : Step(p)
        BY <1>1 DEF Next, Step, Tick, vars
    <2>2. p = r
        BY <1>1, <2>1, OthersStay DEF Tokens, History
    <2>3. pc \in [Requests -> Places] /\ Handle(r) /\ ~RollBack(r)
        BY <1>1, <2>1, <2>2, HandlerIsUnderWay
        DEF Tokens, History, Shaped, TypeOK, Step, Fail, RollBack, GoTo, Request, Throttle, Admit,
            Me, Logout, Reset, IsNext
    <2>4. AcceptToken(r)
        BY <1>1, <2>3
        DEF Handle, BreakDeadlock, RegisterKnown, RegisterNew, InsertUser, LoseRace, LoginFails,
            LoginPasses, OpenSession, ForgotUnknown, ForgotKnown, IssueToken, SendMail,
            RefuseToken, UpdatePassword, ConsumeToken, FindSessions, CloseRow, EndRevoke, Commit,
            GoTo
    <2>5. req[r].grant \in DOMAIN grants /\ ~grants[req[r].grant].closed
        BY <2>4 DEF AcceptToken, TokenIsGood
    <2> QED
        BY <1>1, <2>5, OutdatedIsClosed
<1>2. Tokens /\ [Next]_vars =>
         [\A r \in Requests : Accepts(r) => ~ \E q \in Requests : Outdates(q, r)]_vars
    BY <1>1
<1> QED
    BY <1>2, InitTokens, NextTokens, PTL DEF Spec, AcceptedTokensAreTheLatest

-----------------------------------------------------------------------------
(* The account's password *)

\* What a transaction has in hand for the account: nothing before its request is
\* served or when it is over; a new account only while it holds the identifier
\* and nobody else has it; a reset its password; a login the hash it renewed.
Pending(r) ==
    /\ pc[r] \in {"new", "lookup"} \cup Over => tx[r].writes = {}
    /\ "account" \in tx[r].writes => rowLock[Email(r)] = r /\ Email(r) \notin DOMAIN users
    /\ Kind(r) = "reset_password" /\ pc[r] \in {"consume", "invalidate", "revoke", "commit"} =>
          "password" \in tx[r].writes
    /\ Kind(r) = "login" /\ "password" \in tx[r].writes =>
          \/ pc[r] = "update"
          \/ pc[r] = "commit" /\ result[r] = "ok"

Renewed(r) == Kind(r) = "reset_password" /\ Committed(r) /\ result[r] = "ok"

\* Somebody else wrote the password of r's account, later than r or beside it.
Overwritten(r) ==
    \E q \in Requests \ {r} :
        /\ Committed(q) /\ result[q] = "ok" /\ Email(q) = Email(r)
        /\ \/ Kind(q) = "reset_password" /\ q \notin before[r]
           \/ Kind(q) = "login" /\ Overlap(q, r)

\* A reset leaves a current hash, of its password unless somebody came after it,
Kept(r) ==
    Renewed(r) => /\ Email(r) \in DOMAIN users /\ ~users[Email(r)].stale
                  /\ users[Email(r)].password = req[r].password \/ Overwritten(r)

\* and no login that comes after it has a hash to renew.
Unrenewed(q) ==
    Kind(q) = "login" /\ "password" \in tx[q].writes =>
        \A r \in before[q] : Renewed(r) => Email(r) # Email(q)

Hash(r) == Pending(r) /\ Kept(r) /\ Unrenewed(r)

Hashes == Tokens /\ \A r \in Requests : Hash(r)

\* A row that another transaction locked stays locked.
LEMMA LockStays ==
    ASSUME Shaped, NEW q \in Requests, Step(q), NEW r \in Requests \ {q}, NEW e \in Emails,
           rowLock[e] = r
    PROVE  rowLock'[e] = r
<1>1. rowLock \in [Emails -> Requests \cup {Nobody}] /\ r # Nobody
    BY DEF Shaped, TypeOK, Requests, Nobody
<1>2. CASE Request(q)
    BY <1>2, Arrival
<1>3. ASSUME RollBack(q) PROVE rowLock'[e] = r
    BY <1>1, <1>3 DEF RollBack, Unlock
<1>4. CASE Handle(q)
    BY <1>1, <1>3, <1>4 DEF Handle, RegisterKnown, RegisterNew, InsertUser, LoseRace, LoginFails,
       LoginPasses, OpenSession, ForgotUnknown, ForgotKnown, IssueToken, SendMail, RefuseToken,
       AcceptToken, UpdatePassword, ConsumeToken, FindSessions, CloseRow, EndRevoke, Commit,
       BreakDeadlock, LockAccount, Unlock, database
<1> QED
    BY <1>2, <1>3, <1>4 DEF Step, Fail

\* What the transaction of the request itself has in hand.
LEMMA OwnPending ==
    ASSUME Hashes, NEW r \in Requests, Step(r)
    PROVE  Pending(r)'
<1>0. /\ pc \in [Requests -> Places] /\ tx \in [Requests -> Tx] /\ tx[r] \in Tx
      /\ rowLock \in [Emails -> Requests \cup {Nobody}]
      /\ result \in [Requests -> {Unset, "ok", "refused", "limited", "error"}]
      /\ Shape(r) /\ Pending(r)
    BY DEF Hashes, Hash, Tokens, History, Shaped, TypeOK
<1>1. CASE Request(r)
    <2>1. pc[r] = "new" /\ tx'[r].writes = tx[r].writes
        BY <1>1, Arrival DEF Hashes, Tokens, History
    <2>2. tx'[r].writes = {}
        BY <1>0, <2>1 DEF Pending
    <2>3. pc'[r] \in {"lookup", "committed"} \/ Kind(r)' # "reset_password"
        <3>1. CASE Throttle(r) \/ Admit(r) \/ Me(r) \/ Reset(r)
            BY <1>0, <3>1 DEF Throttle, Admit, Me, Reset, GoTo
        <3>2. CASE Logout(r)
            <4>1. PICK input \in Bearing("logout", {Unset}, LoggedIn) : Arrive(r, input)
                BY <3>2 DEF Logout
            <4> QED
                BY <4>1 DEF Bearing, Arrive, Hashes, Tokens, History, Shaped, TypeOK, Kind
        <3> QED
            BY <1>1, <3>1, <3>2 DEF Request
    <2> QED
        BY <2>2, <2>3 DEF Pending
<1>2. CASE RollBack(r) \/ Commit(r) \/ LoseRace(r)
    <2>1. tx'[r].writes = {} /\ pc'[r] \in Over
        BY <1>0, <1>2 DEF RollBack, Commit, LoseRace, Unlock, NoTx, GoTo, Over
    <2> QED
        BY <2>1 DEF Pending, Over
<1>3. ASSUME Handle(r), ~RollBack(r), ~Commit(r), ~LoseRace(r) PROVE Pending(r)'
    <2>1. pc[r] \notin Over \cup {"new"} /\ req'[r] = req[r] /\ UNCHANGED users
        BY <1>3, HandlerIsUnderWay, EarlierStays, RowsChangeAtCommit
        DEF Step, Hashes, Tokens
    <2>2. /\ "account" \in tx[r].writes => Kind(r) = "register"
          /\ "password" \in tx[r].writes => Kind(r) \in {"login", "reset_password"}
          /\ pc[r] = "insert" => Kind(r) = "register"
          /\ pc[r] = "mail" => Kind(r) = "forgot_password"
          /\ pc[r] = "consume" => Kind(r) = "reset_password"
          /\ Email(r) \in Emails
        BY <1>0, <2>1 DEF Shape, MayWrite, WellFormed, Email
    <2>3. Kind(r)' = Kind(r) /\ Email(r)' = Email(r)
        BY <2>1 DEF Kind, Email
    <2> USE <2>1, <2>2, <2>3
    <2>4. CASE RegisterKnown(r)
        <3>1. Kind(r) = "register" /\ pc'[r] = "commit" /\ tx'[r].writes = tx[r].writes \cup {"event"}
              /\ rowLock' = rowLock
            BY <1>0, <2>4 DEF RegisterKnown, GoTo, Writes, Tx, database
        <3> QED
            BY <1>0, <3>1 DEF Pending, Over
    <2>5. CASE RegisterNew(r)
        <3>1. Kind(r) = "register" /\ pc'[r] = "insert" /\ tx'[r].writes = tx[r].writes \cup {"event"}
              /\ rowLock' = rowLock
            BY <1>0, <2>5 DEF RegisterNew, GoTo, Writes, Tx, database
        <3> QED
            BY <1>0, <3>1 DEF Pending, Over
    <2>6. CASE InsertUser(r)
        <3>1. Kind(r) = "register" /\ pc'[r] = "commit"
              /\ rowLock'[Email(r)] = r /\ Email(r) \notin DOMAIN users
            BY <1>0, <2>6 DEF InsertUser, GoTo, LockAccount
        <3> QED
            BY <3>1 DEF Pending, Over
    <2>7. CASE LoginFails(r)
        <3>1. Kind(r) = "login" /\ pc'[r] = "commit" /\ tx'[r].writes = tx[r].writes \cup {"event"}
              /\ tx[r].writes = {}
            BY <1>0, <2>7 DEF LoginFails, GoTo, Writes, Tx, Pending
        <3> QED
            BY <3>1 DEF Pending, Over
    <2>8. CASE LoginPasses(r)
        <3>1. Kind(r) = "login" /\ pc'[r] = "update" /\ tx'[r].writes \subseteq {"password"}
            BY <1>0, <2>8 DEF LoginPasses, GoTo, Writes, Tx, Pending
        <3> QED
            BY <3>1 DEF Pending, Over
    <2>9. CASE OpenSession(r)
        <3>1. Kind(r) = "login" /\ pc'[r] = "commit" /\ result'[r] = "ok"
              /\ tx'[r].writes = tx[r].writes \cup {"event", "grant"}
            BY <1>0, <2>9 DEF OpenSession, GoTo, Answer, Tx
        <3> QED
            BY <3>1 DEF Pending, Over
    <2>10. CASE ForgotUnknown(r) \/ ForgotKnown(r) \/ IssueToken(r) \/ SendMail(r)
        <3>1. Kind(r) = "forgot_password" /\ pc'[r] \in {"commit", "invalidate", "mail"}
              /\ tx'[r].writes \subseteq tx[r].writes \cup {"event", "grant"}
            BY <1>0, <2>10 DEF ForgotUnknown, ForgotKnown, IssueToken, SendMail, GoTo, Writes, Tx
        <3> QED
            BY <3>1 DEF Pending, Over
    <2>11. CASE \/ RefuseToken(r) \/ AcceptToken(r) \/ UpdatePassword(r) \/ ConsumeToken(r)
                \/ FindSessions(r)
        <3>1. /\ Kind(r) = "reset_password" /\ pc'[r] # "new"
              /\ tx'[r].writes = tx[r].writes \cup (IF UpdatePassword(r) THEN {"password"} ELSE {})
              /\ pc'[r] = "lookup" \/ pc'[r] \in Over => pc[r] = "lookup" /\ ~UpdatePassword(r)
              /\ pc'[r] = "consume" => UpdatePassword(r)
              /\ pc'[r] = "invalidate" => pc[r] = "consume"
              /\ pc'[r] = "revoke" => pc[r] = "invalidate"
              /\ pc'[r] # "commit"
            BY <1>0, <2>11 DEF RefuseToken, AcceptToken, UpdatePassword, ConsumeToken, FindSessions,
                               GoTo, Writes, Tx, Over
        <3> QED
            BY <1>0, <3>1 DEF Pending
    <2>12. CASE EndRevoke(r) \/ CloseRow(r)
        <3>1. /\ pc[r] \in {"invalidate", "revoke"} /\ pc'[r] \in {pc[r], "commit"}
              /\ pc'[r] # pc[r] => pc[r] = "revoke"
              /\ tx'[r].writes = tx[r].writes /\ rowLock' = rowLock
            <4>1. CASE EndRevoke(r)
                BY <1>0, <4>1 DEF EndRevoke, GoTo, database
            <4>2. CASE CloseRow(r)
                <5>1. tx'[r].writes = tx[r].writes
                    BY <1>0, <4>2 DEF CloseRow, Tx
                <5> QED
                    BY <4>2, <5>1 DEF CloseRow, database
            <4> QED
                BY <2>12, <4>1, <4>2
        <3> QED
            BY <1>0, <3>1 DEF Pending, Over
    <2> QED
        BY <1>3, <2>4, <2>5, <2>6, <2>7, <2>8, <2>9, <2>10, <2>11, <2>12
        DEF Handle, BreakDeadlock
<1> QED
    BY <1>1, <1>2, <1>3 DEF Step, Fail

\* A reset that is over stays renewed or overwritten, and a commit that writes
\* the password of its account leaves it so.
LEMMA RenewedStays ==
    ASSUME Hashes, NEW q \in Requests, Step(q), NEW r \in Requests, Renewed(r)'
    PROVE  \/ r # q /\ Renewed(r) /\ (Overwritten(r) => Overwritten(r)')
           \/ r = q /\ Commit(r) /\ Kind(r) = "reset_password"
<1> USE DEF Renewed, Committed, Kind, Email
<1>0. History /\ TypeOK /\ Shaped
    BY DEF Hashes, Tokens, History, Shaped
<1>1. CASE r # q
    <2>1. pc'[r] = pc[r] /\ req'[r] = req[r] /\ result'[r] = result[r] /\ before'[r] = before[r]
        BY <1>0, <1>1, OthersStay
    <2>2. ASSUME NEW p \in Requests \ {r}, Committed(p)
          PROVE  /\ pc'[p] = pc[p] /\ req'[p] = req[p] /\ result'[p] = result[p]
                 /\ before'[p] = before[p]
        <3>1. p # q
            BY <1>0, <2>2, ArrivedStays DEF Over
        <3> QED
            BY <1>0, <3>1, OthersStay
    <2>3. Overwritten(r) => Overwritten(r)'
        BY <2>1, <2>2 DEF Overwritten, Overlap
    <2> QED
        BY <1>1, <2>1, <2>3
<1>2. CASE r = q
    <2>1. CASE Request(q)
        <3>1. PICK kind \in {"me", "logout", "other"} :
                 /\ kind # "other" => \E input \in Bearing(kind, {Unset}, LoggedIn) :
                                          Arrive(q, input)
                 /\ kind = "other" => pc'[q] = "lookup" \/ result'[q] = "limited"
            BY <1>0, <2>1 DEF Request, Throttle, Admit, Me, Logout, Reset, GoTo, Answer, TypeOK
        <3>2. CASE kind # "other"
            <4>1. PICK input \in Bearing(kind, {Unset}, LoggedIn) : Arrive(q, input)
                BY <3>1, <3>2
            <4>2. input.kind = kind /\ req'[q] = input
                BY <1>0, <4>1 DEF Bearing, Arrive, TypeOK
            <4> QED
                BY <1>2, <3>1, <3>2, <4>2
        <3>3. CASE kind = "other"
            BY <1>2, <3>1, <3>3
        <3> QED
            BY <3>2, <3>3
    <2>2. CASE Handle(q) \/ Fail(q)
        <3>1. pc[q] \notin Over \cup {"new"} /\ req'[q] = req[q]
            BY <1>0, <2>2, HandlerIsUnderWay, EarlierStays DEF Step
        <3>2. ~RollBack(q) /\ ~LoseRace(q) /\ ~RefuseToken(q)
            BY <1>0, <1>2, <3>1 DEF RollBack, LoseRace, RefuseToken, GoTo, Answer, TypeOK
        <3>3. Commit(q) \/ CloseRow(q) \/ pc'[q] # "committed"
            BY <1>0, <2>2, <3>2 DEF Handle, Fail, BreakDeadlock, RegisterKnown, RegisterNew,
               InsertUser, LoginFails, LoginPasses, OpenSession, ForgotUnknown, ForgotKnown,
               IssueToken, SendMail, AcceptToken, UpdatePassword, ConsumeToken, FindSessions,
               EndRevoke, GoTo, TypeOK
        <3>4. ~CloseRow(q)
            BY <1>2 DEF CloseRow
        <3> QED
            BY <1>2, <3>1, <3>3, <3>4
    <2> QED
        BY <2>1, <2>2 DEF Step
<1> QED
    BY <1>1, <1>2

LEMMA NextKept ==
    ASSUME Hashes, NEW q \in Requests, Step(q), NEW r \in Requests
    PROVE  Kept(r)'
<1> SUFFICES ASSUME Renewed(r)'
             PROVE  /\ Email(r)' \in DOMAIN users' /\ ~users'[Email(r)'].stale
                    /\ users'[Email(r)'].password = req'[r].password \/ Overwritten(r)'
    BY DEF Kept
<1>0. History /\ Shaped /\ TypeOK /\ \A p \in Requests : Token(p) /\ Hash(p)
    BY DEF Hashes, Tokens, History, Shaped
<1>1. Email(r)' = Email(r) /\ req'[r] = req[r] /\ before'[r] = before[r] /\ pc[r] # "new"
    <2>1. pc[r] # "new"
        BY <1>0, RenewedStays DEF Renewed, Committed, Commit
    <2> QED
        BY <1>0, <2>1, EarlierStays DEF Email
<1>2. CASE r # q /\ Renewed(r) /\ (Overwritten(r) => Overwritten(r)')
    <2>1. /\ Email(r) \in DOMAIN users /\ ~users[Email(r)].stale
          /\ users[Email(r)].password = req[r].password \/ Overwritten(r)
        BY <1>0, <1>2 DEF Hash, Kept
    <2>2. Email(r) \in DOMAIN users'
        BY <2>1, UsersGrow
    <2>3. CASE users'[Email(r)] = users[Email(r)]
        BY <1>1, <1>2, <2>1, <2>2, <2>3
    <2>4. CASE users'[Email(r)] # users[Email(r)]
        <3>1. Commit(q)
            BY <2>4, RowsChangeAtCommit
        <3>2. /\ Email(q) = Email(r) /\ tx[q].writes \cap {"account", "password"} # {}
              /\ users'[Email(r)] = Account(q)
            BY <2>1, <2>4, <3>1 DEF Commit, NewUsers
        <3>3. "password" \in tx[q].writes /\ "account" \notin tx[q].writes
            BY <1>0, <2>1, <3>2 DEF Hash, Pending
        <3>4. pc[q] = "commit" /\ pc'[q] = "committed" /\ result' = result /\ UNCHANGED arrivals
            BY <1>0, <3>1 DEF Commit, GoTo, TypeOK
        <3>5. Kind(q) \in {"login", "reset_password"} /\ result[q] = "ok"
            BY <1>0, <3>3, <3>4 DEF Shaped, Shape, MayWrite, Hash, Pending, Token, Spending
        <3>6. q \notin before[r]
            BY <1>0, <3>4 DEF History, Past, Over
        <3>7. Kind(q) = "login" => r \notin before[q]
            BY <1>0, <1>2, <3>2, <3>3 DEF Hash, Unrenewed
        <3>8. Overwritten(r)'
            BY <1>2, <3>2, <3>4, <3>5, <3>6, <3>7
            DEF Overwritten, Overlap, Committed, Kind, Email, arrivals
        <3>9. ~users'[Email(r)].stale
            BY <3>2 DEF Account
        <3> QED
            BY <1>1, <2>2, <3>8, <3>9
    <2> QED
        BY <2>3, <2>4
<1>3. CASE r = q /\ Commit(r) /\ Kind(r) = "reset_password"
    <2>1. "password" \in tx[r].writes /\ pc[r] = "commit"
        BY <1>0, <1>3 DEF Hash, Pending, Commit
    <2>2. Email(r) \in DOMAIN users
        BY <1>0, <1>3, <2>1
        DEF Token, Spending, Accepting, Owned, Shaped, Shape, WellFormed, Kind
    <2>3. Email(r) \in DOMAIN users' /\ users'[Email(r)] = Account(r)
        BY <1>3, <2>1, <2>2 DEF Commit, NewUsers
    <2> QED
        BY <1>1, <2>3 DEF Account
<1> QED
    BY <1>2, <1>3, RenewedStays

LEMMA NextUnrenewed ==
    ASSUME Hashes, NEW q \in Requests, Step(q), NEW p \in Requests
    PROVE  Unrenewed(p)'
<1> SUFFICES ASSUME Kind(p)' = "login", "password" \in tx'[p].writes,
                    NEW r \in before'[p], Renewed(r)', Email(r)' = Email(p)'
             PROVE  FALSE
    BY DEF Unrenewed
<1>0. History /\ Shaped /\ TypeOK /\ \A g \in Requests : Token(g) /\ Hash(g)
    BY DEF Hashes, Tokens, History, Shaped
<1>1. pc[p] # "new"
    <2>1. CASE p # q
        BY <1>0, <2>1, OthersStay DEF Hash, Pending
    <2>2. CASE p = q /\ Request(q)
        BY <1>0, <2>2, Arrival DEF Hash, Pending
    <2> QED
        BY <2>1, <2>2, HandlerIsUnderWay DEF Step
<1>2. /\ req'[p] = req[p] /\ r \in before[p] /\ Renewed(r) /\ Email(r) = Email(p)
      /\ r \in Requests /\ Kind(p) = "login"
    BY <1>0, <1>1, EarlierStays DEF Renewed, Committed, Kind, Email
<1>3. "password" \notin tx[p].writes
    BY <1>0, <1>2 DEF Hash, Unrenewed
<1>4. p = q
    BY <1>0, <1>3, OthersStay
<1>5. LoginPasses(p)
    <2>1. ~Request(p) /\ ~Fail(p) /\ ~BreakDeadlock(p) /\ ~Commit(p) /\ ~LoseRace(p)
        BY <1>0, <1>1, <1>4, Arrival DEF Fail, BreakDeadlock, RollBack, Commit, LoseRace, Unlock,
                                         NoTx, TypeOK
    <2>2. ~UpdatePassword(p)
        BY <1>2 DEF UpdatePassword
    <2>3. ~CloseRow(p)
        <3>1. CloseRow(p) => tx'[p].writes = tx[p].writes
            BY <1>0 DEF CloseRow, TypeOK, Tx
        <3> QED
            BY <1>3, <3>1
    <2>4. tx[p] \in Tx /\ tx \in [Requests -> Tx]
        BY <1>0 DEF TypeOK
    <2> QED
        BY <1>3, <1>4, <2>1, <2>2, <2>3, <2>4 DEF Step, Handle, RegisterKnown, RegisterNew,
           InsertUser, LoginFails, OpenSession, ForgotUnknown, ForgotKnown, IssueToken, SendMail,
           RefuseToken, AcceptToken, ConsumeToken, FindSessions, EndRevoke, Writes, Tx, database
<1>6. users[Email(p)].stale
    BY <1>0, <1>3, <1>5 DEF LoginPasses, Writes, TypeOK, Tx
<1> QED
    BY <1>0, <1>2, <1>6 DEF Hash, Kept

LEMMA NextHashes == Hashes /\ [Next]_vars => Hashes'
<1> SUFFICES ASSUME Hashes, [Next]_vars PROVE Hashes'
    OBVIOUS
<1>1. Tokens'
    BY NextTokens DEF Hashes
<1>2. CASE Tick \/ UNCHANGED vars
    BY <1>1, <1>2 DEF Tick, vars, Hashes, Hash, Pending, Kept, Unrenewed, Renewed, Overwritten,
                      Overlap, Committed, Kind, Email, arrivals, database
<1>3. ASSUME NEW q \in Requests, Step(q) PROVE Hashes'
    <2>1. ASSUME NEW r \in Requests \ {q} PROVE Pending(r)'
        <3>0. Shaped /\ TypeOK /\ Pending(r) /\ Pending(q) /\ Shape(r)
            BY DEF Hashes, Hash, Tokens, History, Shaped
        <3>1. /\ pc'[r] = pc[r] /\ tx'[r] = tx[r] /\ result'[r] = result[r] /\ req'[r] = req[r]
            BY <1>3, <3>0, OthersStay
        <3>2. ASSUME "account" \in tx[r].writes
              PROVE  rowLock'[Email(r)] = r /\ Email(r) \notin DOMAIN users'
            <4>1. Email(r) \in Emails /\ rowLock[Email(r)] = r /\ Email(r) \notin DOMAIN users
                BY <3>0, <3>2, AuthAssumption
                DEF Pending, Shape, WellFormed, Email, Kind, MayWrite, Endpoints
            <4>2. rowLock'[Email(r)] = r
                BY <1>3, <3>0, <4>1, LockStays
            <4>3. CASE Commit(q)
                <5>1. \A e \in DOMAIN users' : e \in DOMAIN users \/ (e = Email(q) /\ "account" \in tx[q].writes)
                    BY <4>3 DEF Commit, NewUsers
                <5> QED
                    BY <3>0, <4>1, <4>2, <5>1 DEF Pending
            <4> QED
                BY <1>3, <4>1, <4>2, <4>3, RowsChangeAtCommit
        <3> QED
            BY <3>0, <3>1, <3>2 DEF Pending, Kind, Email
    <2> QED
        BY <1>1, <1>3, <2>1, OwnPending, NextKept, NextUnrenewed DEF Hashes, Hash
<1> QED
    BY <1>2, <1>3 DEF Next, Step

LEMMA InitHashes == Init => Hashes
<1> SUFFICES ASSUME Init PROVE Hashes
    OBVIOUS
<1>1. \A r \in Requests : tx[r].writes = {} /\ pc[r] = "new" /\ before[r] = {}
    BY DEF Init, NoTx
<1>2. \A r \in Requests : Kind(r) = Unset
    BY DEF Init, NoInput, Kind
<1> QED
    BY <1>1, <1>2, InitTokens, AuthAssumption
    DEF Hashes, Hash, Pending, Kept, Unrenewed, Renewed, Endpoints

\* The account's password is the one of its reset until somebody comes after it
\* or beside it; only a login beside it brings another one back.
THEOREM PasswordsAreTheLastReset == Spec => []PasswordIsTheLastReset
<1>1. Hashes => PasswordIsTheLastReset
    BY DEF Hashes, Hash, Kept, Renewed, Overwritten, PasswordIsTheLastReset
<1> QED
    BY <1>1, InitHashes, NextHashes, PTL DEF Spec

-----------------------------------------------------------------------------
(* The ledger of attempts *)

\* Endpoints whose attempts are limited, and the attempts that were let in.
Limited == {"register", "login", "forgot_password"}
Counts(r) == Kind(r) \in Limited /\ result[r] # "limited"

\* An attempt that was let in goes on record with its transaction, and stays there
\* as long as it can be within anybody's window.
Recorded(r) ==
    /\ pc[r] # "new" => since[r] <= now
    /\ \/ pc[r] = "insert"
       \/ pc[r] \in {"invalidate", "mail"} /\ Kind(r) = "forgot_password"
       \/ pc[r] = "commit" /\ Counts(r)
       => "event" \in tx[r].writes
    /\ pc[r] = "revoke" => Kind(r) \notin Limited
    /\ pc[r] = "committed" /\ Counts(r) /\ since[r] >= now - Retention => r \in events
    /\ result[r] = "limited" => pc[r] \in Over

\* A request that was let in is within both limits.
Within(r) ==
    Kind(r) \in Limited /\ result[r] # "limited" =>
        /\ Cardinality({q \in Earlier(r) : Email(q) = Email(r)}) < IdentifierLimit
        /\ Cardinality({q \in Earlier(r) : req[q].origin = req[r].origin}) < OriginLimit

Record == History /\ \A r \in Requests : Recorded(r) /\ Within(r)

\* The clock is not a request's to turn, and recording an event keeps the ones
\* that are not past Retention.
LEMMA EventsStay ==
    ASSUME Record, NEW q \in Requests, Step(q)
    PROVE  /\ now' = now
           /\ \A p \in events : since[p] >= now - Retention => p \in events'
<1>1. CASE Request(q)
    BY <1>1, Arrival DEF Record, History
<1>2. CASE RollBack(q)
    BY <1>2 DEF RollBack
<1>3. CASE Commit(q)
    <2>1. /\ now \in Nat /\ since \in [Requests -> Nat] /\ events \subseteq Requests
          /\ Retention \in Nat /\ since[q] <= now
        BY <1>3, AuthAssumption DEF Record, History, Shaped, TypeOK, Recorded, Commit
    <2>2. \A p \in events : since[p] >= now - Retention => since[p] >= since[q] - Retention
        BY <2>1
    <2> QED
        BY <1>3, <2>2 DEF Commit, NewEvents
<1>4. ASSUME Handle(q), ~RollBack(q), ~Commit(q) PROVE now' = now /\ events' = events
    BY <1>4 DEF Handle, BreakDeadlock, RegisterKnown, RegisterNew, InsertUser, LoseRace,
       LoginFails, LoginPasses, OpenSession, ForgotUnknown, ForgotKnown, IssueToken, SendMail,
       RefuseToken, AcceptToken, UpdatePassword, ConsumeToken, FindSessions, CloseRow, EndRevoke,
       database
<1> QED
    BY <1>1, <1>2, <1>3, <1>4 DEF Step, Fail

\* The attempt of the request itself.
LEMMA OwnRecord ==
    ASSUME Record, NEW r \in Requests, Step(r)
    PROVE  Recorded(r)'
<1>0. /\ pc \in [Requests -> Places] /\ tx \in [Requests -> Tx] /\ tx[r] \in Tx
      /\ now \in Nat /\ since \in [Requests -> Nat]
      /\ result \in [Requests -> {Unset, "ok", "refused", "limited", "error"}]
      /\ Unset \notin {"ok", "refused", "limited", "error"}
      /\ Shape(r) /\ Recorded(r) /\ Past(r) /\ Shaped
    BY AuthAssumption DEF Record, History, Shaped, TypeOK
<1>1. CASE Request(r)
    <2>1. pc[r] = "new" /\ since'[r] = now /\ now' = now /\ result[r] = Unset
          /\ pc'[r] \in {"lookup", "revoke", "committed"}
        BY <1>0, <1>1, Arrival DEF Past
    <2>2. CASE Throttle(r)
        BY <1>0, <2>1, <2>2 DEF Throttle, Answer, GoTo, Recorded, Counts, Over
    <2>3. CASE Admit(r) \/ Reset(r)
        BY <1>0, <2>1, <2>3 DEF Admit, Reset, GoTo, Recorded
    <2>4. CASE Me(r) \/ Logout(r)
        <3>1. PICK input \in Bearing("me", {Unset}, LoggedIn) \cup Bearing("logout", {Unset}, LoggedIn) :
                  Arrive(r, input)
            BY <2>4 DEF Me, Logout
        <3>2. input.kind \in {"me", "logout"} /\ req'[r] = input
            BY <1>0, <3>1 DEF Bearing, Arrive, Shaped, TypeOK
        <3>3. Kind(r)' \notin Limited
            BY <3>2 DEF Kind, Limited
        <3>4. result'[r] \in {"ok", "refused"}
            BY <1>0, <2>4 DEF Me, Logout, Answer
        <3> QED
            BY <1>0, <2>1, <3>3, <3>4 DEF Recorded, Counts, Limited
    <2> QED
        BY <1>1, <2>2, <2>3, <2>4 DEF Request
<1>2. ASSUME Handle(r) \/ Fail(r) PROVE Recorded(r)'
    <2>0. /\ pc[r] \notin Over \cup {"new"} /\ req'[r] = req[r] /\ since'[r] = since[r]
          /\ now' = now /\ since[r] <= now /\ result[r] # "limited" /\ Kind(r)' = Kind(r)
        BY <1>0, <1>2, HandlerIsUnderWay, EarlierStays, EventsStay DEF Recorded, Record, Step, Kind
    <2>1. CASE RollBack(r)
        BY <1>0, <2>0, <2>1 DEF RollBack, GoTo, Recorded, Over
    <2>2. CASE LoseRace(r)
        BY <1>0, <2>0, <2>2 DEF LoseRace, GoTo, Answer, Recorded, Over
    <2>3. CASE Commit(r)
        <3>1. pc[r] = "commit" /\ pc'[r] = "committed" /\ result' = result
              /\ events' = NewEvents(r)
            BY <1>0, <2>3 DEF Commit, GoTo
        <3>2. Counts(r)' => Counts(r)
            BY <2>0, <3>1 DEF Counts
        <3> QED
            BY <1>0, <2>0, <3>1, <3>2 DEF Recorded, NewEvents, Over
    <2>4. CASE RegisterKnown(r) \/ RegisterNew(r) \/ LoginFails(r) \/ ForgotUnknown(r)
        <3>1. "event" \in tx'[r].writes /\ pc'[r] \in {"commit", "insert"}
              /\ result'[r] # "limited"
            BY <1>0, <2>0, <2>4 DEF RegisterKnown, RegisterNew, LoginFails, ForgotUnknown, Writes,
                                    GoTo, Answer, Tx
        <3> QED
            BY <2>0, <3>1 DEF Recorded
    <2>5. CASE InsertUser(r) \/ SendMail(r)
        <3>1. "event" \in tx'[r].writes /\ pc'[r] = "commit" /\ result'[r] = "ok"
            BY <1>0, <2>0, <2>5 DEF InsertUser, SendMail, Writes, GoTo, Answer, Tx, Recorded, Shape
        <3> QED
            BY <1>0, <2>0, <3>1 DEF Recorded
    <2>6. CASE OpenSession(r)
        <3>1. "event" \in tx'[r].writes /\ pc'[r] = "commit" /\ result'[r] = "ok"
            BY <1>0, <2>6 DEF OpenSession, GoTo, Answer, Tx
        <3> QED
            BY <2>0, <3>1 DEF Recorded
    <2>7. CASE ForgotKnown(r) \/ IssueToken(r)
        <3>1. "event" \in tx'[r].writes /\ pc'[r] \in {"invalidate", "mail"} /\ result' = result
            BY <1>0, <2>0, <2>7 DEF ForgotKnown, IssueToken, GoTo, Tx, Recorded
        <3> QED
            BY <2>0, <3>1 DEF Recorded
    <2>8. CASE LoginPasses(r)
        <3>1. pc'[r] = "update" /\ result' = result
            BY <1>0, <2>8 DEF LoginPasses, GoTo
        <3> QED
            BY <2>0, <3>1 DEF Recorded
    <2>9. CASE \/ RefuseToken(r) \/ AcceptToken(r) \/ UpdatePassword(r) \/ ConsumeToken(r)
               \/ FindSessions(r)
        <3>1. Kind(r) = "reset_password" /\ pc'[r] \in Places /\ pc'[r] \notin {"new", "insert"}
              /\ result'[r] # "limited"
            BY <1>0, <2>0, <2>9 DEF RefuseToken, AcceptToken, UpdatePassword, ConsumeToken,
               FindSessions, GoTo, Answer, Shape, Places, Over
        <3> QED
            BY <2>0, <3>1 DEF Recorded, Counts, Limited
    <2>10. CASE CloseRow(r)
        <3>1. tx'[r].writes = tx[r].writes
            BY <1>0 , <2>10 DEF CloseRow, Tx
        <3> QED
            BY <1>0, <2>0, <2>10, <3>1 DEF CloseRow, Recorded, Over
    <2>11. CASE EndRevoke(r)
        <3>1. Kind(r) \notin Limited /\ pc'[r] = "commit" /\ result'[r] = "ok"
            BY <1>0, <2>11 DEF EndRevoke, GoTo, Answer, Recorded
        <3> QED
            BY <1>0, <2>0, <3>1 DEF Recorded, Counts
    <2> QED
        BY <1>2, <2>1, <2>2, <2>3, <2>4, <2>5, <2>6, <2>7, <2>8, <2>9, <2>10, <2>11
        DEF Handle, Fail, BreakDeadlock
<1> QED
    BY <1>1, <1>2 DEF Step

\* Nothing that counted against a request is added or lost once it has arrived.
LEMMA EarlierAttemptsStay ==
    ASSUME Record, NEW q \in Requests, Step(q), NEW r \in Requests, pc[r] # "new"
    PROVE  /\ Kind(r)' = Kind(r) /\ Email(r)' = Email(r) /\ req'[r] = req[r]
           /\ Earlier(r)' = Earlier(r)
           /\ \A p \in Earlier(r) : Email(p)' = Email(p) /\ req'[p] = req[p]
<1>1. /\ req'[r] = req[r] /\ before'[r] = before[r] /\ since'[r] = since[r]
      /\ \A p \in before[r] : /\ pc'[p] = pc[p] /\ req'[p] = req[p] /\ result'[p] = result[p]
                              /\ since'[p] = since[p]
    BY EarlierStays DEF Record
<1> QED
    BY <1>1 DEF Earlier, Committed, Kind, Email

\* What counts against a request when it arrives is on record.
LEMMA AdmittedWithin ==
    ASSUME Record, NEW r \in Requests, Admit(r)
    PROVE  Within(r)'
<1>0. /\ now \in Nat /\ since \in [Requests -> Nat] /\ events \subseteq Requests
      /\ Window \in Nat /\ Retention \in Nat /\ Window <= Retention
      /\ IdentifierLimit \in Nat /\ OriginLimit \in Nat /\ MaxRequests \in Nat
      /\ req \in [Requests -> Input] /\ pc \in [Requests -> Places]
      /\ \A q \in Requests : Recorded(q)
    BY AuthAssumption DEF Record, History, Shaped, TypeOK
<1>1. PICK input \in Attempts : Arrive(r, input) /\ ~IsRateLimited(input)
    BY DEF Admit
<1>2. /\ req'[r] = input /\ before'[r] = {q \in Requests : pc[q] \in Over} /\ since'[r] = now
      /\ pc[r] = "new" /\ Kind(r)' = input.kind /\ Email(r)' = input.email
      /\ input.kind \in Limited
    BY <1>0, <1>1, Arrival
    DEF Record, History, Request, Arrive, Kind, Email, Attempts, Limited
<1>3. \A q \in before'[r] : /\ q # r /\ pc'[q] = pc[q] /\ req'[q] = req[q]
                            /\ result'[q] = result[q] /\ since'[q] = since[q]
    BY <1>2, OthersStay DEF Record, History, Step, Request, Over
<1>4. ASSUME NEW q \in Earlier(r)'
      PROVE  q \in Counted(input.kind) /\ req'[q] = req[q]
    <2>1. /\ q \in Requests /\ pc[q] = "committed" /\ Kind(q) = input.kind
          /\ since[q] >= now - Window
          /\ result[q] = (IF input.kind = "login" THEN "refused" ELSE "ok")
        BY <1>2, <1>3, <1>4 DEF Earlier, Committed, Kind
    <2>2. since[q] >= now - Retention
        BY <1>0, <2>1
    <2>3. q \in events
        BY <1>0, <1>2, <2>1, <2>2 DEF Recorded, Counts
    <2> QED
        BY <1>2, <1>3, <1>4, <2>1, <2>3 DEF Counted, Earlier
<1> DEFINE counted == Counted(input.kind)
           byEmail == {q \in counted : Email(q) = input.email}
           byOrigin == {q \in counted : req[q].origin = input.origin}
           earlierByEmail == {q \in Earlier(r)' : Email(q)' = Email(r)'}
           earlierByOrigin == {q \in Earlier(r)' : req'[q].origin = req'[r].origin}
<1>5. counted \in SUBSET Requests
    BY <1>0 DEF Counted
<1>6. earlierByEmail \in SUBSET byEmail /\ earlierByOrigin \in SUBSET byOrigin
    BY <1>2, <1>4 DEF Email
<1>7. byEmail \in SUBSET Requests /\ byOrigin \in SUBSET Requests
    BY <1>5
<1>8. ~(Cardinality(byEmail) >= IdentifierLimit) /\ ~(Cardinality(byOrigin) >= OriginLimit)
    BY <1>1 DEF IsRateLimited
<1> HIDE DEF counted, byEmail, byOrigin, earlierByEmail, earlierByOrigin
<1>9. IsFiniteSet(Requests)
    BY <1>0, FS_Interval DEF Requests
<1>10. IsFiniteSet(byEmail) /\ IsFiniteSet(byOrigin)
    BY <1>7, <1>9, FS_Subset
<1>11. /\ IsFiniteSet(earlierByEmail) /\ Cardinality(earlierByEmail) <= Cardinality(byEmail)
       /\ IsFiniteSet(earlierByOrigin) /\ Cardinality(earlierByOrigin) <= Cardinality(byOrigin)
    BY <1>6, <1>10, FS_Subset
<1>12. /\ Cardinality(byEmail) \in Nat /\ Cardinality(byOrigin) \in Nat
       /\ Cardinality(earlierByEmail) \in Nat /\ Cardinality(earlierByOrigin) \in Nat
    BY <1>10, <1>11, FS_CardinalityType
<1>13. /\ Cardinality(earlierByEmail) < IdentifierLimit
       /\ Cardinality(earlierByOrigin) < OriginLimit
    BY <1>0, <1>8, <1>11, <1>12
<1> QED
    BY <1>13 DEF Within, earlierByEmail, earlierByOrigin

LEMMA NextWithin ==
    ASSUME Record, NEW q \in Requests, Step(q), NEW r \in Requests
    PROVE  Within(r)'
<1>0. Shaped /\ Within(r) /\ Recorded(r) /\ pc[r] \in Places /\ Shape(r)
      /\ pc \in [Requests -> Places]
      /\ result \in [Requests -> {Unset, "ok", "refused", "limited", "error"}]
    BY DEF Record, History, Shaped, TypeOK
<1>1. CASE pc[r] # "new"
    <2>1. result'[r] # "limited" => result[r] # "limited"
        <3> SUFFICES ASSUME result[r] = "limited" PROVE result'[r] = result[r]
            OBVIOUS
        <3>1. q # r
            BY <1>0, ArrivedStays, <1>1 DEF Recorded, Over
        <3> QED
            BY <1>0, <3>1, OthersStay
    <2>2. {p \in Earlier(r)' : Email(p)' = Email(r)'} = {p \in Earlier(r) : Email(p) = Email(r)}
          /\ {p \in Earlier(r)' : req'[p].origin = req'[r].origin}
                = {p \in Earlier(r) : req[p].origin = req[r].origin}
        BY <1>1, EarlierAttemptsStay
    <2>3. Kind(r)' = Kind(r)
        BY <1>1, EarlierAttemptsStay
    <2> QED
        BY <1>0, <2>1, <2>2, <2>3 DEF Within
<1>2. CASE pc[r] = "new" /\ q # r
    <2>1. Kind(r)' = Unset
        BY <1>0, <1>2, OthersStay DEF Shape, Kind
    <2> QED
        BY <2>1, AuthAssumption DEF Within, Limited, Endpoints
<1>3. CASE pc[r] = "new" /\ q = r
    <2>1. Request(r)
        BY <1>3, HandlerIsUnderWay DEF Step
    <2>2. CASE Throttle(r)
        BY <1>0, <2>2 DEF Throttle, Answer, Within
    <2>3. CASE Me(r) \/ Logout(r) \/ Reset(r)
        <3>1. PICK input \in Bearing("me", {Unset}, LoggedIn)
                            \cup Bearing("logout", {Unset}, LoggedIn)
                            \cup Bearing("reset_password", Passwords, sent) : Arrive(r, input)
            BY <2>3 DEF Me, Logout, Reset
        <3>2. input.kind \in {"me", "logout", "reset_password"} /\ Arrive(r, input)
            BY <3>1 DEF Bearing
        <3>3. Kind(r)' \notin Limited
            BY <1>0, <3>2 DEF Arrive, Kind, Limited, Shaped, TypeOK
        <3> QED
            BY <3>3 DEF Within
    <2> QED
        BY <2>1, <2>2, <2>3, AdmittedWithin DEF Request
<1> QED
    BY <1>1, <1>2, <1>3

LEMMA NextRecord == Record /\ [Next]_vars => Record'
<1> SUFFICES ASSUME Record, [Next]_vars PROVE Record'
    OBVIOUS
<1>1. History'
    BY NextHistory DEF Record
<1>2. CASE Tick \/ UNCHANGED vars
    <2>1. /\ UNCHANGED <<database, arrivals, pc, tx, result>> /\ now' >= now
          /\ now \in Nat /\ now' \in Nat /\ since \in [Requests -> Nat]
          /\ Retention \in Nat
        BY <1>2, AuthAssumption DEF Tick, vars, Record, History, Shaped, TypeOK
    <2>2. \A r \in Requests : Recorded(r)'
        <3> SUFFICES ASSUME NEW r \in Requests, Recorded(r) PROVE Recorded(r)'
            BY DEF Record
        <3>1. since'[r] = since[r] /\ since[r] \in Nat
            BY <2>1 DEF arrivals
        <3>2. /\ since[r] <= now => since'[r] <= now'
              /\ since'[r] >= now' - Retention => since[r] >= now - Retention
            BY <2>1, <3>1
        <3> QED
            BY <2>1, <3>2 DEF Recorded, Counts, Kind, database, arrivals
    <2>3. \A r \in Requests : Within(r)'
        BY <2>1 DEF Record, Within, Earlier, Committed, Kind, Email, database, arrivals
    <2> QED
        BY <1>1, <2>2, <2>3 DEF Record
<1>3. ASSUME NEW q \in Requests, Step(q) PROVE Record'
    <2>1. ASSUME NEW r \in Requests \ {q} PROVE Recorded(r)'
        <3>1. /\ pc'[r] = pc[r] /\ tx'[r] = tx[r] /\ result'[r] = result[r] /\ req'[r] = req[r]
              /\ since'[r] = since[r]
            BY <1>3, OthersStay DEF Record, History
        <3> QED
            BY <1>3, <3>1, EventsStay DEF Record, Recorded, Counts, Kind
    <2> QED
        BY <1>1, <1>3, <2>1, OwnRecord, NextWithin DEF Record
<1> QED
    BY <1>2, <1>3 DEF Next, Step

LEMMA InitRecord == Init => Record
BY InitHistory, AuthAssumption
DEF Init, Record, Recorded, Within, Counts, Limited, Kind, NoInput, Endpoints

\* Nobody is let in past an account's or a client's limit.
THEOREM LimitsAreKept == Spec => []LimitsHold
<1>1. Record => LimitsHold
    BY DEF Record, Within, Limited, LimitsHold
<1> QED
    BY <1>1, InitRecord, NextRecord, PTL DEF Spec

-----------------------------------------------------------------------------
(* Attempts on record *)

\* q is a registration of r's identifier, committed, that overlapped r.
Winner(q, r) ==
    /\ Kind(q) = "register" /\ Email(q) = Email(r)
    /\ Committed(q) /\ Counts(q) /\ Overlap(q, r)

\* A registration that lost its race, or is about to, lost it to a winner.
Raced(r) ==
    \/ pc[r] = "insert" /\ Email(r) \in DOMAIN users
    \/ pc[r] = "rolled_back"
    => \E q \in Requests : Winner(q, r)

Races == Record /\ \A r \in Requests : Raced(r)

\* A winner remains one.
LEMMA WinnerStays ==
    ASSUME Record, NEW p \in Requests, Step(p), NEW q \in Requests, NEW r \in Requests,
           pc[r] # "new", Winner(q, r)
    PROVE  Winner(q, r)'
<1>1. pc[q] = "committed"
    BY DEF Winner, Committed
<1>2. p # q
    BY <1>1, ArrivedStays DEF Record, History, Over
<1>3. pc'[q] = pc[q] /\ result'[q] = result[q] /\ req'[q] = req[q] /\ before'[q] = before[q]
    BY <1>2, OthersStay DEF Record, History
<1>4. req'[r] = req[r] /\ before'[r] = before[r]
    BY EarlierStays DEF Record
<1> QED
    BY <1>3, <1>4 DEF Winner, Committed, Counts, Overlap, Kind, Email

\* The account that a waiting registration meets is of a commit that overlapped it.
LEMMA CommitWins ==
    ASSUME Record, NEW p \in Requests, Step(p), NEW r \in Requests \ {p}, pc[r] = "insert",
           Email(r) \notin DOMAIN users, Email(r) \in DOMAIN users'
    PROVE  Winner(p, r)'
<1>1. Commit(p)
    BY RowsChangeAtCommit
<1>2. /\ Shaped /\ Shape(p) /\ Recorded(p) /\ Past(p) /\ Past(r)
      /\ pc \in [Requests -> Places] /\ tx[p] \in Tx
    BY DEF Record, History, Shaped, TypeOK
<1>3. "account" \in tx[p].writes /\ Email(p) = Email(r)
    BY <1>1 DEF Commit, NewUsers
<1>4. Kind(p) = "register"
    BY <1>2, <1>3 DEF Shape, MayWrite
<1>5. pc[p] = "commit" /\ pc'[p] = "committed" /\ result'[p] = result[p]
    BY <1>1, <1>2 DEF Commit, GoTo
<1>6. UNCHANGED arrivals
    BY <1>1 DEF Commit
<1>7. result[p] # "limited"
    BY <1>2, <1>5 DEF Recorded, Over
<1>8. p \notin before[r] /\ r \notin before[p]
    BY <1>2, <1>5 DEF Past, Over
<1> QED
    BY <1>3, <1>4, <1>5, <1>6, <1>7, <1>8
    DEF Winner, Committed, Counts, Limited, Overlap, Kind, Email, arrivals

LEMMA OwnRace ==
    ASSUME Races, NEW r \in Requests, Step(r)
    PROVE  Raced(r)'
<1>0. /\ Shaped /\ Record /\ Raced(r) /\ pc \in [Requests -> Places] /\ pc[r] \in Places
      /\ tx[r] \in Tx
    BY DEF Races, Record, History, Shaped, TypeOK
<1>1. CASE Request(r)
    BY <1>0, <1>1, Arrival DEF Raced
<1>2. CASE RegisterNew(r)
    <2>1. Email(r) \notin DOMAIN users /\ users' = users /\ req' = req /\ pc'[r] = "insert"
        BY <1>0, <1>2 DEF RegisterNew, database, arrivals, GoTo
    <2> QED
        BY <2>1 DEF Raced, Email
<1>3. CASE LoseRace(r)
    <2>1. PICK q \in Requests : Winner(q, r)
        BY <1>0, <1>3 DEF LoseRace, Raced
    <2>2. pc[r] # "new"
        BY <1>3 DEF LoseRace
    <2>3. Winner(q, r)'
        BY <1>0, <2>1, <2>2, WinnerStays
    <2> QED
        BY <2>3 DEF Raced
<1>4. ASSUME Handle(r) \/ Fail(r), ~RegisterNew(r), ~LoseRace(r)
      PROVE  pc'[r] \notin {"insert", "rolled_back"}
    <2>1. CASE RollBack(r)
        BY <1>0, <2>1 DEF RollBack, GoTo
    <2>2. CASE CloseRow(r)
        BY <1>0, <2>2 DEF CloseRow
    <2> QED
        BY <1>0, <1>4, <2>1, <2>2
        DEF Handle, Fail, BreakDeadlock, RegisterKnown, InsertUser, LoginFails, LoginPasses,
            OpenSession, ForgotUnknown, ForgotKnown, IssueToken, SendMail, RefuseToken,
            AcceptToken, UpdatePassword, ConsumeToken, FindSessions, EndRevoke, Commit, GoTo
<1> QED
    BY <1>1, <1>2, <1>3, <1>4 DEF Step, Raced

LEMMA OtherRace ==
    ASSUME Races, NEW p \in Requests, Step(p), NEW r \in Requests \ {p}
    PROVE  Raced(r)'
<1>0. Record /\ Raced(r) /\ Shaped
    BY DEF Races, Record, History
<1>1. pc'[r] = pc[r] /\ req'[r] = req[r]
    BY <1>0, OthersStay
<1> SUFFICES ASSUME \/ pc[r] = "insert" /\ Email(r) \in DOMAIN users'
                    \/ pc[r] = "rolled_back"
             PROVE  \E q \in Requests : Winner(q, r)'
    BY <1>1 DEF Raced, Email
<1>2. CASE pc[r] = "insert" /\ Email(r) \notin DOMAIN users
    <2>1. Winner(p, r)'
        BY <1>0, <1>2, CommitWins
    <2> QED
        BY <2>1
<1>3. CASE Email(r) \in DOMAIN users \/ pc[r] = "rolled_back"
    <2>1. PICK q \in Requests : Winner(q, r)
        BY <1>0, <1>3 DEF Raced
    <2>2. Winner(q, r)'
        BY <1>0, <2>1, WinnerStays
    <2> QED
        BY <2>2
<1> QED
    BY <1>2, <1>3

LEMMA NextRaces == Races /\ [Next]_vars => Races'
<1> SUFFICES ASSUME Races, [Next]_vars PROVE Races'
    OBVIOUS
<1>1. Record'
    BY NextRecord DEF Races
<1>2. CASE Tick \/ UNCHANGED vars
    BY <1>1, <1>2 DEF Tick, vars, Races, Raced, Winner, Committed, Counts, Overlap, Kind, Email,
                      arrivals, database
<1>3. ASSUME NEW p \in Requests, Step(p) PROVE Races'
    BY <1>1, <1>3, OwnRace, OtherRace DEF Races
<1> QED
    BY <1>2, <1>3 DEF Next, Step

LEMMA InitRaces == Init => Races
BY InitRecord DEF Init, Races, Raced

\* Every answered attempt is on record as long as it can count, or one that it
\* raced with is, unless its own transaction failed.
THEOREM AttemptsAreRecorded == Spec => []AttemptsGoOnRecord
<1>1. ASSUME Races, NEW r \in Requests, Kind(r) \in Limited, result[r] \in {"ok", "refused"},
             pc[r] \in {"committed", "rolled_back"}
      PROVE  \E q \in Requests :
                /\ \/ q = r
                   \/ /\ pc[r] = "rolled_back" /\ Overlap(q, r)
                      /\ Kind(q) = "register" /\ Email(q) = Email(r)
                /\ Committed(q)
                /\ since[q] >= now - Retention => q \in events
    <2>1. ASSUME NEW q \in Requests, Committed(q), Counts(q)
          PROVE  since[q] >= now - Retention => q \in events
        BY <2>1, <1>1 DEF Races, Record, Recorded, Committed
    <2>2. CASE pc[r] = "committed"
        <3>1. Committed(r) /\ Counts(r)
            BY <1>1, <2>2 DEF Committed, Counts
        <3> QED
            BY <2>1, <3>1
    <2>3. CASE pc[r] = "rolled_back"
        <3>1. PICK q \in Requests : Winner(q, r)
            BY <1>1, <2>3 DEF Races, Raced
        <3> QED
            BY <2>1, <2>3, <3>1 DEF Winner
    <2> QED
        BY <1>1, <2>2, <2>3
<1>2. Races => AttemptsGoOnRecord
    BY <1>1 DEF Limited, AttemptsGoOnRecord
<1> QED
    BY <1>2, InitRaces, NextRaces, PTL DEF Spec

=============================================================================
