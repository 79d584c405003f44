----------------------------- MODULE AuthService -----------------------------
(***************************************************************************)
(* Login, refresh and logout of the auth module                            *)
(* (internal/modules/auth/service.go) run by concurrent requests over one  *)
(* PostgreSQL database (internal/modules/auth/repository.go,               *)
(* internal/platform/database/tx.go, migrations/000002), at READ COMMITTED.*)
(*                                                                         *)
(* A request is one goroutine of the HTTP server; a slot of Requests is    *)
(* used again once its request has been answered.  Each statement sent to  *)
(* the database is an action.  What a transaction has written stays in its *)
(* request's `writes' until Commit moves it into the tables: nobody else   *)
(* sees it before, and Abort drops it.  rowLock holds the row locks that   *)
(* FOR UPDATE and UPDATE take until the transaction ends.                  *)
(***************************************************************************)
EXTENDS TokenManager, FiniteSets

CONSTANTS
    Users,       \* rows of table users
    Requests,    \* request slots of the server
    SessionIDs,  \* the ids id.NewUUID can return for sessions
    TokenIDs,    \* the ids id.NewUUID can return for refresh tokens
    MaxConns,    \* connections in the pool (DB_MAX_CONNS)
    DBAhead,     \* ticks the database's clock is ahead of the server's
    MaxTime,     \* bound: the clock stops here
    MayDisable      \* bound: the users an operator may disable

Rows == SessionIDs \cup TokenIDs

\* Local state of a request -------------------------------------------------
Operations == {"none", "login", "refresh", "logout"}

\* Statements whose effect waits for the commit.
Statements == {"createSession", "createToken", "markTokenUsed",
               "markSessionUsed", "revokeToken", "revokeSession"}

\* Answers, by the error the service returns: ok and lost (committed, but the
\* client never hears of it), 401, 403, and the errors that end as a 500.
Answers == {"none", "ok", "lost", "invalidCredentials", "invalidToken",
            "disabled", "invalidSubject", "checkViolation",
            "uniqueViolation", "error"}

Request ==
    [op : Operations, user : Users \cup {Null}, session : SessionIDs \cup {Null},
     token : TokenIDs \cup {Null},     \* the refresh token presented
     at : Int,                         \* the service's `now'
     txAt : Int,                       \* now() of the transaction
     pair : Pairs \cup {Null}, newToken : TokenIDs \cup {Null},
     sessionOpen : BOOLEAN,            \* session.RevokedAt was read as nil
     writes : SUBSET Statements,
     late : BOOLEAN]                   \* history: see RefusedFromStart

NoRequest ==
    [op |-> "none", user |-> Null, session |-> Null, token |-> Null, at |-> 0,
     txAt |-> 0, pair |-> Null, newToken |-> Null, sessionOpen |-> FALSE,
     writes |-> {}, late |-> FALSE]

Reply == [op : Operations, token : TokenIDs \cup {Null}, late : BOOLEAN,
          answer : Answers]

NoReply == [op |-> "none", token |-> Null, late |-> FALSE, answer |-> "none"]

\* Tables -------------------------------------------------------------------
SessionRow == [user : Users, created : Int, expires : Int,
               revoked : Int \cup {Null}, lastUsed : Int \cup {Null}]

TokenRow == [session : SessionIDs, rotatedFrom : TokenIDs \cup {Null},
             created : Int, expires : Int,
             revoked : Int \cup {Null}, lastUsed : Int \cup {Null}]

ASSUME AuthAssumption ==
    /\ MaxConns \in Nat \ {0}
    /\ DBAhead \in Int
    /\ MaxTime \in Nat
    /\ MayDisable \subseteq Users
    /\ SessionIDs \cap TokenIDs = {}
    /\ Null \notin Users \cup Requests \cup Rows
    /\ Null \notin SessionRow \cup TokenRow \cup Pairs

VARIABLES
    now,         \* the server's clock
    userStatus,  \* users.status
    sessions,    \* auth_sessions: a row or Null per id
    tokens,      \* refresh_tokens: a row or Null per id
    rowLock,     \* the request whose transaction holds the row's lock, or Null
    pc,          \* the statement each request will run next
    req,         \* the locals of each request
    wallet,      \* the pairs clients have received, by refresh token
    reply        \* what the last step answered, if it answered a request

vars == <<now, userStatus, sessions, tokens, rowLock, pc, req, wallet, reply>>
tables == <<sessions, tokens, wallet, userStatus>>

\* Statements run before, and inside, a transaction.
OutsideTx == {"idle", "readUser", "issue", "begin"}
InsideTx  == {"createSession", "lookup", "readSession", "readUserInTx",
              "issueInTx", "markTokenUsed", "createToken", "markSessionUsed",
              "revokeToken", "revokeSession", "commit"}

TypeOK ==
    /\ now \in Nat
    /\ userStatus \in [Users -> {"active", "disabled"}]
    /\ sessions \in [SessionIDs -> SessionRow \cup {Null}]
    /\ tokens \in [TokenIDs -> TokenRow \cup {Null}]
    /\ rowLock \in [Rows -> Requests \cup {Null}]
    /\ pc \in [Requests -> OutsideTx \cup InsideTx]
    /\ req \in [Requests -> Request]
    /\ wallet \in [TokenIDs -> Pairs \cup {Null}]
    /\ reply \in Reply

Init ==
    /\ now = TicksPerSecond     \* a second after the Unix epoch
    /\ userStatus = [u \in Users |-> "active"]
    /\ sessions = [s \in SessionIDs |-> Null]
    /\ tokens = [t \in TokenIDs |-> Null]
    /\ rowLock = [x \in Rows |-> Null]
    /\ pc = [r \in Requests |-> "idle"]
    /\ req = [r \in Requests |-> NoRequest]
    /\ wallet = [t \in TokenIDs |-> Null]
    /\ reply = NoReply

-----------------------------------------------------------------------------
(* The database and its pool. *)

DBNow == now + DBAhead

InTx(r) == pc[r] \in InsideTx

\* A transaction keeps its connection from Begin to its end.
FreeConnection == Cardinality({r \in Requests : InTx(r)}) < MaxConns

\* The repositories read through the DBTX they are given: the transaction's
\* own connection, or a connection of the pool.
CanRead(r) == InTx(r) \/ FreeConnection

\* A variant without FOR UPDATE.
NeverWaits(r, x) == TRUE

\* FOR UPDATE and UPDATE wait for the transaction that holds the row.
CanLock(r, x) == rowLock[x] \in {Null, r}

Lock(r, x) == rowLock' = [rowLock EXCEPT ![x] = r]

LocksLeft(r) == [x \in Rows |-> IF rowLock[x] = r THEN Null ELSE rowLock[x]]

Goto(r, label) == pc' = [pc EXCEPT ![r] = label]

\* A variant that takes the bound itself for a violation.
After(t, created) == t > created

\* CHECK constraints of auth_sessions and refresh_tokens.
ExpiresAfterCreated(expires, created) == expires > created
NotBeforeCreated(t, created) == t >= created

\* The unique index on rotated_from_token_id, on committed rows and on rows a
\* running transaction has inserted: the second inserter waits for the first.
RotationTaken(t) ==
    t # Null /\ \E s \in TokenIDs : tokens[s] # Null /\ tokens[s].rotatedFrom = t

RotationPending(r) ==
    /\ req[r].token # Null
    /\ \E p \in Requests \ {r} : /\ "createToken" \in req[p].writes
                                 /\ req[p].token = req[r].token

\* Ids nobody has drawn.  When they are used up, drawing one fails.
FreshSessions ==
    {s \in SessionIDs : sessions[s] = Null /\ \A r \in Requests : req[r].session # s}
FreshTokens ==
    {t \in TokenIDs : tokens[t] = Null /\ \A r \in Requests : req[r].newToken # t}

-----------------------------------------------------------------------------
(* What a transaction leaves in the tables when it commits. *)

NewSession(q) ==
    [user |-> q.user, created |-> q.txAt, expires |-> q.pair.refreshExpiresAt,
     revoked |-> Null, lastUsed |-> Null]

\* Variants: two arguments of the INSERT swapped, the column left out.
SwappedToken(q) ==
    [session |-> q.token, rotatedFrom |-> q.session, created |-> q.txAt,
     expires |-> q.pair.refreshExpiresAt, revoked |-> Null, lastUsed |-> Null]
UnlinkedToken(q) ==
    [session |-> q.session, rotatedFrom |-> Null, created |-> q.txAt,
     expires |-> q.pair.refreshExpiresAt, revoked |-> Null, lastUsed |-> Null]

\* A login presents no token, so its row is rotated from none.
NewToken(q) ==
    [session |-> q.session, rotatedFrom |-> q.token, created |-> q.txAt,
     expires |-> q.pair.refreshExpiresAt, revoked |-> Null, lastUsed |-> Null]

\* A variant that writes the whole row back as it was read.
SessionWrittenBack(q, row) ==
    [row EXCEPT !.lastUsed = IF "markSessionUsed" \in q.writes THEN q.at ELSE @,
                !.revoked  = IF "revokeSession" \in q.writes THEN q.at
                             ELSE IF q.sessionOpen THEN Null ELSE @]

\* UPDATE sets one column of the row as it is when the lock is granted.
SessionAfter(q, row) ==
    [row EXCEPT !.lastUsed = IF "markSessionUsed" \in q.writes THEN q.at ELSE @,
                !.revoked  = IF "revokeSession" \in q.writes THEN q.at ELSE @]

\* Variants that forget one of the two columns.
TokenNotSpent(q, row) ==
    [row EXCEPT !.revoked  = IF "revokeToken" \in q.writes THEN q.at ELSE @]
TokenNotRevoked(q, row) ==
    [row EXCEPT !.lastUsed = IF "markTokenUsed" \in q.writes THEN q.at ELSE @]

TokenAfter(q, row) ==
    [row EXCEPT !.lastUsed = IF "markTokenUsed" \in q.writes THEN q.at ELSE @,
                !.revoked  = IF "revokeToken" \in q.writes THEN q.at ELSE @]

SessionsAfter(q) ==
    [s \in SessionIDs |->
        IF s # q.session THEN sessions[s]
        ELSE IF "createSession" \in q.writes THEN NewSession(q)
        ELSE IF sessions[s] = Null THEN Null
        ELSE SessionAfter(q, sessions[s])]

TokensAfter(q) ==
    [t \in TokenIDs |->
        IF "createToken" \in q.writes /\ t = q.newToken THEN NewToken(q)
        ELSE IF t = q.token /\ tokens[t] # Null THEN TokenAfter(q, tokens[t])
        ELSE tokens[t]]

-----------------------------------------------------------------------------
(* How a request ends. *)

\* The request returns; a transaction it was in is over, its locks are free.
Finish(r, answer) ==
    /\ Goto(r, "idle")
    /\ req' = [req EXCEPT ![r] = NoRequest]
    /\ reply' = [op |-> req[r].op, token |-> req[r].token, late |-> req[r].late,
                 answer |-> answer]
    /\ rowLock' = LocksLeft(r)

\* The service returns an error, so WithinTx rolls back: no write survives.
Reject(r, answer) ==
    /\ Finish(r, answer)
    /\ UNCHANGED <<now, tables>>

\* The request goes on to `label' with its locals changed to q, taking no lock
\* (Continue) or the lock of row x (Locking).
Move(r, label, q) ==
    /\ Goto(r, label)
    /\ req' = [req EXCEPT ![r] = q]
    /\ reply' = NoReply
    /\ UNCHANGED <<now, tables>>

Continue(r, label, q) == Move(r, label, q) /\ UNCHANGED rowLock

Locking(r, x, label, q) == Move(r, label, q) /\ Lock(r, x)

\* The locals after a statement that writes: its effect waits for the commit.
Wrote(q, statement) == [q EXCEPT !.writes = @ \cup {statement}]

-----------------------------------------------------------------------------
(* Checks the service makes on what it has read. *)

ValidRefreshTokenState(row, t) ==
    row.revoked = Null /\ row.lastUsed = Null /\ row.expires > t

\* A variant that forgets the revocation.
ValidUntilExpiry(row, t) == row.expires > t

ValidAuthSessionState(row, t) == row.revoked = Null /\ row.expires > t

IsActive(u) == userStatus[u] = "active"

\* A refresh that starts now with token t has nothing to hope for: what is
\* committed already rules it out.  Stated apart from the service's checks.
RefusedFromStart(t) ==
    \/ t = Null
    \/ tokens[t] = Null
    \/ tokens[t].revoked # Null \/ tokens[t].lastUsed # Null
    \/ now >= tokens[t].expires
    \/ sessions[tokens[t].session].revoked # Null
    \/ now >= sessions[tokens[t].session].expires
    \/ ~IsActive(sessions[tokens[t].session].user)

-----------------------------------------------------------------------------
(* Login: one read outside a transaction, then a transaction of two inserts. *)

StartLogin(r, u) ==
    /\ pc[r] = "idle"
    /\ Move(r, "readUser",
            [NoRequest EXCEPT !.op = "login", !.user = u, !.late = ~IsActive(u)])
    /\ UNCHANGED rowLock

\* GetUserByEmailNormalized, ComparePassword (which any request may fail) and
\* the check of the status that was read.
LoginReadUser(r) ==
    /\ pc[r] = "readUser"
    /\ CanRead(r)
    /\ \/ Reject(r, "invalidCredentials")
       \/ ~IsActive(req[r].user) /\ Reject(r, "disabled")
       \/ IsActive(req[r].user) /\ Continue(r, "issue", req[r])

LoginIssue(r) ==
    /\ pc[r] = "issue"
    /\ \/ \E s \in FreshSessions, t \in FreshTokens :
             Continue(r, "begin",
                 [req[r] EXCEPT !.session = s, !.newToken = t,
                                !.pair = IssueTokenPair(now, Null)])
       \/ (FreshSessions = {} \/ FreshTokens = {}) /\ Reject(r, "error")

\* A variant that inserts through the pool instead of the transaction.
CreateSessionThroughPool(r) ==
    /\ pc[r] = "createSession"
    /\ Goto(r, "createToken")
    /\ sessions' = [sessions EXCEPT ![req[r].session] = NewSession(req[r])]
    /\ reply' = NoReply
    /\ UNCHANGED <<now, userStatus, tokens, rowLock, req, wallet>>

CreateAuthSession(r) ==
    /\ pc[r] = "createSession"
    /\ IF ExpiresAfterCreated(req[r].pair.refreshExpiresAt, req[r].txAt)
       THEN Continue(r, "createToken", Wrote(req[r], "createSession"))
       ELSE Reject(r, "checkViolation")

-----------------------------------------------------------------------------
(* Refresh and logout read the clock first; a transaction does the rest. *)

StartRefresh(r, t) ==
    /\ pc[r] = "idle"
    /\ Move(r, "begin", [NoRequest EXCEPT !.op = "refresh", !.token = t, !.at = now,
                                          !.late = RefusedFromStart(t)])
    /\ UNCHANGED rowLock

StartLogout(r, t) ==
    /\ pc[r] = "idle"
    /\ Move(r, "begin", [NoRequest EXCEPT !.op = "logout", !.token = t, !.at = now,
                                          !.late = FALSE])
    /\ UNCHANGED rowLock

\* pool.Begin: waits for a connection; now() is fixed for the transaction.
Begin(r) ==
    /\ pc[r] = "begin"
    /\ FreeConnection
    /\ Continue(r, IF req[r].op = "login" THEN "createSession" ELSE "lookup",
                [req[r] EXCEPT !.txAt = DBNow])

\* GetRefreshTokenByHashForUpdate reads the row as it is once the lock is held.
RefreshLookup(r) ==
    /\ pc[r] = "lookup" /\ req[r].op = "refresh"
    /\ \/ req[r].token = Null /\ Reject(r, "invalidToken")
       \/ /\ req[r].token # Null
          /\ CanLock(r, req[r].token)
          /\ IF ValidRefreshTokenState(tokens[req[r].token], req[r].at)
             THEN Locking(r, req[r].token, "readSession", req[r])
             ELSE Reject(r, "invalidToken")

\* A variant that locks the session before its token.
LogoutLocksSessionFirst(r) ==
    LET s == tokens[req[r].token].session
    IN  /\ pc[r] = "lookup" /\ req[r].op = "logout"
        /\ \/ req[r].token = Null /\ Continue(r, "commit", req[r])
           \/ /\ req[r].token # Null /\ rowLock[s] # r
              /\ CanLock(r, s)
              /\ Locking(r, s, "lookup", req[r])
           \/ /\ req[r].token # Null /\ rowLock[s] = r
              /\ CanLock(r, req[r].token)
              /\ Locking(r, req[r].token, "readSession", req[r])

\* An unknown token leaves logout nothing to do: it commits and answers 204.
LogoutLookup(r) ==
    /\ pc[r] = "lookup" /\ req[r].op = "logout"
    /\ \/ req[r].token = Null /\ Continue(r, "commit", req[r])
       \/ /\ req[r].token # Null
          /\ CanLock(r, req[r].token)
          /\ Locking(r, req[r].token, "readSession", req[r])

\* GetAuthSessionByID takes no lock.  The foreign key keeps the row there.
SessionRead(r) ==
    LET s == tokens[req[r].token].session
    IN  [req[r] EXCEPT !.session = s, !.sessionOpen = (sessions[s].revoked = Null)]

RefreshReadSession(r) ==
    /\ pc[r] = "readSession" /\ req[r].op = "refresh"
    /\ IF ValidAuthSessionState(sessions[SessionRead(r).session], req[r].at)
       THEN Continue(r, "readUserInTx", SessionRead(r))
       ELSE Reject(r, "invalidToken")

LogoutReadSession(r) ==
    /\ pc[r] = "readSession" /\ req[r].op = "logout"
    /\ Continue(r, "revokeToken", SessionRead(r))

-----------------------------------------------------------------------------
(* The rest of a refresh. *)

\* A variant that does not look at the user's status.
RefreshReadAnyUser(r) ==
    /\ pc[r] = "readUserInTx"
    /\ CanRead(r)
    /\ Continue(r, "issueInTx", [req[r] EXCEPT !.user = sessions[req[r].session].user])

RefreshReadUser(r) ==
    LET u == sessions[req[r].session].user
    IN  /\ pc[r] = "readUserInTx"
        /\ CanRead(r)
        /\ IF IsActive(u)
           THEN Continue(r, "issueInTx", [req[r] EXCEPT !.user = u])
           ELSE Reject(r, "disabled")

\* The token manager reads the clock anew, so a session that was good at `at'
\* may have expired by now.
RefreshIssue(r) ==
    LET expires == sessions[req[r].session].expires
    IN  /\ pc[r] = "issueInTx"
        /\ \/ ~CanIssue(now, expires) /\ Reject(r, "invalidSubject")
           \/ /\ CanIssue(now, expires)
              /\ \E t \in FreshTokens :
                    Continue(r, "markTokenUsed",
                        [req[r] EXCEPT !.newToken = t,
                                       !.pair = IssueTokenPair(now, expires)])
           \/ FreshTokens = {} /\ CanIssue(now, expires) /\ Reject(r, "error")

MarkRefreshTokenUsed(r) ==
    /\ pc[r] = "markTokenUsed"
    /\ IF NotBeforeCreated(req[r].at, tokens[req[r].token].created)
       THEN Continue(r, "createToken", Wrote(req[r], "markTokenUsed"))
       ELSE Reject(r, "checkViolation")

\* The insert that ends a login and the one that rotates a token.
CreateRefreshToken(r) ==
    /\ pc[r] = "createToken"
    /\ ~RotationPending(r)
    /\ IF ~ExpiresAfterCreated(req[r].pair.refreshExpiresAt, req[r].txAt)
       THEN Reject(r, "checkViolation")
       ELSE IF RotationTaken(req[r].token)
       THEN Reject(r, "uniqueViolation")
       ELSE Continue(r, IF req[r].op = "login" THEN "commit" ELSE "markSessionUsed",
                     Wrote(req[r], "createToken"))

MarkAuthSessionUsed(r) ==
    /\ pc[r] = "markSessionUsed"
    /\ CanLock(r, req[r].session)
    /\ IF NotBeforeCreated(req[r].at, sessions[req[r].session].created)
       THEN Locking(r, req[r].session, "commit", Wrote(req[r], "markSessionUsed"))
       ELSE Reject(r, "checkViolation")

-----------------------------------------------------------------------------
(* The rest of a logout: what was read as revoked is left as it is. *)

RevokeRefreshToken(r) ==
    LET row == tokens[req[r].token]
    IN  /\ pc[r] = "revokeToken"
        /\ \/ row.revoked # Null /\ Continue(r, "revokeSession", req[r])
           \/ /\ row.revoked = Null
              /\ IF NotBeforeCreated(req[r].at, row.created)
                 THEN Continue(r, "revokeSession", Wrote(req[r], "revokeToken"))
                 ELSE Reject(r, "checkViolation")

RevokeAuthSession(r) ==
    /\ pc[r] = "revokeSession"
    /\ \/ ~req[r].sessionOpen /\ Continue(r, "commit", req[r])
       \/ /\ req[r].sessionOpen
          /\ CanLock(r, req[r].session)
          /\ IF NotBeforeCreated(req[r].at, sessions[req[r].session].created)
             THEN Locking(r, req[r].session, "commit", Wrote(req[r], "revokeSession"))
             ELSE Reject(r, "checkViolation")

-----------------------------------------------------------------------------

\* The client of a committed login or refresh receives its pair, unless the
\* connection breaks: then the service saw an error, or nobody saw the answer.
Delivers(q) ==
    IF q.newToken = Null THEN wallet ELSE [wallet EXCEPT ![q.newToken] = q.pair]

Commit(r) ==
    /\ pc[r] = "commit"
    /\ sessions' = SessionsAfter(req[r])
    /\ tokens' = TokensAfter(req[r])
    /\ \/ Finish(r, "ok") /\ wallet' = Delivers(req[r])
       \/ Finish(r, "lost") /\ UNCHANGED wallet
    /\ UNCHANGED <<now, userStatus>>

\* A statement fails, the request's context is cancelled, the handler panics
\* or the process dies: the transaction, if there is one, is rolled back.
Abort(r) ==
    /\ pc[r] # "idle"
    /\ Reject(r, "error")

\* Nothing under src/ writes users.status; an operator may.
DisableUser(u) ==
    /\ IsActive(u)
    /\ userStatus' = [userStatus EXCEPT ![u] = "disabled"]
    /\ reply' = NoReply
    /\ UNCHANGED <<now, sessions, tokens, rowLock, pc, req, wallet>>

Tick ==
    /\ now < MaxTime
    /\ now' = now + 1
    /\ reply' = NoReply
    /\ UNCHANGED <<userStatus, sessions, tokens, rowLock, pc, req, wallet>>

-----------------------------------------------------------------------------

\* A client presents a token it has received, or something else.
Start(r) ==
    \/ \E u \in Users : StartLogin(r, u)
    \/ \E t \in TokenIDs \cup {Null} :
          /\ t # Null => wallet[t] # Null
          /\ StartRefresh(r, t) \/ StartLogout(r, t)

Step(r) ==
    \/ LoginReadUser(r) \/ LoginIssue(r) \/ CreateAuthSession(r)
    \/ Begin(r)
    \/ RefreshLookup(r) \/ RefreshReadSession(r) \/ RefreshReadUser(r)
    \/ RefreshIssue(r) \/ MarkRefreshTokenUsed(r) \/ MarkAuthSessionUsed(r)
    \/ LogoutLookup(r) \/ LogoutReadSession(r)
    \/ RevokeRefreshToken(r) \/ RevokeAuthSession(r)
    \/ CreateRefreshToken(r)
    \/ Commit(r)

Next ==
    \/ \E r \in Requests : Start(r) \/ Step(r) \/ Abort(r)
    \/ \E u \in MayDisable : DisableUser(u)
    \/ Tick

Spec == Init /\ [][Next]_vars

\* A request that can go on again and again does go on: PostgreSQL grants row
\* locks and pgxpool hands out connections in the order they are waited for.
FairSpec == Spec /\ \A r \in Requests : SF_vars(Step(r))

-----------------------------------------------------------------------------
(* Safety. *)

Stored(t) == tokens[t] # Null
Spendable(t) == Stored(t) /\ tokens[t].revoked = Null /\ tokens[t].lastUsed = Null
Successors(t) == {s \in TokenIDs : Stored(s) /\ tokens[s].rotatedFrom = t}

\* A session never has two refresh tokens that could both be spent, however
\* many requests present the same token at once (service.go:180-225).
OneSpendableToken ==
    \A t, u \in TokenIDs :
        (Spendable(t) /\ Spendable(u) /\ tokens[t].session = tokens[u].session) => t = u

\* Rotation is all or nothing: a token is spent if and only if exactly one
\* token of the same session was rotated from it, whatever step of the
\* transaction failed and whether or not the client heard of it.
RotationIntact ==
    \A t \in TokenIDs : Stored(t) =>
        /\ tokens[t].lastUsed # Null <=> Successors(t) # {}
        /\ \A s, u \in Successors(t) : s = u /\ tokens[s].session = tokens[t].session

\* What committed state ruled out when a request started is never granted: no
\* pair for a spent or revoked token, an expired or closed session or a
\* disabled user, though each check reads its row apart from the others.
LateNeverSucceeds == reply.late => reply.answer \notin {"ok", "lost"}

\* A logout that has committed leaves its token revoked and its session closed,
\* also when another logout or a refresh of the same session is under way.
LogoutCloses ==
    (reply.op = "logout" /\ reply.answer \in {"ok", "lost"} /\ reply.token # Null)
        => /\ tokens[reply.token].revoked # Null
           /\ sessions[tokens[reply.token].session].revoked # Null

\* What is spent or revoked stays so: no statement of another transaction,
\* which may have read the row before, puts it back (repository.go:55-85).
NothingReopens ==
    [][/\ \A t \in TokenIDs : Stored(t) =>
             /\ tokens[t].lastUsed # Null => tokens'[t].lastUsed # Null
             /\ tokens[t].revoked # Null => tokens'[t].revoked # Null
       /\ \A s \in SessionIDs : (sessions[s] # Null /\ sessions[s].revoked # Null)
             => sessions'[s].revoked # Null]_vars

\* The unique index on rotated_from_token_id is a backstop only: the row lock
\* taken by the lookup turns the loser of a race into a 401, never into a 500.
NoUniqueViolation == reply.answer # "uniqueViolation"

\* A login is all or nothing: every session has the one token it began with.
LoginIntact ==
    \A s \in SessionIDs : sessions[s] # Null =>
        \E t \in TokenIDs : \A u \in TokenIDs :
            (Stored(u) /\ tokens[u].session = s /\ tokens[u].rotatedFrom = Null)
                <=> u = t

-----------------------------------------------------------------------------
(* Time. *)

\* No access token a client holds verifies once its session has expired, and
\* no refresh token outlives its session, though each rotation reads the
\* clock anew and claims are cut to whole seconds.
SessionWindow ==
    \A t \in TokenIDs : wallet[t] # Null =>
        LET session == sessions[tokens[t].session]
        IN  /\ VerifyAccessToken(wallet[t], now) => now < session.expires
            /\ tokens[t].expires <= session.expires

\* With the two clocks in step, the CHECK constraints on last_used_at and
\* revoked_at never refuse a refresh or a logout: the clock was read before
\* the transaction, but after the one that created the row.
NoClockViolation ==
    reply.answer = "checkViolation" => reply.op = "login"

-----------------------------------------------------------------------------
(* Liveness. *)

\* Every request is answered: two transactions that want rows of one session never
\* wait for each other, because refresh and logout lock the token before the
\* session (service.go:180-232, 260-277), and none waits for a second connection.
EveryRequestAnswered == \A r \in Requests : pc[r] # "idle" ~> pc[r] = "idle"

-----------------------------------------------------------------------------
(* What the repository says and the code does not do. *)

\* api/openapi.yaml gives POST /auth/refresh the answers 200, 400 and 401.
RefreshAnswersAsDocumented ==
    reply.op = "refresh" => reply.answer # "disabled"

\* An expired session makes a refresh fail with ErrInvalidRefreshToken.
ExpiredSessionIsInvalidToken ==
    reply.op = "refresh" => reply.answer # "invalidSubject"

\* The access token of an issued pair verifies when it is issued.
IssuedAccessTokenVerifies ==
    \A t \in TokenIDs :
        wallet[t] # Null => VerifyAccessToken(wallet[t], wallet[t].issuedAt)

\* A session that is already revoked is not revoked again.
RevokedAtWrittenOnce ==
    [][\A s \in SessionIDs :
        (sessions[s] # Null /\ sessions[s].revoked # Null)
            => sessions'[s].revoked = sessions[s].revoked]_vars
=============================================================================
