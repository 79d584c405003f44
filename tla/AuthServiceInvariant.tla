------------------------ MODULE AuthServiceInvariant ------------------------
(***************************************************************************)
(* The inductive invariant of AuthService: what is known of a request at   *)
(* each of its labels, of the rows it relies on, and of the tables (IInv), *)
(* and what it has learnt that its answer will rest on (SafetyInv).  TLC   *)
(* checks both as invariants; AuthServiceProofs and                        *)
(* AuthServiceSafetyProofs prove them inductive.                           *)
(***************************************************************************)
EXTENDS AuthService

\* A request with a token is past its lookup.
AfterLookup == {"readSession", "readUserInTx", "issueInTx", "markTokenUsed",
                "createToken", "markSessionUsed", "revokeToken",
                "revokeSession", "commit"}

\* The labels each operation goes through.
LabelsOf(op) ==
    CASE op = "none"    -> {"idle"}
      [] op = "login"   -> {"readUser", "issue", "begin", "createSession",
                            "createToken", "commit"}
      [] op = "refresh" -> {"begin", "lookup", "readSession", "readUserInTx",
                            "issueInTx", "markTokenUsed", "createToken",
                            "markSessionUsed", "commit"}
      [] op = "logout"  -> {"begin", "lookup", "readSession", "revokeToken",
                            "revokeSession", "commit"}

\* The statements a login or a refresh has run when it reaches a label.
WrittenAt(op, label) ==
    CASE op = "login" /\ label = "createToken" -> {"createSession"}
      [] op = "login" /\ label = "commit" -> {"createSession", "createToken"}
      [] op = "refresh" /\ label = "createToken" -> {"markTokenUsed"}
      [] op = "refresh" /\ label = "markSessionUsed" -> {"markTokenUsed", "createToken"}
      [] op = "refresh" /\ label = "commit" ->
             {"markTokenUsed", "createToken", "markSessionUsed"}
      [] OTHER -> {}

\* The locals q of a request at a label.
LocalsOK(label, q) ==
    /\ label \in LabelsOf(q.op)
    /\ q.op # "logout" => q.writes = WrittenAt(q.op, label)
    /\ q.op = "logout" => q.writes \subseteq {"revokeToken", "revokeSession"}
    /\ q.op = "login" => q.token = Null /\ q.user # Null
    /\ (q.op = "login" /\ label \notin {"readUser", "issue"}) =>
            q.session # Null /\ q.newToken # Null /\ q.pair # Null
    /\ (q.op = "refresh" /\ label \in AfterLookup) => q.token # Null
    /\ (q.op = "refresh" /\ label \in {"markTokenUsed", "createToken",
                                       "markSessionUsed", "commit"}) =>
            q.newToken # Null /\ q.pair # Null
    /\ q.op = "logout" => q.newToken = Null
    /\ (q.op = "logout" /\ q.token = Null) =>
            label \in {"begin", "lookup", "commit"} /\ q.writes = {}
    /\ q.op = "none" => q.token = Null /\ q.newToken = Null /\ q.session = Null

\* The rows a request relies on: the token it was given is there, the one it
\* exchanges is good until it commits, what it will insert is not there yet.
RowsOK(label, q) ==
    /\ q.token # Null => Stored(q.token)
    /\ (q.op = "refresh" /\ label \in AfterLookup) => Spendable(q.token)
    /\ (q.token # Null /\ label \in AfterLookup \ {"readSession"}) =>
            q.session = tokens[q.token].session
    /\ q.newToken # Null => tokens[q.newToken] = Null
    /\ (q.op = "login" /\ q.session # Null) => sessions[q.session] = Null

\* From its lookup to its end a request holds the row of its token.
LockOK(r, label, q) ==
    (q.token # Null /\ label \in AfterLookup) => rowLock[q.token] = r

\* No two requests have drawn the same id.
DrawnApart ==
    \A r, p \in Requests : r # p =>
        /\ req[r].newToken # Null => req[p].newToken # req[r].newToken
        /\ (req[r].op = "login" /\ req[p].op = "login" /\ req[r].session # Null)
               => req[p].session # req[r].session

\* Foreign keys, and what clients hold was committed.
References ==
    \A t \in TokenIDs :
        /\ Stored(t) => sessions[tokens[t].session] # Null
        /\ (Stored(t) /\ tokens[t].rotatedFrom # Null) => Stored(tokens[t].rotatedFrom)
        /\ wallet[t] # Null => Stored(t)

\* Rotation seen from both ends, with OneSpendableToken.
TablesOK == References /\ OneSpendableToken /\ RotationIntact

RequestsOK ==
    \A r \in Requests : /\ LocalsOK(pc[r], req[r])
                        /\ RowsOK(pc[r], req[r])
                        /\ LockOK(r, pc[r], req[r])

\* Every request is where its operation can be and knows what it must; every
\* row it relies on is as it found it; the tables are consistent.
IInv == TypeOK /\ RequestsOK /\ DrawnApart /\ TablesOK /\ NoUniqueViolation

-----------------------------------------------------------------------------
(* What a request has learnt about the rows it reads, each without the     *)
(* others, that still counts when it commits.                              *)

\* The session of the token a request was given.
SessionOf(q) == sessions[tokens[q.token].session]

\* What ruled a late request out from its start is still to be found at a label.
RefusalAhead(label, q) ==
    \/ q.op = "login" /\ label = "readUser" /\ ~IsActive(q.user)
    \/ /\ q.op = "refresh" /\ label \in {"begin", "lookup"}
       /\ q.token = Null \/ ~ValidRefreshTokenState(tokens[q.token], q.at)
    \/ /\ q.op = "refresh" /\ label \in {"begin", "lookup", "readSession"}
       /\ q.token # Null /\ ~ValidAuthSessionState(SessionOf(q), q.at)
    \/ /\ q.op = "refresh" /\ label \in {"begin", "lookup", "readSession", "readUserInTx"}
       /\ q.token # Null /\ ~IsActive(SessionOf(q).user)

LateOK(label, q) == q.late => RefusalAhead(label, q)

\* A logout leaves out a statement only if another has done its work for good.
LogoutOK(label, q) ==
    (q.op = "logout" /\ q.token # Null) =>
        /\ label \in {"revokeSession", "commit"} =>
               tokens[q.token].revoked # Null \/ "revokeToken" \in q.writes
        /\ (label \in {"revokeToken", "revokeSession", "commit"} /\ ~q.sessionOpen) =>
               SessionOf(q).revoked # Null
        /\ label = "commit" =>
               SessionOf(q).revoked # Null \/ "revokeSession" \in q.writes

\* A pair that was issued ends with its session.
PairOK(label, q) ==
    /\ (q.op = "login" /\ label \notin {"readUser", "issue"}) =>
           q.pair.accessExpiresAt <= q.pair.refreshExpiresAt
    /\ (q.op = "refresh" /\ label \in {"markTokenUsed", "createToken",
                                       "markSessionUsed", "commit"}) =>
           /\ q.pair.accessExpiresAt <= SessionOf(q).expires
           /\ q.pair.refreshExpiresAt <= SessionOf(q).expires

\* With a database clock that is not ahead, the rows a request presents were
\* created before it started, and a transaction begins before its pair ends.
ClockOK(label, q) ==
    DBAhead <= 0 =>
        /\ q.txAt <= now
        /\ (q.op \in {"refresh", "logout"} /\ q.token # Null) =>
               q.at >= tokens[q.token].created /\ q.at >= SessionOf(q).created
        /\ (q.op = "refresh" /\ label \in {"markTokenUsed", "createToken"}) =>
               q.pair.refreshExpiresAt > q.txAt

Knows(label, q) ==
    LateOK(label, q) /\ LogoutOK(label, q) /\ PairOK(label, q) /\ ClockOK(label, q)

\* No token outlives its session, and no row comes from the future.
RowsInTime ==
    /\ \A t \in TokenIDs : Stored(t) =>
           /\ tokens[t].expires <= sessions[tokens[t].session].expires
           /\ wallet[t] # Null =>
                  wallet[t].accessExpiresAt <= sessions[tokens[t].session].expires
           /\ DBAhead <= 0 => tokens[t].created <= now
    /\ DBAhead <= 0 =>
           \A s \in SessionIDs : sessions[s] # Null => sessions[s].created <= now

\* What the answers promise, with what makes it inductive.
SafetyInv ==
    /\ IInv
    /\ \A r \in Requests : Knows(pc[r], req[r])
    /\ RowsInTime
    /\ LoginIntact /\ LateNeverSucceeds /\ LogoutCloses
    /\ DBAhead <= 0 => NoClockViolation
=============================================================================
