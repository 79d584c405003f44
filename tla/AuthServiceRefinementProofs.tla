---------------------- MODULE AuthServiceRefinementProofs ----------------------
(***************************************************************************)
(* Proof that AuthService implements SessionFamily under the mapping of    *)
(* AuthServiceRefinement: each step of the service maps to a step of the   *)
(* family or to a stutter, for all values of the constants.                *)
(***************************************************************************)
EXTENDS AuthServiceRefinement, AuthServiceSafetyProofs

-----------------------------------------------------------------------------
(* Pledges.                                                                *)

Pledged(t) == \E r \in Requests : Exchanging(r) /\ req[r].token = t

\* A pledged token is good, and nobody else is past its lookup.
LEMMA PledgeHolds ==
    ASSUME IInv, NEW r \in Requests, Exchanging(r)
    PROVE  /\ req[r].token \in TokenIDs /\ Spendable(req[r].token)
           /\ pc[r] \in AfterLookup /\ rowLock[req[r].token] = r
<1>1. pc[r] \in AfterLookup /\ req[r].op = "refresh"
  BY DEF Exchanging, AfterLookup
<1> QED
  BY <1>1, RefreshHoldsGoodToken

LEMMA PledgedOnce ==
    ASSUME IInv, NEW r \in Requests, pc[r] \in AfterLookup, req[r].token # Null,
           NEW p \in Requests, Exchanging(p), req[p].token = req[r].token
    PROVE  p = r
  BY PledgeHolds, AtLabel DEF LockOK

\* The abstract state is a function of the tables and the pledges.
LEMMA StatusAt ==
    ASSUME IInv, NEW t \in TokenIDs
    PROVE  /\ ~Stored(t) => AbstractStatus[t] = "none"
           /\ (Stored(t) /\ tokens[t].revoked # Null) => AbstractStatus[t] = "revoked"
           /\ (Stored(t) /\ tokens[t].revoked = Null /\ tokens[t].lastUsed # Null) =>
                  AbstractStatus[t] = "spent"
           /\ Spendable(t) => AbstractStatus[t] = IF Pledged(t) THEN "pledged" ELSE "live"
  BY DEF AbstractStatus, Pledged, Spendable, Stored

\* Steps that leave the tables alone can change pledges only.
LEMMA SameTables ==
    ASSUME UNCHANGED <<sessions, tokens>>
    PROVE  /\ AbstractSession' = AbstractSession /\ AbstractFamily' = AbstractFamily
           /\ \A t \in TokenIDs :
                  (Pledged(t)' <=> Pledged(t)) => AbstractStatus'[t] = AbstractStatus[t]
           /\ (\A t \in TokenIDs : Pledged(t)' <=> Pledged(t)) => abstract' = abstract
<1>1. AbstractSession' = AbstractSession /\ AbstractFamily' = AbstractFamily
  BY DEF AbstractSession, AbstractFamily
<1>2. \A t \in TokenIDs :
          (Pledged(t)' <=> Pledged(t)) => AbstractStatus'[t] = AbstractStatus[t]
  BY DEF AbstractStatus, Pledged
<1>3. (\A t \in TokenIDs : Pledged(t)' <=> Pledged(t)) => AbstractStatus' = AbstractStatus
  BY DEF AbstractStatus, Pledged
<1> QED
  BY <1>1, <1>2, <1>3 DEF abstract

\* A request that makes or gives up no exchange changes nothing of the family.
LEMMA NoPledgeChanges ==
    ASSUME IInv, NEW r \in Requests, NEW label, NEW q,
           UNCHANGED <<sessions, tokens>>,
           pc' = [pc EXCEPT ![r] = label], req' = [req EXCEPT ![r] = q],
           q.token = req[r].token \/ ~Exchanging(r),
           Exchanging(r)' <=> Exchanging(r)
    PROVE  abstract' = abstract
<1>1. \A p \in Requests \ {r} : pc'[p] = pc[p] /\ req'[p] = req[p]
  BY DEF IInv, TypeOK
<1>2. req'[r] = q
  BY DEF IInv, TypeOK
<1>3. \A p \in Requests : /\ Exchanging(p)' <=> Exchanging(p)
                          /\ Exchanging(p) => req'[p].token = req[p].token
  BY <1>1, <1>2 DEF Exchanging
<1> QED
  BY <1>3, SameTables DEF Pledged

\* A change of one token's status, point by point.
LEMMA StatusUpdate ==
    ASSUME NEW t \in TokenIDs, NEW value, AbstractStatus'[t] = value,
           \A u \in TokenIDs \ {t} : AbstractStatus'[u] = AbstractStatus[u]
    PROVE  AbstractStatus' = [AbstractStatus EXCEPT ![t] = value]
<1>1. PICK f, g : f = AbstractStatus /\ g = AbstractStatus'
  OBVIOUS
<1>2. f = [u \in TokenIDs |-> f[u]] /\ g = [u \in TokenIDs |-> g[u]]
  BY <1>1 DEF AbstractStatus
<1>3. g[t] = value /\ \A u \in TokenIDs \ {t} : g[u] = f[u]
  BY <1>1
<1>4. g = [f EXCEPT ![t] = value]
  BY <1>2, <1>3
<1> QED
  BY <1>1, <1>4

-----------------------------------------------------------------------------
(* Requests that move on, fail or have not begun.                          *)

\* The read of an open session admits the exchange of a token found good.
LEMMA ReadAdmits ==
    ASSUME IInv, NEW r \in Requests, RefreshReadSession(r),
           Move(r, "readUserInTx", SessionRead(r)),
           ValidAuthSessionState(sessions[SessionRead(r).session], req[r].at)
    PROVE  Family!Next
<1> USE AuthAssumption, TokenAssumption
<1>1. pc[r] = "readSession" /\ req[r].op = "refresh" /\ pc[r] \in AfterLookup
  BY DEF RefreshReadSession, AfterLookup
<1>2. PICK t \in TokenIDs : t = req[r].token
  BY <1>1, RefreshHoldsGoodToken
<1>3. /\ t # Null /\ Spendable(t) /\ Stored(t)
      /\ tokens[t].session \in SessionIDs /\ sessions[tokens[t].session] \in SessionRow
  BY <1>1, <1>2, RefreshHoldsGoodToken
<1>4. SessionRead(r).token = t /\ SessionRead(r).op = "refresh"
      /\ SessionRead(r).session = tokens[t].session
  BY <1>1, <1>2, SessionReadIsRequest
<1>5. /\ UNCHANGED <<sessions, tokens>>
      /\ pc' = [pc EXCEPT ![r] = "readUserInTx"] /\ req' = [req EXCEPT ![r] = SessionRead(r)]
  BY DEF Move, Goto, tables
<1>6. ~Exchanging(r)
  BY <1>1 DEF Exchanging
<1>7. ~Pledged(t)
  BY <1>1, <1>2, <1>3, <1>6, PledgedOnce DEF Pledged
<1>8. pc'[r] = "readUserInTx" /\ req'[r] = SessionRead(r)
      /\ \A p \in Requests \ {r} : pc'[p] = pc[p] /\ req'[p] = req[p]
  BY <1>5 DEF IInv, TypeOK
<1>9. Exchanging(r)' /\ req'[r].token = t
  BY <1>4, <1>8 DEF Exchanging
<1>10. \A p \in Requests \ {r} : Exchanging(p)' <=> Exchanging(p)
  BY <1>8 DEF Exchanging
<1>11. \A u \in TokenIDs : Pledged(u)' <=> (Pledged(u) \/ u = t)
  BY <1>6, <1>8, <1>9, <1>10 DEF Pledged
<1>12. AbstractStatus[t] = "live"
  BY <1>3, <1>7, StatusAt
<1>13. AbstractStatus'[t] = "pledged"
  BY <1>3, <1>5, <1>11 DEF AbstractStatus, Pledged, Spendable, Stored
<1>14. AbstractStatus' = [AbstractStatus EXCEPT ![t] = "pledged"]
  BY <1>5, <1>11, <1>13, SameTables, StatusUpdate
<1>15. AbstractSession[AbstractFamily[t]] = "open"
  BY <1>3, <1>4 DEF AbstractSession, AbstractFamily, Stored, ValidAuthSessionState
<1>16. UNCHANGED <<AbstractSession, AbstractFamily>>
  BY <1>5, SameTables
<1> QED
  BY <1>12, <1>14, <1>15, <1>16 DEF Family!Next, Family!Admit

\* A failure gives up the exchange it interrupts, if there is one.
LEMMA RejectWithdraws ==
    ASSUME IInv, NEW r \in Requests, NEW answer, Reject(r, answer)
    PROVE  abstract' = abstract \/ Family!Next
<1> USE AuthAssumption, TokenAssumption
<1>1. /\ UNCHANGED <<sessions, tokens>>
      /\ pc' = [pc EXCEPT ![r] = "idle"] /\ req' = [req EXCEPT ![r] = NoRequest]
  BY DEF Reject, Finish, Goto, tables
<1>2. pc'[r] = "idle" /\ \A p \in Requests \ {r} : pc'[p] = pc[p] /\ req'[p] = req[p]
  BY <1>1 DEF IInv, TypeOK
<1>3. ~Exchanging(r)' /\ \A p \in Requests \ {r} : Exchanging(p)' <=> Exchanging(p)
  BY <1>2 DEF Exchanging
<1>4. CASE ~Exchanging(r)
  BY <1>1, <1>3, <1>4, NoPledgeChanges
<1>5. CASE Exchanging(r)
  <2>1. PICK t \in TokenIDs : t = req[r].token
    BY <1>5, PledgeHolds
  <2>2. Spendable(t) /\ pc[r] \in AfterLookup /\ Pledged(t) /\ t # Null
    BY <1>5, <2>1, PledgeHolds DEF Pledged, Rows
  <2>3. \A p \in Requests \ {r} : Exchanging(p) => req[p].token # t
    BY <2>1, <2>2, PledgedOnce
  <2>4. ~Pledged(t)'
    BY <1>2, <1>3, <2>3 DEF Pledged
  <2>5. \A u \in TokenIDs \ {t} : Pledged(u)' <=> Pledged(u)
    BY <1>2, <1>3, <2>1 DEF Pledged
  <2>6. AbstractStatus[t] = "pledged"
    BY <2>2, StatusAt
  <2>7. AbstractStatus'[t] = "live"
    BY <1>1, <2>2, <2>4 DEF AbstractStatus, Pledged, Spendable, Stored
  <2>8. AbstractStatus' = [AbstractStatus EXCEPT ![t] = "live"]
    BY <1>1, <2>5, <2>7, SameTables, StatusUpdate
  <2>9. UNCHANGED <<AbstractSession, AbstractFamily>>
    BY <1>1, SameTables
  <2> QED
    BY <2>6, <2>8, <2>9 DEF Family!Next, Family!Withdraw
<1> QED
  BY <1>4, <1>5

\* Locals with which a request at a label has an exchange under way.
Exchanges(label, q) ==
    /\ q.op = "refresh"
    /\ label \in {"readUserInTx", "issueInTx", "markTokenUsed", "createToken",
                  "markSessionUsed", "commit"}

\* Any other move of a request is a stutter of the family.
LEMMA MoveStutters ==
    ASSUME IInv, NEW r \in Requests, NEW label, NEW q, Move(r, label, q),
           q.token = req[r].token \/ ~Exchanging(r), Exchanges(label, q) <=> Exchanging(r)
    PROVE  abstract' = abstract
<1>1. /\ UNCHANGED <<sessions, tokens>>
      /\ pc' = [pc EXCEPT ![r] = label] /\ req' = [req EXCEPT ![r] = q]
  BY DEF Move, Goto, tables
<1>2. pc'[r] = label /\ req'[r] = q
  BY <1>1 DEF IInv, TypeOK
<1>3. Exchanging(r)' <=> Exchanging(r)
  BY <1>2 DEF Exchanging, Exchanges
<1> QED
  BY <1>1, <1>3, NoPledgeChanges

\* A request that begins has nothing pledged to it.
LEMMA StartStutters ==
    ASSUME IInv, NEW r \in Requests, Start(r)
    PROVE  abstract' = abstract
<1>1. pc[r] = "idle" /\ ~Exchanging(r)
  BY DEF Start, StartLogin, StartRefresh, StartLogout, Exchanging
<1>2. PICK label \in {"readUser", "begin"} : \E q : Move(r, label, q)
  BY DEF Start, StartLogin, StartRefresh, StartLogout
<1>3. PICK q : Move(r, label, q)
  BY <1>2
<1>4. ~Exchanges(label, q)
  BY DEF Exchanges
<1> QED
  BY <1>1, <1>3, <1>4, MoveStutters

\* A login, a logout, and a refresh before its session was read pledge nothing.
LEMMA OtherStepsStutter ==
    ASSUME IInv, NEW r \in Requests,
           \/ LoginReadUser(r) \/ LoginIssue(r) \/ CreateAuthSession(r) \/ Begin(r)
           \/ RefreshLookup(r) \/ LogoutLookup(r) \/ LogoutReadSession(r)
           \/ RevokeRefreshToken(r) \/ RevokeAuthSession(r)
    PROVE  abstract' = abstract \/ Family!Next
<1>1. ~Exchanging(r)
  BY OperationAt DEF Exchanging, LoginReadUser, LoginIssue, CreateAuthSession, Begin,
     RefreshLookup, LogoutLookup, LogoutReadSession, RevokeRefreshToken, RevokeAuthSession
<1>2. ASSUME NEW label, NEW q, Move(r, label, q), ~Exchanges(label, q)
      PROVE  abstract' = abstract
  BY <1>1, <1>2, MoveStutters
<1>3. CASE LoginReadUser(r) \/ LoginIssue(r) \/ CreateAuthSession(r)
  <2>1. ASSUME NEW label \in {"issue", "begin"}, NEW q, Move(r, label, q)
        PROVE  abstract' = abstract
    BY <1>2, <2>1 DEF Exchanges
  <2>2. CASE LoginReadUser(r)
    BY <2>1, <2>2, RejectWithdraws DEF LoginReadUser, Continue
  <2>3. CASE LoginIssue(r)
    BY <2>1, <2>3, RejectWithdraws DEF LoginIssue, Continue
  <2>4. CASE CreateAuthSession(r)
    <3>1. req[r].op = "login" /\ req[r] \in Request
      BY <2>4, OperationAt, AtLabel DEF CreateAuthSession
    <3>2. ~Exchanges("createToken", Wrote(req[r], "createSession"))
      BY <3>1, WroteIsRequest DEF Exchanges, Statements
    <3> QED
      BY <1>2, <2>4, <3>2, RejectWithdraws DEF CreateAuthSession, Continue
  <2> QED
    BY <1>3, <2>2, <2>3, <2>4
<1>4. CASE Begin(r) \/ RefreshLookup(r)
  <2>1. ASSUME NEW label \in {"createSession", "lookup", "readSession"}, NEW q,
               Move(r, label, q)
        PROVE  abstract' = abstract
    BY <1>2, <2>1 DEF Exchanges
  <2>2. CASE Begin(r)
    BY <2>1, <2>2 DEF Begin, Continue
  <2>3. CASE RefreshLookup(r)
    BY <2>1, <2>3, RejectWithdraws DEF RefreshLookup, Locking
  <2> QED
    BY <1>4, <2>2, <2>3
<1>5. CASE \/ LogoutLookup(r) \/ LogoutReadSession(r)
           \/ RevokeRefreshToken(r) \/ RevokeAuthSession(r)
  <2>1. req[r].op = "logout" /\ req[r] \in Request
    BY <1>5, OperationAt, AtLabel
       DEF LogoutLookup, LogoutReadSession, RevokeRefreshToken, RevokeAuthSession
  <2>2. ASSUME NEW label, NEW q, q.op = "logout", Move(r, label, q)
        PROVE  abstract' = abstract
    BY <1>2, <2>2 DEF Exchanges
  <2>3. /\ Wrote(req[r], "revokeToken").op = "logout"
        /\ Wrote(req[r], "revokeSession").op = "logout"
    BY <2>1, WroteIsRequest DEF Statements
  <2>4. CASE LogoutLookup(r)
    BY <2>1, <2>2, <2>4 DEF LogoutLookup, Continue, Locking
  <2>5. CASE LogoutReadSession(r)
    <3>1. SessionRead(r).op = "logout" /\ Move(r, "revokeToken", SessionRead(r))
      BY <2>1, <2>5, SessionReadIsRequest DEF LogoutReadSession, Continue
    <3> QED
      BY <2>2, <3>1
  <2>6. CASE RevokeRefreshToken(r)
    BY <2>1, <2>2, <2>3, <2>6, RejectWithdraws DEF RevokeRefreshToken, Continue
  <2>7. CASE RevokeAuthSession(r)
    BY <2>1, <2>2, <2>3, <2>7, RejectWithdraws DEF RevokeAuthSession, Continue, Locking
  <2> QED
    BY <1>5, <2>4, <2>5, <2>6, <2>7
<1> QED
  BY <1>3, <1>4, <1>5

\* The read of the session admits, or the refresh fails.
LEMMA SessionReadMaps ==
    ASSUME IInv, NEW r \in Requests, RefreshReadSession(r)
    PROVE  abstract' = abstract \/ Family!Next
<1>1. CASE ValidAuthSessionState(sessions[SessionRead(r).session], req[r].at)
  BY <1>1, ReadAdmits DEF RefreshReadSession, Continue
<1>2. CASE ~ValidAuthSessionState(sessions[SessionRead(r).session], req[r].at)
  BY <1>2, RejectWithdraws DEF RefreshReadSession
<1> QED
  BY <1>1, <1>2

\* From there to its commit a refresh keeps the exchange, or gives it up.
LEMMA ExchangeGoesOn ==
    ASSUME IInv, NEW r \in Requests,
           \/ RefreshReadUser(r) \/ RefreshIssue(r) \/ MarkRefreshTokenUsed(r)
           \/ CreateRefreshToken(r) \/ MarkAuthSessionUsed(r)
    PROVE  abstract' = abstract \/ Family!Next
<1>1. req[r] \in Request
  BY AtLabel
<1>2. /\ pc[r] \in {"readUserInTx", "issueInTx", "markTokenUsed", "createToken",
                    "markSessionUsed"}
      /\ pc[r] # "createToken" => req[r].op = "refresh"
      /\ Exchanging(r) <=> req[r].op = "refresh"
  BY OperationAt DEF Exchanging, RefreshReadUser, RefreshIssue, MarkRefreshTokenUsed,
     CreateRefreshToken, MarkAuthSessionUsed
<1>3. ASSUME NEW label \in {"issueInTx", "markTokenUsed", "createToken",
                            "markSessionUsed", "commit"},
             NEW q, Move(r, label, q), q.op = req[r].op, q.token = req[r].token
      PROVE  abstract' = abstract
  BY <1>2, <1>3, MoveStutters DEF Exchanges
<1>4. ASSUME NEW statement \in Statements
      PROVE  /\ Wrote(req[r], statement).op = req[r].op
             /\ Wrote(req[r], statement).token = req[r].token
  BY <1>1, WroteIsRequest
<1>5. CASE RefreshReadUser(r)
  <2>1. ASSUME NEW u PROVE /\ [req[r] EXCEPT !.user = u].op = req[r].op
                           /\ [req[r] EXCEPT !.user = u].token = req[r].token
    BY <1>1 DEF Request
  <2> QED
    BY <1>3, <1>5, <2>1, RejectWithdraws DEF RefreshReadUser, Continue
<1>6. CASE RefreshIssue(r)
  <2>1. ASSUME NEW t, NEW pair
        PROVE  LET q == [req[r] EXCEPT !.newToken = t, !.pair = pair]
               IN  q.op = req[r].op /\ q.token = req[r].token
    BY <1>1 DEF Request
  <2> QED
    BY <1>3, <1>6, <2>1, RejectWithdraws DEF RefreshIssue, Continue
<1>7. CASE MarkRefreshTokenUsed(r)
  BY <1>3, <1>4, <1>7, RejectWithdraws DEF MarkRefreshTokenUsed, Continue, Statements
<1>8. CASE CreateRefreshToken(r)
  BY <1>3, <1>4, <1>8, RejectWithdraws DEF CreateRefreshToken, Continue, Statements
<1>9. CASE MarkAuthSessionUsed(r)
  BY <1>3, <1>4, <1>9, RejectWithdraws DEF MarkAuthSessionUsed, Locking, Statements
<1> QED
  BY <1>5, <1>6, <1>7, <1>8, <1>9

-----------------------------------------------------------------------------
(* A commit.                                                               *)

\* What a commit leaves alone: every row but those of its request.
LEMMA CommitElsewhere ==
    ASSUME IInv, NEW r \in Requests, Commit(r)
    PROVE  /\ \A u \in TokenIDs \ {req[r].token, req[r].newToken} :
                  AbstractStatus'[u] = AbstractStatus[u]
           /\ \A u \in TokenIDs \ {req[r].newToken} : AbstractFamily'[u] = AbstractFamily[u]
           /\ \A s \in SessionIDs :
                  \/ AbstractSession'[s] = AbstractSession[s]
                  \/ s = req[r].session /\ req[r].op = "login"
                  \/ s = req[r].session /\ "revokeSession" \in req[r].writes
           /\ ~Exchanging(r)'
           /\ \A p \in Requests \ {r} : /\ Exchanging(p)' <=> Exchanging(p)
                                       /\ req'[p] = req[p]
<1> USE AuthAssumption, TokenAssumption
<1>1. /\ pc[r] = "commit"
      /\ pc' = [pc EXCEPT ![r] = "idle"] /\ req' = [req EXCEPT ![r] = NoRequest]
  BY DEF Commit, Finish, Goto
<1>2. pc'[r] = "idle" /\ \A p \in Requests \ {r} : pc'[p] = pc[p] /\ req'[p] = req[p]
  BY <1>1 DEF IInv, TypeOK
<1>3. ~Exchanging(r)' /\ \A p \in Requests \ {r} : Exchanging(p)' <=> Exchanging(p)
  BY <1>2 DEF Exchanging
<1>4. \A u \in TokenIDs \ {req[r].token} : Pledged(u)' <=> Pledged(u)
  BY <1>2, <1>3 DEF Pledged
<1>5. \A u \in TokenIDs \ {req[r].token, req[r].newToken} : tokens'[u] = tokens[u]
  <2>1. \A u \in TokenIDs : Stored(u) => (u # req[r].token => tokens'[u] = tokens[u])
    BY CommitEffect
  <2>2. \A u \in TokenIDs : (~Stored(u) /\ u # req[r].newToken) => tokens'[u] = Null
    BY CommitEffect
  <2> QED
    BY <2>1, <2>2 DEF Stored
<1>6. \A u \in TokenIDs \ {req[r].token, req[r].newToken} :
          AbstractStatus'[u] = AbstractStatus[u]
  BY <1>4, <1>5 DEF AbstractStatus, Pledged
<1>7. \A u \in TokenIDs \ {req[r].newToken} : AbstractFamily'[u] = AbstractFamily[u]
  <2>1. \A u \in TokenIDs : Stored(u) =>
            tokens'[u] # Null /\ tokens'[u].session = tokens[u].session
    BY CommitEffect
  <2>2. \A u \in TokenIDs : (~Stored(u) /\ u # req[r].newToken) => tokens'[u] = Null
    BY CommitEffect
  <2> QED
    BY <2>1, <2>2 DEF AbstractFamily, Stored
<1>8. ASSUME NEW s \in SessionIDs
      PROVE  \/ AbstractSession'[s] = AbstractSession[s]
             \/ s = req[r].session /\ req[r].op = "login"
             \/ s = req[r].session /\ "revokeSession" \in req[r].writes
  <2>1. CASE sessions[s] = Null
    <3>1. (req[r].op = "login" /\ s = req[r].session) \/ sessions'[s] = Null
      BY <2>1, CommitEffect
    <3> QED
      BY <2>1, <3>1 DEF AbstractSession
  <2>2. CASE sessions[s] # Null
    <3>1. sessions[s] \in SessionRow /\ sessions'[s] # Null
      BY <2>2, CommitEffect DEF IInv, TypeOK
    <3>2. sessions'[s] = IF s = req[r].session THEN SessionAfter(req[r], sessions[s])
                         ELSE sessions[s]
      BY <2>2, CommitRows
    <3>3. "revokeSession" \notin req[r].writes => sessions'[s].revoked = sessions[s].revoked
      BY <3>1, <3>2 DEF SessionAfter, SessionRow
    <3> QED
      BY <2>2, <3>1, <3>2, <3>3 DEF AbstractSession
  <2> QED
    BY <2>1, <2>2
<1> QED
  BY <1>2, <1>3, <1>6, <1>7, <1>8

\* The token a commit adds is live, and belongs to its session.
LEMMA CommitAddsLive ==
    ASSUME SafetyInv, NEW r \in Requests, Commit(r), req[r].newToken # Null
    PROVE  LET t == req[r].newToken
           IN  /\ AbstractStatus[t] = "none" /\ AbstractStatus'[t] = "live"
               /\ AbstractFamily'[t] = req[r].session
<1> USE AuthAssumption, TokenAssumption
<1>1. IInv
  BY DEF SafetyInv
<1>2. PICK t \in TokenIDs : t = req[r].newToken
  BY CommitAdds
<1>3. ~Stored(t) /\ tokens'[t] # Null /\ tokens'[t].session = req[r].session
  BY <1>2, CommitAdds
<1>4. tokens'[t].revoked = Null /\ tokens'[t].lastUsed = Null
  <2>1. tokens'[t] = NewToken(req[r])
    BY <1>1, <1>2, CommitEffect
  <2> QED
    BY <2>1 DEF NewToken
<1>5. ~Pledged(t)'
  BY <1>1, <1>3, CommitElsewhere, PledgeHolds DEF Pledged, Spendable
<1>6. AbstractStatus[t] = "none" /\ AbstractFamily'[t] = req[r].session
  BY <1>1, <1>3, StatusAt DEF AbstractFamily
<1>7. AbstractStatus'[t] = "live"
  BY <1>3, <1>4, <1>5 DEF AbstractStatus, Pledged
<1> QED
  BY <1>2, <1>6, <1>7

\* Each abstract variable is the function that its values at the ids are.
LEMMA Changes ==
    /\ AbstractSession' = [s \in SessionIDs |-> AbstractSession'[s]]
    /\ AbstractSession = [s \in SessionIDs |-> AbstractSession[s]]
    /\ AbstractFamily' = [t \in TokenIDs |-> AbstractFamily'[t]]
    /\ AbstractFamily = [t \in TokenIDs |-> AbstractFamily[t]]
    /\ AbstractStatus' = [t \in TokenIDs |-> AbstractStatus'[t]]
    /\ AbstractStatus = [t \in TokenIDs |-> AbstractStatus[t]]
<1>1. /\ AbstractSession' = [s \in SessionIDs |-> AbstractSession'[s]]
      /\ AbstractSession = [s \in SessionIDs |-> AbstractSession[s]]
  BY DEF AbstractSession
<1>2. /\ AbstractFamily' = [t \in TokenIDs |-> AbstractFamily'[t]]
      /\ AbstractFamily = [t \in TokenIDs |-> AbstractFamily[t]]
  BY DEF AbstractFamily
<1>3. /\ AbstractStatus' = [t \in TokenIDs |-> AbstractStatus'[t]]
      /\ AbstractStatus = [t \in TokenIDs |-> AbstractStatus[t]]
  BY DEF AbstractStatus
<1> QED
  BY <1>1, <1>2, <1>3

\* A login opens a session with its first token.
LEMMA LoginOpens ==
    ASSUME SafetyInv, NEW r \in Requests, Commit(r), req[r].op = "login"
    PROVE  Family!Next
<1> USE AuthAssumption, TokenAssumption
<1>1. IInv /\ pc[r] = "commit"
  BY DEF SafetyInv, Commit
<1>2. PICK s \in SessionIDs, t \in TokenIDs : s = req[r].session /\ t = req[r].newToken
  BY <1>1, AtCommit
<1>3. /\ sessions[s] = Null /\ req[r].token = Null /\ t # Null
      /\ req[r].writes = {"createSession", "createToken"}
  BY <1>1, <1>2, AtCommit DEF Rows
<1>4. AbstractSession[s] = "none"
  BY <1>3 DEF AbstractSession
<1>5. AbstractSession'[s] = "open"
  <2>1. sessions'[s] = NewSession(req[r])
    BY <1>2, <1>3 DEF Commit, SessionsAfter
  <2>2. sessions'[s] # Null
    BY <1>1, <1>2, <1>3, CommitEffect
  <2>3. sessions'[s].revoked = Null
    BY <2>1 DEF NewSession
  <2> QED
    BY <2>2, <2>3 DEF AbstractSession
<1>6. /\ AbstractStatus[t] = "none" /\ AbstractStatus'[t] = "live"
      /\ AbstractFamily'[t] = s
  BY <1>2, <1>3, CommitAddsLive
<1>7. /\ \A u \in TokenIDs \ {t} : AbstractStatus'[u] = AbstractStatus[u]
      /\ \A u \in TokenIDs \ {t} : AbstractFamily'[u] = AbstractFamily[u]
      /\ \A x \in SessionIDs \ {s} : AbstractSession'[x] = AbstractSession[x]
  BY <1>1, <1>2, <1>3, CommitElsewhere DEF Rows
<1>8. AbstractSession' = [AbstractSession EXCEPT ![s] = "open"]
  BY <1>5, <1>7, Changes
<1>9. AbstractFamily' = [AbstractFamily EXCEPT ![t] = s]
  BY <1>6, <1>7, Changes
<1>10. AbstractStatus' = [AbstractStatus EXCEPT ![t] = "live"]
  BY <1>6, <1>7, StatusUpdate
<1> QED
  BY <1>4, <1>6, <1>8, <1>9, <1>10 DEF Family!Next, Family!Open

\* A refresh spends the token pledged to it, and its one successor is live.
LEMMA RefreshRotates ==
    ASSUME SafetyInv, NEW r \in Requests, Commit(r), req[r].op = "refresh"
    PROVE  Family!Next
<1> USE AuthAssumption, TokenAssumption
<1>1. IInv /\ pc[r] = "commit" /\ Exchanging(r)
  BY DEF SafetyInv, Commit, Exchanging
<1>2. PICK t, n \in TokenIDs : t = req[r].token /\ n = req[r].newToken
  BY <1>1, AtCommit
<1>3. /\ Spendable(t) /\ Stored(t) /\ ~Stored(n) /\ t # n /\ n # Null
      /\ req[r].session = tokens[t].session
      /\ req[r].writes = {"markTokenUsed", "createToken", "markSessionUsed"}
  BY <1>1, <1>2, AtCommit DEF Rows, Spendable, Stored
<1>4. AbstractStatus[t] = "pledged"
  BY <1>1, <1>2, <1>3, StatusAt DEF Pledged
<1>5. AbstractStatus'[t] = "spent"
  <2>1. tokens'[t] # Null /\ tokens'[t].lastUsed # Null
    BY <1>1, <1>2, <1>3, CommitEffect
  <2>2. tokens[t] \in TokenRow
    BY <1>1, <1>3, RowsThere
  <2>3. tokens'[t] = TokenAfter(req[r], tokens[t])
    BY <1>1, <1>2, <1>3, CommitRows
  <2>4. tokens'[t].revoked = Null
    BY <1>3, <2>2, <2>3 DEF TokenAfter, TokenRow, Spendable
  <2> QED
    BY <2>1, <2>4 DEF AbstractStatus
<1>6. /\ AbstractStatus[n] = "none" /\ AbstractStatus'[n] = "live"
      /\ AbstractFamily'[n] = AbstractFamily[t]
  <2>1. AbstractFamily[t] = req[r].session
    BY <1>3 DEF AbstractFamily, Stored
  <2> QED
    BY <1>2, <1>3, <2>1, CommitAddsLive
<1>7. /\ \A u \in TokenIDs \ {t, n} : AbstractStatus'[u] = AbstractStatus[u]
      /\ \A u \in TokenIDs \ {n} : AbstractFamily'[u] = AbstractFamily[u]
      /\ \A s \in SessionIDs : AbstractSession'[s] = AbstractSession[s]
  BY <1>1, <1>2, <1>3, CommitElsewhere
<1>8. AbstractStatus' = [AbstractStatus EXCEPT ![t] = "spent", ![n] = "live"]
  <2>1. PICK f, g : f = AbstractStatus /\ g = AbstractStatus'
    OBVIOUS
  <2>2. f = [u \in TokenIDs |-> f[u]] /\ g = [u \in TokenIDs |-> g[u]]
    BY <2>1, Changes
  <2>3. /\ g[t] = "spent" /\ g[n] = "live"
        /\ \A u \in TokenIDs \ {t, n} : g[u] = f[u]
    BY <1>5, <1>6, <1>7, <2>1
  <2>4. g = [f EXCEPT ![t] = "spent", ![n] = "live"]
    BY <1>3, <2>2, <2>3
  <2> QED
    BY <2>1, <2>4
<1>9. AbstractFamily' = [AbstractFamily EXCEPT ![n] = AbstractFamily[t]]
  BY <1>6, <1>7, Changes
<1>10. AbstractSession' = AbstractSession
  BY <1>7, Changes
<1> QED
  BY <1>4, <1>6, <1>8, <1>9, <1>10 DEF Family!Next, Family!Rotate

\* A logout closes the session of its token, or had no token.
LEMMA LogoutCloseMaps ==
    ASSUME SafetyInv, NEW r \in Requests, Commit(r), req[r].op = "logout"
    PROVE  abstract' = abstract \/ Family!Next
<1> USE AuthAssumption, TokenAssumption
<1>1. IInv /\ pc[r] = "commit" /\ pc[r] \in AfterLookup /\ req[r].newToken = Null
  BY AtCommit DEF SafetyInv, Commit, AfterLookup
<1>2. Null \notin TokenIDs
  BY DEF Rows
<1>3. CASE req[r].token = Null
  <2>1. req[r].writes = {}
    BY <1>1, <1>3, AtLabel DEF LocalsOK
  <2>2. /\ \A u \in TokenIDs : AbstractStatus'[u] = AbstractStatus[u]
        /\ \A u \in TokenIDs : AbstractFamily'[u] = AbstractFamily[u]
        /\ \A s \in SessionIDs : AbstractSession'[s] = AbstractSession[s]
    BY <1>1, <1>2, <1>3, <2>1, CommitElsewhere
  <2> QED
    BY <2>2, Changes DEF abstract
<1>4. CASE req[r].token # Null
  <2>1. PICK t \in TokenIDs : t = req[r].token
    BY <1>1, <1>4, AtLabel DEF Request
  <2>2. PICK s \in SessionIDs : s = tokens[t].session
    BY <1>4, <2>1, KnownAt
  <2>3. Stored(t) /\ req[r].session = s
    BY <1>1, <1>4, <2>1, <2>2, AtLabel DEF RowsOK, AfterLookup
  <2>4. ~Pledged(t)
    <3>1. ~Exchanging(r)
      BY DEF Exchanging
    <3> QED
      BY <1>1, <1>4, <2>1, <3>1, PledgedOnce DEF Pledged
  <2>5. AbstractStatus[t] \in {"live", "spent", "revoked"}
    BY <2>3, <2>4 DEF AbstractStatus, Pledged, Stored
  <2>6. tokens'[t].revoked # Null /\ sessions'[s].revoked # Null
        /\ tokens'[t] # Null /\ sessions'[s] # Null
    <3>1. /\ reply'.op = "logout" /\ reply'.token = t /\ reply'.answer \in {"ok", "lost"}
      BY <2>1 DEF Commit, Finish
    <3>2. LogoutCloses'
      BY CommitAnswers
    <3>3. tokens'[t] # Null /\ tokens'[t].session = s
      BY <1>1, <2>2, <2>3, CommitEffect
    <3>4. sessions[s] # Null
      BY <1>1, <2>2, <2>3 DEF IInv, TablesOK, References
    <3>5. sessions'[s] # Null
      BY <1>1, <3>4, CommitEffect
    <3> QED
      BY <1>4, <2>1, <3>1, <3>2, <3>3, <3>5 DEF LogoutCloses
  <2>7. AbstractStatus'[t] = "revoked" /\ AbstractSession'[s] = "closed"
    BY <2>6 DEF AbstractStatus, AbstractSession
  <2>8. /\ \A u \in TokenIDs \ {t} : AbstractStatus'[u] = AbstractStatus[u]
        /\ \A u \in TokenIDs : AbstractFamily'[u] = AbstractFamily[u]
        /\ \A x \in SessionIDs \ {s} : AbstractSession'[x] = AbstractSession[x]
    BY <1>1, <1>2, <2>1, <2>3, CommitElsewhere
  <2>9. AbstractFamily[t] = s
    BY <2>2, <2>3 DEF AbstractFamily, Stored
  <2>10. AbstractStatus' = [AbstractStatus EXCEPT ![t] = "revoked"]
    BY <2>7, <2>8, StatusUpdate
  <2>11. AbstractSession' = [AbstractSession EXCEPT ![s] = "closed"]
    BY <2>7, <2>8, Changes
  <2>12. AbstractFamily' = AbstractFamily
    BY <2>8, Changes
  <2> QED
    BY <2>5, <2>9, <2>10, <2>11, <2>12 DEF Family!Next, Family!Close
<1> QED
  BY <1>3, <1>4

-----------------------------------------------------------------------------
(* The theorems.                                                           *)

LEMMA InitMaps == Init => Family!Init
<1> SUFFICES ASSUME Init PROVE Family!Init
  OBVIOUS
<1>1. /\ sessions = [s \in SessionIDs |-> Null]
      /\ tokens = [t \in TokenIDs |-> Null]
  BY DEF Init
<1> QED
  BY <1>1 DEF Family!Init, AbstractSession, AbstractFamily, AbstractStatus

LEMMA NextMaps == SafetyInv /\ [Next]_vars => abstract' = abstract \/ Family!Next
<1> SUFFICES ASSUME SafetyInv, [Next]_vars PROVE abstract' = abstract \/ Family!Next
  OBVIOUS
<1>1. IInv
  BY DEF SafetyInv
<1>2. ASSUME NEW r \in Requests, Step(r) PROVE abstract' = abstract \/ Family!Next
  <2>1. CASE Commit(r)
    <3>1. req[r].op \in {"login", "refresh", "logout"}
      BY <1>1, <2>1, AtCommit DEF Commit
    <3> QED
      BY <2>1, <3>1, LoginOpens, RefreshRotates, LogoutCloseMaps
  <2> QED
    BY <1>1, <1>2, <2>1, OtherStepsStutter, SessionReadMaps, ExchangeGoesOn DEF Step
<1>3. ASSUME NEW r \in Requests, Abort(r) PROVE abstract' = abstract \/ Family!Next
  BY <1>1, <1>3, RejectWithdraws DEF Abort
<1>4. ASSUME UNCHANGED <<sessions, tokens, pc, req>> PROVE abstract' = abstract
  <2>1. \A t \in TokenIDs : Pledged(t)' <=> Pledged(t)
    BY <1>4 DEF Pledged, Exchanging
  <2> QED
    BY <1>4, <2>1, SameTables
<1>5. CASE Tick \/ (\E u \in MayDisable : DisableUser(u)) \/ UNCHANGED vars
  BY <1>4, <1>5 DEF Tick, DisableUser, vars
<1> QED
  BY <1>1, <1>2, <1>3, <1>5, StartStutters DEF Next

\* Under the refinement mapping, login, refresh and logout implement the token family:
\* what concurrent statements, locks, failures and commits do to the tables is one step
\* of the family at a time, or nothing (service.go:60-245).
THEOREM ImplementsFamily == Spec => ImplementsSessionFamily
  BY InitMaps, NextMaps, SafetyInvariance, PTL DEF Spec, ImplementsSessionFamily

\* The same, as an implication between the two specifications.
THEOREM ImplementsFamilySpec == Spec => Family!Spec
<1>1. abstract' = abstract \/ Family!Next => [Family!Next]_(Family!vars)
  BY DEF abstract, Family!vars
<1> QED
  BY <1>1, InitMaps, NextMaps, SafetyInvariance, PTL DEF Spec, Family!Spec
================================================================================
