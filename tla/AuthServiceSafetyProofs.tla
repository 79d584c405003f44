------------------------ MODULE AuthServiceSafetyProofs ------------------------
(***************************************************************************)
(* More proofs about AuthService: what is answered.  A request reads the   *)
(* rows it depends on one after the other, so each of these theorems rests *)
(* on what a request has learnt so far (Knows) and on the columns of a row *)
(* that nobody takes back while it goes on (Persists).                     *)
(***************************************************************************)
EXTENDS AuthServiceProofs

-----------------------------------------------------------------------------
(* What no step takes back.                                                *)

\* A stored row keeps its keys and its times, what is revoked or spent stays
\* so, a disabled user stays disabled and the clock does not run backwards.
Persists ==
    /\ \A t \in TokenIDs : Stored(t) =>
          /\ tokens'[t] # Null
          /\ tokens'[t].session = tokens[t].session
          /\ tokens'[t].rotatedFrom = tokens[t].rotatedFrom
          /\ tokens'[t].created = tokens[t].created
          /\ tokens'[t].expires = tokens[t].expires
          /\ tokens[t].revoked # Null => tokens'[t].revoked # Null
          /\ tokens[t].lastUsed # Null => tokens'[t].lastUsed # Null
    /\ \A s \in SessionIDs : sessions[s] # Null =>
          /\ sessions'[s] # Null
          /\ sessions'[s].user = sessions[s].user
          /\ sessions'[s].created = sessions[s].created
          /\ sessions'[s].expires = sessions[s].expires
          /\ sessions[s].revoked # Null => sessions'[s].revoked # Null
    /\ \A u \in Users : ~IsActive(u) => ~IsActive(u)'
    /\ now <= now'

\* A commit sets columns of two rows and adds rows under new keys.
LEMMA CommitRows ==
    ASSUME IInv, NEW r \in Requests, Commit(r)
    PROVE  /\ \A t \in TokenIDs : Stored(t) =>
                  tokens'[t] = IF t = req[r].token THEN TokenAfter(req[r], tokens[t])
                               ELSE tokens[t]
           /\ \A s \in SessionIDs : sessions[s] # Null =>
                  sessions'[s] = IF s = req[r].session THEN SessionAfter(req[r], sessions[s])
                                 ELSE sessions[s]
           /\ req[r].op = "login" =>
                  /\ sessions'[req[r].session].created = req[r].txAt
                  /\ sessions'[req[r].session].expires = req[r].pair.refreshExpiresAt
           /\ UNCHANGED <<now, userStatus>>
<1> USE AuthAssumption, TokenAssumption
<1>1. pc[r] = "commit" /\ sessions' = SessionsAfter(req[r]) /\ tokens' = TokensAfter(req[r])
      /\ UNCHANGED <<now, userStatus>>
  BY DEF Commit
<1>2. "createToken" \in req[r].writes => tokens[req[r].newToken] = Null
  BY <1>1, AtCommit DEF Rows
<1>3. \A t \in TokenIDs : Stored(t) =>
          tokens'[t] = IF t = req[r].token THEN TokenAfter(req[r], tokens[t]) ELSE tokens[t]
  BY <1>1, <1>2 DEF TokensAfter, Stored
<1>4. /\ req[r].op = "login" => /\ "createSession" \in req[r].writes
                                /\ req[r].session \in SessionIDs
      /\ "createSession" \in req[r].writes => sessions[req[r].session] = Null
  BY <1>1, AtCommit
<1>5. \A s \in SessionIDs : sessions[s] # Null =>
          sessions'[s] = IF s = req[r].session THEN SessionAfter(req[r], sessions[s])
                         ELSE sessions[s]
  BY <1>1, <1>4 DEF SessionsAfter
<1>6. req[r].op = "login" => sessions'[req[r].session] = NewSession(req[r])
  BY <1>1, <1>4 DEF SessionsAfter
<1>7. req[r].op = "login" => /\ sessions'[req[r].session].created = req[r].txAt
                             /\ sessions'[req[r].session].expires = req[r].pair.refreshExpiresAt
  BY <1>6 DEF NewSession
<1> QED
  BY <1>1, <1>3, <1>5, <1>7

LEMMA CommitPersists ==
    ASSUME IInv, NEW r \in Requests, Commit(r)
    PROVE  Persists
<1> USE AuthAssumption, TokenAssumption
<1>1. req[r].at \in Int /\ req[r].at # Null
  BY AtLabel DEF Request
<1>2. ASSUME NEW t \in TokenIDs, Stored(t)
      PROVE  /\ tokens'[t] # Null
             /\ tokens'[t].session = tokens[t].session
             /\ tokens'[t].rotatedFrom = tokens[t].rotatedFrom
             /\ tokens'[t].created = tokens[t].created
             /\ tokens'[t].expires = tokens[t].expires
             /\ tokens[t].revoked # Null => tokens'[t].revoked # Null
             /\ tokens[t].lastUsed # Null => tokens'[t].lastUsed # Null
  <2>1. tokens'[t] \in {tokens[t], TokenAfter(req[r], tokens[t])} /\ tokens'[t] # Null
    BY <1>2, CommitRows, CommitEffect
  <2>2. tokens[t] \in TokenRow
    BY <1>2, RowsThere
  <2> QED
    BY <1>1, <2>1, <2>2 DEF TokenAfter, TokenRow
<1>3. ASSUME NEW s \in SessionIDs, sessions[s] # Null
      PROVE  /\ sessions'[s] # Null
             /\ sessions'[s].user = sessions[s].user
             /\ sessions'[s].created = sessions[s].created
             /\ sessions'[s].expires = sessions[s].expires
             /\ sessions[s].revoked # Null => sessions'[s].revoked # Null
  <2>1. sessions'[s] \in {sessions[s], SessionAfter(req[r], sessions[s])} /\ sessions'[s] # Null
    BY <1>3, CommitRows, CommitEffect
  <2>2. sessions[s] \in SessionRow
    BY <1>3 DEF IInv, TypeOK
  <2> QED
    BY <1>1, <2>1, <2>2 DEF SessionAfter, SessionRow
<1>4. (\A u \in Users : ~IsActive(u) => ~IsActive(u)') /\ now <= now'
  BY CommitRows DEF IsActive, IInv, TypeOK
<1> QED
  BY <1>2, <1>3, <1>4 DEF Persists

\* What a request has learnt stays true while it stands still.
LEMMA KnowledgeStays ==
    ASSUME IInv, Persists, NEW label, NEW q \in Request, LocalsOK(label, q), RowsOK(label, q),
           TypeOK', Knows(label, q)
    PROVE  Knows(label, q)'
<1> USE AuthAssumption, TokenAssumption
<1>1. q.token # Null =>
          /\ q.token \in TokenIDs /\ Stored(q.token)
          /\ tokens[q.token] \in TokenRow
          /\ tokens[q.token].session \in SessionIDs
          /\ SessionOf(q) \in SessionRow /\ SessionOf(q) # Null
  BY RowsThere DEF RowsOK, Request, SessionOf
<1>2. q.token # Null =>
          /\ tokens'[q.token].created = tokens[q.token].created
          /\ tokens'[q.token].expires = tokens[q.token].expires
          /\ tokens[q.token].revoked # Null => tokens'[q.token].revoked # Null
          /\ tokens[q.token].lastUsed # Null => tokens'[q.token].lastUsed # Null
          /\ SessionOf(q)'.user = SessionOf(q).user
          /\ SessionOf(q)'.created = SessionOf(q).created
          /\ SessionOf(q)'.expires = SessionOf(q).expires
          /\ SessionOf(q).revoked # Null => SessionOf(q)'.revoked # Null
  BY <1>1 DEF Persists, SessionOf
<1>3. \A u \in Users : ~IsActive(u) => ~IsActive(u)'
  BY DEF Persists
<1>4. LateOK(label, q)'
  <2> SUFFICES ASSUME q.late PROVE RefusalAhead(label, q)'
    BY DEF LateOK
  <2>1. RefusalAhead(label, q)
    BY DEF Knows, LateOK
  <2>2. q.op = "login" => q.user \in Users
    BY DEF LocalsOK, Request
  <2>3. q.token # Null => SessionOf(q).user \in Users
    BY <1>1 DEF SessionRow
  <2> QED
    BY <1>2, <1>3, <2>1, <2>2, <2>3 DEF RefusalAhead, ValidRefreshTokenState,
       ValidAuthSessionState, IsActive
<1>5. LogoutOK(label, q)'
  BY <1>2 DEF Knows, LogoutOK
<1>6. PairOK(label, q)'
  <2>1. (q.op = "refresh" /\ label \in {"markTokenUsed", "createToken",
                                        "markSessionUsed", "commit"}) => q.token # Null
    BY DEF LocalsOK, AfterLookup
  <2> QED
    BY <1>2, <2>1 DEF Knows, PairOK
<1>7. ClockOK(label, q)'
  <2>1. now \in Int /\ now' \in Int /\ now <= now' /\ q.txAt \in Int
    BY DEF Persists, IInv, TypeOK, Request
  <2> QED
    BY <1>2, <2>1 DEF Knows, ClockOK
<1> QED
  BY <1>4, <1>5, <1>6, <1>7 DEF Knows

-----------------------------------------------------------------------------
(* Steps that leave the tables alone.                                      *)

\* The tables and the promises about them depend on nothing else.
LEMMA TablesKeepSafety ==
    ASSUME SafetyInv, UNCHANGED <<sessions, tokens, wallet>>, now' >= now, now' \in Int
    PROVE  RowsInTime' /\ LoginIntact'
<1>1. \A t \in TokenIDs : Stored(t)' = Stored(t)
  BY DEF Stored
<1>2. \A t \in TokenIDs : Stored(t) => tokens[t].created \in Int
  BY DEF SafetyInv, IInv, TypeOK, Stored, TokenRow
<1>3. \A s \in SessionIDs : sessions[s] # Null => sessions[s].created \in Int
  BY DEF SafetyInv, IInv, TypeOK, SessionRow
<1>4. now \in Int
  BY DEF SafetyInv, IInv, TypeOK
<1>5. RowsInTime'
  BY <1>1, <1>2, <1>3, <1>4 DEF SafetyInv, RowsInTime, Stored
<1>6. LoginIntact'
  BY <1>1 DEF SafetyInv, LoginIntact, Stored
<1> QED
  BY <1>5, <1>6

\* A request goes on with locals that know what they must.
LEMMA MoveKeepsSafety ==
    ASSUME SafetyInv, IInv', NEW r \in Requests, NEW label, NEW q,
           Move(r, label, q), Knows(label, q)
    PROVE  SafetyInv'
<1>1. /\ pc' = [pc EXCEPT ![r] = label] /\ req' = [req EXCEPT ![r] = q]
      /\ reply' = NoReply
      /\ UNCHANGED <<now, sessions, tokens, wallet, userStatus>>
  BY DEF Move, Goto, tables
<1>2. ASSUME NEW p \in Requests PROVE Knows(pc[p], req[p])'
  <2>1. /\ pc'[p] = IF p = r THEN label ELSE pc[p]
        /\ req'[p] = IF p = r THEN q ELSE req[p]
    BY <1>1 DEF SafetyInv, IInv, TypeOK
  <2>2. Knows(pc'[p], req'[p])
    BY <2>1 DEF SafetyInv
  <2> QED
    BY <1>1, <2>2 DEF Knows, LateOK, RefusalAhead, LogoutOK, PairOK, ClockOK, SessionOf,
       IsActive
<1>3. RowsInTime' /\ LoginIntact'
  BY <1>1, TablesKeepSafety DEF SafetyInv, IInv, TypeOK
<1>4. LateNeverSucceeds' /\ LogoutCloses' /\ NoClockViolation'
  BY <1>1 DEF NoReply, LateNeverSucceeds, LogoutCloses, NoClockViolation
<1> QED
  BY <1>2, <1>3, <1>4 DEF SafetyInv

\* An idle request knows nothing.
LEMMA NoRequestKnows == now \in Nat => Knows("idle", NoRequest)
  BY DEF NoRequest, Knows, LateOK, LogoutOK, PairOK, ClockOK

\* A request ends with an error.
LEMMA RejectKeepsSafety ==
    ASSUME SafetyInv, IInv', NEW r \in Requests, NEW answer, Reject(r, answer),
           answer \notin {"ok", "lost"},
           (answer = "checkViolation" /\ DBAhead <= 0) => req[r].op = "login"
    PROVE  SafetyInv'
<1>1. /\ pc' = [pc EXCEPT ![r] = "idle"] /\ req' = [req EXCEPT ![r] = NoRequest]
      /\ reply' = [op |-> req[r].op, token |-> req[r].token, late |-> req[r].late,
                   answer |-> answer]
      /\ UNCHANGED <<now, sessions, tokens, wallet, userStatus>>
  BY DEF Reject, Finish, Goto, tables
<1>2. ASSUME NEW p \in Requests PROVE Knows(pc[p], req[p])'
  <2>1. /\ pc'[p] = IF p = r THEN "idle" ELSE pc[p]
        /\ req'[p] = IF p = r THEN NoRequest ELSE req[p]
    BY <1>1 DEF SafetyInv, IInv, TypeOK
  <2>2. Knows(pc'[p], req'[p])
    BY <2>1, NoRequestKnows DEF SafetyInv, IInv, TypeOK
  <2> QED
    BY <1>1, <2>2 DEF Knows, LateOK, RefusalAhead, LogoutOK, PairOK, ClockOK, SessionOf,
       IsActive
<1>3. RowsInTime' /\ LoginIntact'
  BY <1>1, TablesKeepSafety DEF SafetyInv, IInv, TypeOK
<1>4. LateNeverSucceeds' /\ LogoutCloses' /\ (DBAhead <= 0 => NoClockViolation')
  BY <1>1 DEF LateNeverSucceeds, LogoutCloses, NoClockViolation
<1> QED
  BY <1>2, <1>3, <1>4 DEF SafetyInv

\* The clock, the operator and a stutter.
LEMMA EnvironmentKeepsSafety ==
    ASSUME SafetyInv, IInv',
           Tick \/ (\E u \in MayDisable : DisableUser(u)) \/ UNCHANGED vars
    PROVE  SafetyInv'
<1> USE AuthAssumption, TokenAssumption
<1>1. /\ UNCHANGED <<sessions, tokens, pc, req, wallet>>
      /\ reply' \in {reply, NoReply} /\ now <= now' /\ now' \in Int
      /\ \A u \in Users : ~IsActive(u) => ~IsActive(u)'
  BY DEF Tick, DisableUser, vars, SafetyInv, IInv, TypeOK, IsActive
<1>2. Persists
  BY <1>1 DEF Persists, Stored
<1>3. ASSUME NEW p \in Requests PROVE Knows(pc[p], req[p])'
  <2>1. Knows(pc[p], req[p]) /\ IInv /\ TypeOK'
    BY DEF SafetyInv, IInv
  <2>2. LocalsOK(pc[p], req[p]) /\ RowsOK(pc[p], req[p]) /\ req[p] \in Request
    BY <2>1, AtLabel
  <2>3. PICK l, m : l = pc[p] /\ m = req[p] /\ Knows(l, m)'
    BY <1>2, <2>1, <2>2, KnowledgeStays
  <2> QED
    BY <1>1, <2>3 DEF Knows, LateOK, RefusalAhead, LogoutOK, PairOK, ClockOK, SessionOf,
       IsActive
<1>4. RowsInTime' /\ LoginIntact'
  BY <1>1, TablesKeepSafety
<1>5. LateNeverSucceeds' /\ LogoutCloses' /\ (DBAhead <= 0 => NoClockViolation')
  BY <1>1 DEF NoReply, SafetyInv, LateNeverSucceeds, LogoutCloses, NoClockViolation
<1> QED
  BY <1>3, <1>4, <1>5 DEF SafetyInv

-----------------------------------------------------------------------------
(* What a request learns, statement by statement.                          *)

\* The rows behind the token of a request, and what it knows at its label.
LEMMA KnownAt ==
    ASSUME SafetyInv, NEW r \in Requests
    PROVE  /\ Knows(pc[r], req[r]) /\ req[r] \in Request
           /\ LocalsOK(pc[r], req[r]) /\ RowsOK(pc[r], req[r])
           /\ req[r].token # Null =>
                  /\ req[r].token \in TokenIDs /\ Stored(req[r].token)
                  /\ tokens[req[r].token] \in TokenRow
                  /\ tokens[req[r].token].session \in SessionIDs
                  /\ SessionOf(req[r]) \in SessionRow
                  /\ SessionOf(req[r]).user \in Users
           /\ now \in Nat /\ RowsInTime
<1>1. Knows(pc[r], req[r]) /\ IInv /\ now \in Nat /\ RowsInTime
  BY DEF SafetyInv, IInv, TypeOK
<1>2. req[r] \in Request /\ LocalsOK(pc[r], req[r]) /\ RowsOK(pc[r], req[r])
  BY <1>1, AtLabel
<1>3. req[r].token # Null => req[r].token \in TokenIDs /\ Stored(req[r].token)
  BY <1>2 DEF RowsOK, Request
<1>4. req[r].token # Null =>
          /\ tokens[req[r].token] \in TokenRow
          /\ tokens[req[r].token].session \in SessionIDs
          /\ SessionOf(req[r]) \in SessionRow
  BY <1>1, <1>3, RowsThere DEF SessionOf
<1> QED
  BY <1>1, <1>2, <1>3, <1>4 DEF SessionRow

LEMMA StartKeepsSafety ==
    ASSUME SafetyInv, IInv', NEW r \in Requests, Start(r)
    PROVE  SafetyInv'
<1> USE AuthAssumption, TokenAssumption
<1>0. now \in Nat
  BY DEF SafetyInv, IInv, TypeOK
<1>1. ASSUME NEW u \in Users, StartLogin(r, u)
      PROVE  SafetyInv'
  <2> DEFINE q == [NoRequest EXCEPT !.op = "login", !.user = u, !.late = ~IsActive(u)]
  <2>1. q.op = "login" /\ q.user = u /\ (q.late => ~IsActive(u)) /\ q.txAt = 0
    BY DEF NoRequest, IsActive
  <2>2. Move(r, "readUser", q)
    BY <1>1 DEF StartLogin
  <2> HIDE DEF q
  <2>3. Knows("readUser", q)
    BY <1>0, <2>1 DEF Knows, LateOK, RefusalAhead, LogoutOK, PairOK, ClockOK
  <2> QED
    BY <2>2, <2>3, MoveKeepsSafety
<1>2. ASSUME NEW t \in TokenIDs, wallet[t] # Null
      PROVE  /\ Stored(t) /\ tokens[t] \in TokenRow
             /\ tokens[t].session \in SessionIDs
             /\ sessions[tokens[t].session] \in SessionRow
             /\ sessions[tokens[t].session] # Null
  <2>1. Stored(t)
    BY <1>2 DEF SafetyInv, IInv, TablesOK, References
  <2> QED
    BY <2>1, RowsThere DEF SafetyInv
<1>3. ASSUME NEW t \in TokenIDs \cup {Null}, t # Null => wallet[t] # Null,
             NEW op \in {"refresh", "logout"}, NEW late \in BOOLEAN,
             late => op = "refresh" /\ RefusedFromStart(t),
             Move(r, "begin", [NoRequest EXCEPT !.op = op, !.token = t, !.at = now,
                                                !.late = late])
      PROVE  SafetyInv'
  <2> DEFINE q == [NoRequest EXCEPT !.op = op, !.token = t, !.at = now, !.late = late]
  <2>1. /\ q.op = op /\ q.token = t /\ q.at = now /\ q.late = late /\ q.txAt = 0
        /\ Move(r, "begin", q)
    BY <1>3 DEF NoRequest
  <2> HIDE DEF q
  <2>2. LateOK("begin", q)
    BY <1>0, <1>2, <1>3, <2>1 DEF LateOK, RefusalAhead, RefusedFromStart, SessionOf,
       ValidRefreshTokenState, ValidAuthSessionState, TokenRow, SessionRow, Stored
  <2>3. LogoutOK("begin", q) /\ PairOK("begin", q)
    BY <1>3, <2>1 DEF LogoutOK, PairOK
  <2>4. ClockOK("begin", q)
    <3>1. ASSUME DBAhead <= 0, t # Null
          PROVE  now >= tokens[t].created /\ now >= SessionOf(q).created
      BY <1>2, <1>3, <2>1, <3>1 DEF SafetyInv, RowsInTime, SessionOf, TokenRow, SessionRow
    <3> QED
      BY <1>0, <2>1, <3>1 DEF ClockOK
  <2> QED
    BY <2>1, <2>2, <2>3, <2>4, MoveKeepsSafety DEF Knows
<1>4. ASSUME NEW t \in TokenIDs \cup {Null}, t # Null => wallet[t] # Null,
             StartRefresh(r, t) \/ StartLogout(r, t)
      PROVE  SafetyInv'
  <2>1. RefusedFromStart(t) \in BOOLEAN
    BY DEF RefusedFromStart, IsActive
  <2> QED
    BY <1>3, <1>4, <2>1 DEF StartRefresh, StartLogout
<1> QED
  BY <1>1, <1>4 DEF Start

LEMMA LoginKeepsSafety ==
    ASSUME SafetyInv, IInv', NEW r \in Requests,
           LoginReadUser(r) \/ LoginIssue(r) \/ CreateAuthSession(r)
    PROVE  SafetyInv'
<1> USE AuthAssumption, TokenAssumption
<1> USE DEF Continue
<1>1. req[r].op = "login" /\ pc[r] \in {"readUser", "issue", "createSession"}
  BY OperationAt DEF LoginReadUser, LoginIssue, CreateAuthSession, SafetyInv
<1>2. /\ Knows(pc[r], req[r]) /\ req[r] \in Request /\ now \in Nat
  BY KnownAt
<1>3. CASE \E answer \in {"invalidCredentials", "disabled", "error", "checkViolation"} :
              Reject(r, answer)
  BY <1>1, <1>3, RejectKeepsSafety
<1>4. CASE IsActive(req[r].user) /\ Move(r, "issue", req[r])
  <2>1. Knows("issue", req[r])
    BY <1>1, <1>2, <1>4 DEF Knows, LateOK, RefusalAhead, LogoutOK, PairOK, ClockOK
  <2> QED
    BY <1>4, <2>1, MoveKeepsSafety
<1>5. ASSUME pc[r] = "issue", NEW s, NEW t,
             Move(r, "begin", [req[r] EXCEPT !.session = s, !.newToken = t,
                                             !.pair = IssueTokenPair(now, Null)])
      PROVE  SafetyInv'
  <2> DEFINE q == [req[r] EXCEPT !.session = s, !.newToken = t,
                                 !.pair = IssueTokenPair(now, Null)]
  <2>1. /\ q.op = "login" /\ q.late = req[r].late /\ q.txAt = req[r].txAt
        /\ q.pair = IssueTokenPair(now, Null)
    BY <1>1, <1>2 DEF Request
  <2>2. q.pair.accessExpiresAt <= q.pair.refreshExpiresAt
    BY <1>2, <2>1 DEF IssueTokenPair, AccessExpiry, RefreshExpiry, CapToSession,
       ValidTokenConfig
  <2>3. Move(r, "begin", q)
    BY <1>5
  <2> HIDE DEF q
  <2>4. Knows("begin", q)
    BY <1>2, <1>5, <2>1, <2>2 DEF Knows, LateOK, RefusalAhead, LogoutOK, PairOK, ClockOK
  <2> QED
    BY <2>3, <2>4, MoveKeepsSafety
<1>6. CASE pc[r] = "createSession" /\ Move(r, "createToken", Wrote(req[r], "createSession"))
  <2> DEFINE q == Wrote(req[r], "createSession")
  <2>1. /\ q.op = "login" /\ q.late = req[r].late /\ q.txAt = req[r].txAt
        /\ q.pair = req[r].pair
    BY <1>1, <1>2 DEF Request, Wrote
  <2> HIDE DEF q
  <2>2. Knows("createToken", q)
    BY <1>1, <1>2, <1>6, <2>1 DEF Knows, LateOK, RefusalAhead, LogoutOK, PairOK, ClockOK
  <2> QED
    BY <1>6, <2>2, MoveKeepsSafety DEF q
<1> QED
  BY <1>3, <1>4, <1>5, <1>6 DEF LoginReadUser, LoginIssue, CreateAuthSession

LEMMA BeginKeepsSafety ==
    ASSUME SafetyInv, IInv', NEW r \in Requests, Begin(r)
    PROVE  SafetyInv'
<1> USE AuthAssumption, TokenAssumption
<1> DEFINE label == IF req[r].op = "login" THEN "createSession" ELSE "lookup"
           q == [req[r] EXCEPT !.txAt = DBNow]
<1>1. pc[r] = "begin" /\ Move(r, label, q) /\ req[r].op \in {"login", "refresh", "logout"}
  BY OperationAt DEF Begin, Continue, SafetyInv
<1>2. Knows("begin", req[r]) /\ req[r] \in Request /\ now \in Nat
  BY <1>1, KnownAt
<1>3. /\ q.op = req[r].op /\ q.token = req[r].token /\ q.at = req[r].at /\ q.pair = req[r].pair
      /\ q.late = req[r].late /\ q.user = req[r].user /\ q.writes = req[r].writes
      /\ q.txAt = now + DBAhead
  BY <1>2 DEF Request, DBNow
<1> HIDE DEF q
<1>4. SessionOf(q) = SessionOf(req[r])
  BY <1>3 DEF SessionOf
<1>5. LateOK(label, q) /\ LogoutOK(label, q)
  BY <1>1, <1>2, <1>3, <1>4 DEF Knows, LateOK, RefusalAhead, LogoutOK
<1>6. PairOK(label, q) /\ ClockOK(label, q)
  BY <1>1, <1>2, <1>3, <1>4 DEF Knows, PairOK, ClockOK
<1> QED
  BY <1>1, <1>5, <1>6, MoveKeepsSafety DEF Knows

\* The reads of a refresh: each check removes one of the reasons to refuse.
LEMMA RefreshReadsKeepSafety ==
    ASSUME SafetyInv, IInv', NEW r \in Requests,
           RefreshLookup(r) \/ RefreshReadSession(r) \/ RefreshReadUser(r)
    PROVE  SafetyInv'
<1> USE AuthAssumption, TokenAssumption
<1> USE DEF Continue, Locking
<1>1. req[r].op = "refresh" /\ pc[r] \in {"lookup", "readSession", "readUserInTx"}
  BY OperationAt DEF RefreshLookup, RefreshReadSession, RefreshReadUser, SafetyInv
<1>2. /\ Knows(pc[r], req[r]) /\ req[r] \in Request
      /\ LocalsOK(pc[r], req[r]) /\ RowsOK(pc[r], req[r])
  BY KnownAt
<1>3. CASE \E answer \in {"invalidToken", "disabled"} : Reject(r, answer)
  BY <1>3, RejectKeepsSafety
<1>4. CASE /\ pc[r] = "lookup" /\ req[r].token # Null
           /\ ValidRefreshTokenState(tokens[req[r].token], req[r].at)
           /\ Move(r, "readSession", req[r])
  <2>1. Knows("readSession", req[r])
    BY <1>1, <1>2, <1>4 DEF Knows, LateOK, RefusalAhead, LogoutOK, PairOK, ClockOK
  <2> QED
    BY <1>4, <2>1, MoveKeepsSafety
<1>5. CASE /\ pc[r] = "readSession"
           /\ ValidAuthSessionState(sessions[SessionRead(r).session], req[r].at)
           /\ Move(r, "readUserInTx", SessionRead(r))
  <2> DEFINE q == SessionRead(r)
  <2>1. /\ q.op = req[r].op /\ q.token = req[r].token /\ q.at = req[r].at
        /\ q.late = req[r].late /\ q.txAt = req[r].txAt
        /\ q.session = tokens[req[r].token].session
    BY <1>2 DEF Request, SessionRead
  <2>2. SessionOf(q) = SessionOf(req[r]) /\ ValidAuthSessionState(SessionOf(q), req[r].at)
    BY <1>5, <2>1 DEF SessionOf
  <2> HIDE DEF q
  <2>3. Knows("readUserInTx", q)
    BY <1>1, <1>2, <1>5, <2>1, <2>2
       DEF Knows, LateOK, RefusalAhead, LogoutOK, PairOK, ClockOK
  <2> QED
    BY <1>5, <2>3, MoveKeepsSafety DEF q
<1>6. CASE /\ pc[r] = "readUserInTx" /\ IsActive(sessions[req[r].session].user)
           /\ Move(r, "issueInTx", [req[r] EXCEPT !.user = sessions[req[r].session].user])
  <2> DEFINE q == [req[r] EXCEPT !.user = sessions[req[r].session].user]
  <2>1. /\ q.op = req[r].op /\ q.token = req[r].token /\ q.at = req[r].at
        /\ q.late = req[r].late /\ q.txAt = req[r].txAt
    BY <1>2 DEF Request
  <2>2. SessionOf(q) = SessionOf(req[r]) /\ IsActive(SessionOf(req[r]).user)
    BY <1>1, <1>2, <1>6, <2>1 DEF SessionOf, LocalsOK, RowsOK, AfterLookup
  <2> HIDE DEF q
  <2>3. Knows("issueInTx", q)
    BY <1>1, <1>2, <1>6, <2>1, <2>2
       DEF Knows, LateOK, RefusalAhead, LogoutOK, PairOK, ClockOK
  <2> QED
    BY <1>6, <2>3, MoveKeepsSafety DEF q
<1> QED
  BY <1>1, <1>3, <1>4, <1>5, <1>6 DEF RefreshLookup, RefreshReadSession, RefreshReadUser

\* A pair for a session that is not over ends with it, and after the transaction began.
LEMMA RefreshIssueKeepsSafety ==
    ASSUME SafetyInv, IInv', NEW r \in Requests, RefreshIssue(r)
    PROVE  SafetyInv'
<1> USE AuthAssumption, TokenAssumption
<1> DEFINE expires == sessions[req[r].session].expires
           pair == IssueTokenPair(now, expires)
<1>1. req[r].op = "refresh" /\ pc[r] = "issueInTx"
  BY OperationAt DEF RefreshIssue, SafetyInv
<1>2. /\ Knows(pc[r], req[r]) /\ req[r] \in Request /\ now \in Nat
      /\ req[r].token # Null /\ req[r].session = tokens[req[r].token].session
      /\ SessionOf(req[r]) \in SessionRow
  BY <1>1, KnownAt DEF LocalsOK, RowsOK, AfterLookup
<1>3. CASE \E answer \in {"invalidSubject", "error"} : Reject(r, answer)
  BY <1>3, RejectKeepsSafety
<1>4. ASSUME NEW t, CanIssue(now, expires),
             Move(r, "markTokenUsed", [req[r] EXCEPT !.newToken = t, !.pair = pair])
      PROVE  SafetyInv'
  <2> DEFINE q == [req[r] EXCEPT !.newToken = t, !.pair = pair]
  <2>1. /\ q.op = req[r].op /\ q.token = req[r].token /\ q.at = req[r].at
        /\ q.late = req[r].late /\ q.txAt = req[r].txAt /\ q.pair = pair
    BY <1>2 DEF Request
  <2>2. SessionOf(q) = SessionOf(req[r]) /\ expires = SessionOf(q).expires
    BY <1>2, <2>1 DEF SessionOf
  <2>3. expires \in Int /\ expires # Null
    BY <1>2, <2>2 DEF SessionRow
  <2>4. /\ pair.accessExpiresAt <= expires /\ pair.refreshExpiresAt <= expires
        /\ pair.refreshExpiresAt > now
    <3>1. expires > now /\ now + RefreshTTL > now
      BY <1>2, <1>4, <2>3 DEF CanIssue, ValidTokenConfig
    <3>2. /\ AccessExpiry(now, expires) <= expires /\ RefreshExpiry(now, expires) <= expires
          /\ RefreshExpiry(now, expires) > now
      BY <1>2, <2>3, <3>1 DEF AccessExpiry, RefreshExpiry, CapToSession, MinTime
    <3> QED
      BY <3>2 DEF IssueTokenPair
  <2>5. pair.refreshExpiresAt \in Int /\ q.txAt \in Int
    BY <1>2, <2>1, <2>3 DEF IssueTokenPair, RefreshExpiry, CapToSession, MinTime, Request
  <2>6. Move(r, "markTokenUsed", q)
    BY <1>4
  <2> HIDE DEF q, pair, expires
  <2>7. LateOK("markTokenUsed", q) /\ LogoutOK("markTokenUsed", q)
    BY <1>1, <1>2, <2>1 DEF Knows, LateOK, RefusalAhead, LogoutOK
  <2>8. PairOK("markTokenUsed", q)
    BY <1>1, <2>1, <2>2, <2>4 DEF PairOK
  <2>9. ClockOK("markTokenUsed", q)
    BY <1>1, <1>2, <2>1, <2>2, <2>4, <2>5 DEF Knows, ClockOK
  <2> QED
    BY <2>6, <2>7, <2>8, <2>9, MoveKeepsSafety DEF Knows
<1> QED
  BY <1>3, <1>4 DEF RefreshIssue, Continue

\* The statements of a rotation; the time constraints hold with the clocks in step.
LEMMA RotationKeepsSafety ==
    ASSUME SafetyInv, IInv', NEW r \in Requests,
           MarkRefreshTokenUsed(r) \/ CreateRefreshToken(r) \/ MarkAuthSessionUsed(r)
    PROVE  SafetyInv'
<1> USE AuthAssumption, TokenAssumption
<1> USE DEF Continue, Locking
<1>1. /\ pc[r] \in {"markTokenUsed", "createToken", "markSessionUsed"}
      /\ req[r].op \in {"login", "refresh"}
      /\ req[r].op = "login" => pc[r] = "createToken"
  BY OperationAt DEF MarkRefreshTokenUsed, CreateRefreshToken, MarkAuthSessionUsed, SafetyInv
<1>2. Knows(pc[r], req[r]) /\ req[r] \in Request
  BY KnownAt
<1>3. req[r].op = "refresh" =>
          /\ req[r].token # Null /\ req[r].session = tokens[req[r].token].session
          /\ tokens[req[r].token] \in TokenRow /\ SessionOf(req[r]) \in SessionRow
  BY <1>1, KnownAt DEF LocalsOK, RowsOK, AfterLookup
<1>4. CASE Reject(r, "uniqueViolation")
  BY <1>4, RejectKeepsSafety
<1>5. ASSUME NEW table, NEW label, Move(r, label, Wrote(req[r], table)),
             \/ pc[r] = "markTokenUsed" /\ label = "createToken"
             \/ pc[r] = "createToken" /\ req[r].op = "login" /\ label = "commit"
             \/ pc[r] = "createToken" /\ req[r].op = "refresh" /\ label = "markSessionUsed"
             \/ pc[r] = "markSessionUsed" /\ label = "commit"
      PROVE  SafetyInv'
  <2> DEFINE q == Wrote(req[r], table)
  <2>1. /\ q.op = req[r].op /\ q.token = req[r].token /\ q.at = req[r].at
        /\ q.late = req[r].late /\ q.txAt = req[r].txAt /\ q.pair = req[r].pair
    BY <1>2 DEF Request, Wrote
  <2>2. SessionOf(q) = SessionOf(req[r])
    BY <2>1 DEF SessionOf
  <2> HIDE DEF q
  <2>3. LateOK(label, q) /\ LogoutOK(label, q)
    BY <1>1, <1>2, <1>5, <2>1 DEF Knows, LateOK, RefusalAhead, LogoutOK
  <2>4. PairOK(label, q) /\ ClockOK(label, q)
    BY <1>1, <1>2, <1>5, <2>1, <2>2 DEF Knows, PairOK, ClockOK
  <2> QED
    BY <1>5, <2>3, <2>4, MoveKeepsSafety DEF q, Knows
<1>6. ASSUME Reject(r, "checkViolation"),
             \/ /\ pc[r] = "markTokenUsed"
                /\ ~NotBeforeCreated(req[r].at, tokens[req[r].token].created)
             \/ /\ pc[r] = "createToken"
                /\ ~ExpiresAfterCreated(req[r].pair.refreshExpiresAt, req[r].txAt)
             \/ /\ pc[r] = "markSessionUsed"
                /\ ~NotBeforeCreated(req[r].at, sessions[req[r].session].created)
      PROVE  SafetyInv'
  <2>1. (req[r].op = "refresh" /\ DBAhead <= 0) => FALSE
    BY <1>1, <1>2, <1>3, <1>6 DEF Knows, ClockOK, NotBeforeCreated, ExpiresAfterCreated,
       SessionOf
  <2> QED
    BY <1>1, <1>6, <2>1, RejectKeepsSafety
<1>7. CASE MarkRefreshTokenUsed(r)
  BY <1>5, <1>6, <1>7 DEF MarkRefreshTokenUsed
<1>8. CASE CreateRefreshToken(r)
  BY <1>1, <1>4, <1>5, <1>6, <1>8 DEF CreateRefreshToken
<1>9. CASE MarkAuthSessionUsed(r)
  BY <1>5, <1>6, <1>9 DEF MarkAuthSessionUsed
<1> QED
  BY <1>7, <1>8, <1>9

\* A logout leaves out what it has found done, and what is done stays done.
LEMMA LogoutKeepsSafety ==
    ASSUME SafetyInv, IInv', NEW r \in Requests,
           \/ LogoutLookup(r) \/ LogoutReadSession(r)
           \/ RevokeRefreshToken(r) \/ RevokeAuthSession(r)
    PROVE  SafetyInv'
<1> USE AuthAssumption, TokenAssumption
<1> USE DEF Continue, Locking
<1>1. req[r].op = "logout" /\ pc[r] \in {"lookup", "readSession", "revokeToken", "revokeSession"}
  BY OperationAt DEF LogoutLookup, LogoutReadSession, RevokeRefreshToken, RevokeAuthSession,
     SafetyInv
<1>2. Knows(pc[r], req[r]) /\ req[r] \in Request
  BY KnownAt
<1>3. pc[r] \in {"revokeToken", "revokeSession"} =>
          /\ req[r].token # Null /\ req[r].session = tokens[req[r].token].session
          /\ tokens[req[r].token] \in TokenRow /\ SessionOf(req[r]) \in SessionRow
  BY <1>1, KnownAt DEF LocalsOK, RowsOK, AfterLookup
<1>4. ASSUME NEW label, NEW q, Move(r, label, q), q.op = req[r].op, q.token = req[r].token,
             q.at = req[r].at, q.late = req[r].late, q.txAt = req[r].txAt,
             LogoutOK(label, q)
      PROVE  SafetyInv'
  <2>1. SessionOf(q) = SessionOf(req[r])
    BY <1>4 DEF SessionOf
  <2>2. LateOK(label, q)
    BY <1>1, <1>2, <1>4 DEF Knows, LateOK, RefusalAhead
  <2>3. PairOK(label, q)
    BY <1>1, <1>4 DEF PairOK
  <2>4. ClockOK(label, q)
    BY <1>1, <1>2, <1>4, <2>1 DEF Knows, ClockOK
  <2> QED
    BY <1>4, <2>2, <2>3, <2>4, MoveKeepsSafety DEF Knows
<1>5. CASE LogoutLookup(r)
  <2>1. PICK label \in {"commit", "readSession"} :
            /\ Move(r, label, req[r])
            /\ label = "commit" => req[r].token = Null
    BY <1>5 DEF LogoutLookup
  <2> QED
    BY <1>4, <2>1 DEF LogoutOK
<1>6. CASE LogoutReadSession(r)
  <2> DEFINE q == SessionRead(r)
  <2>1. /\ q.op = req[r].op /\ q.token = req[r].token /\ q.at = req[r].at
        /\ q.late = req[r].late /\ q.txAt = req[r].txAt
        /\ q.sessionOpen = (SessionOf(req[r]).revoked = Null)
    BY <1>2 DEF Request, SessionRead, SessionOf
  <2>2. Move(r, "revokeToken", q)
    BY <1>6 DEF LogoutReadSession
  <2> HIDE DEF q
  <2>3. LogoutOK("revokeToken", q)
    <3>1. SessionOf(q) = SessionOf(req[r])
      BY <2>1 DEF SessionOf
    <3> QED
      BY <2>1, <3>1 DEF LogoutOK
  <2> QED
    BY <1>4, <2>1, <2>2, <2>3
<1>7. ASSUME NEW table \in {"revokeToken", "revokeSession"}
      PROVE  LET q == Wrote(req[r], table)
             IN  /\ q.op = req[r].op /\ q.token = req[r].token /\ q.at = req[r].at
                 /\ q.late = req[r].late /\ q.txAt = req[r].txAt
                 /\ q.sessionOpen = req[r].sessionOpen /\ q.session = req[r].session
                 /\ q.writes = req[r].writes \cup {table} /\ SessionOf(q) = SessionOf(req[r])
  BY <1>2 DEF Request, Wrote, SessionOf
<1>8. ASSUME Reject(r, "checkViolation"),
             \/ /\ pc[r] = "revokeToken"
                /\ ~NotBeforeCreated(req[r].at, tokens[req[r].token].created)
             \/ /\ pc[r] = "revokeSession"
                /\ ~NotBeforeCreated(req[r].at, sessions[req[r].session].created)
      PROVE  SafetyInv'
  <2>1. DBAhead <= 0 => FALSE
    BY <1>1, <1>2, <1>3, <1>8 DEF Knows, ClockOK, NotBeforeCreated, SessionOf
  <2> QED
    BY <1>8, <2>1, RejectKeepsSafety
<1>9. CASE RevokeRefreshToken(r)
  <2>1. pc[r] = "revokeToken" /\ LogoutOK("revokeToken", req[r])
    BY <1>2, <1>9 DEF RevokeRefreshToken, Knows
  <2>2. CASE tokens[req[r].token].revoked # Null /\ Move(r, "revokeSession", req[r])
    <3>1. LogoutOK("revokeSession", req[r])
      BY <2>1, <2>2 DEF LogoutOK
    <3> QED
      BY <1>4, <2>2, <3>1
  <2>3. CASE Move(r, "revokeSession", Wrote(req[r], "revokeToken"))
    <3> DEFINE q == Wrote(req[r], "revokeToken")
    <3>1. /\ q.op = req[r].op /\ q.token = req[r].token /\ q.at = req[r].at
          /\ q.late = req[r].late /\ q.txAt = req[r].txAt
          /\ q.sessionOpen = req[r].sessionOpen /\ "revokeToken" \in q.writes
          /\ SessionOf(q) = SessionOf(req[r])
      BY <1>7
    <3> HIDE DEF q
    <3>2. LogoutOK("revokeSession", q)
      BY <1>1, <2>1, <3>1 DEF LogoutOK
    <3> QED
      BY <1>4, <2>3, <3>1, <3>2 DEF q
  <2> QED
    BY <1>8, <1>9, <2>2, <2>3 DEF RevokeRefreshToken
<1>10. CASE RevokeAuthSession(r)
  <2>1. pc[r] = "revokeSession" /\ LogoutOK("revokeSession", req[r])
    BY <1>2, <1>10 DEF RevokeAuthSession, Knows
  <2>2. CASE ~req[r].sessionOpen /\ Move(r, "commit", req[r])
    <3>1. LogoutOK("commit", req[r])
      BY <2>1, <2>2 DEF LogoutOK
    <3> QED
      BY <1>4, <2>2, <3>1
  <2>3. CASE Move(r, "commit", Wrote(req[r], "revokeSession"))
    <3> DEFINE q == Wrote(req[r], "revokeSession")
    <3>1. /\ q.op = req[r].op /\ q.token = req[r].token /\ q.at = req[r].at
          /\ q.late = req[r].late /\ q.txAt = req[r].txAt
          /\ q.sessionOpen = req[r].sessionOpen
          /\ q.writes = req[r].writes \cup {"revokeSession"}
          /\ SessionOf(q) = SessionOf(req[r])
      BY <1>7
    <3> HIDE DEF q
    <3>2. LogoutOK("commit", q)
      BY <1>1, <2>1, <3>1 DEF LogoutOK
    <3> QED
      BY <1>4, <2>3, <3>1, <3>2 DEF q
  <2> QED
    BY <1>8, <1>10, <2>2, <2>3 DEF RevokeAuthSession
<1> QED
  BY <1>5, <1>6, <1>9, <1>10

-----------------------------------------------------------------------------
(* A commit.                                                               *)

\* The token a commit adds, if it adds one, and the pair that goes with it.
LEMMA CommitAdds ==
    ASSUME SafetyInv, NEW r \in Requests, Commit(r), req[r].newToken # Null
    PROVE  /\ req[r].newToken \in TokenIDs /\ ~Stored(req[r].newToken)
           /\ req[r].op \in {"login", "refresh"}
           /\ req[r].session \in SessionIDs /\ req[r].pair \in Pairs /\ req[r].txAt \in Int
           /\ tokens'[req[r].newToken] # Null
           /\ tokens'[req[r].newToken].session = req[r].session
           /\ tokens'[req[r].newToken].rotatedFrom = req[r].token
           /\ tokens'[req[r].newToken].created = req[r].txAt
           /\ tokens'[req[r].newToken].expires = req[r].pair.refreshExpiresAt
           /\ sessions'[req[r].session] # Null
           /\ req[r].pair.accessExpiresAt <= sessions'[req[r].session].expires
           /\ req[r].pair.refreshExpiresAt <= sessions'[req[r].session].expires
<1> USE AuthAssumption, TokenAssumption
<1>1. pc[r] = "commit" /\ IInv /\ req[r] \in Request
  BY KnownAt DEF Commit, SafetyInv
<1>2. /\ req[r].newToken \in TokenIDs /\ ~Stored(req[r].newToken)
      /\ req[r].op \in {"login", "refresh"}
      /\ req[r].session \in SessionIDs /\ req[r].pair \in Pairs
  BY <1>1, AtCommit DEF Stored
<1>3. /\ sessions'[req[r].session] # Null /\ tokens'[req[r].newToken] # Null
      /\ tokens'[req[r].newToken].session = req[r].session
      /\ tokens'[req[r].newToken].rotatedFrom = req[r].token
      /\ tokens'[req[r].newToken].created = req[r].txAt
      /\ tokens'[req[r].newToken].expires = req[r].pair.refreshExpiresAt
  <2>1. tokens'[req[r].newToken] = NewToken(req[r]) /\ sessions'[req[r].session] # Null
    BY <1>1, CommitEffect
  <2>2. NewToken(req[r]) \in TokenRow
    BY <1>1, <1>2 DEF NewToken, TokenRow, Request, Pairs
  <2> QED
    BY <2>1, <2>2 DEF NewToken
<1>4. PairOK("commit", req[r])
  BY <1>1, KnownAt DEF Knows
<1>5. CASE req[r].op = "login"
  <2>1. sessions'[req[r].session].expires = req[r].pair.refreshExpiresAt
    BY <1>1, <1>5, CommitRows
  <2> QED
    BY <1>1, <1>2, <1>3, <1>4, <1>5, <2>1 DEF PairOK, Pairs, Request
<1>6. CASE req[r].op = "refresh"
  <2>1. SessionOf(req[r]) = sessions[req[r].session] /\ sessions[req[r].session] # Null
    BY <1>1, <1>6, AtCommit DEF SessionOf
  <2>2. sessions'[req[r].session].expires = SessionOf(req[r]).expires
    BY <1>1, <1>2, <2>1, CommitPersists DEF Persists
  <2> QED
    BY <1>1, <1>2, <1>3, <1>4, <1>6, <2>2 DEF PairOK, Request
<1> QED
  BY <1>2, <1>5, <1>6

LEMMA CommitKeepsRowsInTime ==
    ASSUME SafetyInv, IInv', NEW r \in Requests, Commit(r)
    PROVE  RowsInTime'
<1> USE AuthAssumption, TokenAssumption
<1>1. pc[r] = "commit" /\ IInv /\ RowsInTime /\ ClockOK("commit", req[r])
  BY KnownAt DEF Commit, SafetyInv, Knows
<1>2. now' = now /\ now \in Int
  BY <1>1, CommitRows DEF IInv, TypeOK
<1>3. wallet' \in {wallet, [wallet EXCEPT ![req[r].newToken] = req[r].pair]}
      /\ (req[r].newToken = Null => wallet' = wallet)
  BY DEF Commit, Delivers
<1>4. ASSUME NEW t \in TokenIDs, Stored(t)'
      PROVE  /\ tokens'[t].expires <= sessions'[tokens'[t].session].expires
             /\ wallet'[t] # Null =>
                    wallet'[t].accessExpiresAt <= sessions'[tokens'[t].session].expires
             /\ DBAhead <= 0 => tokens'[t].created <= now'
  <2>1. CASE Stored(t)
    <3>1. /\ tokens'[t].session = tokens[t].session /\ tokens'[t].created = tokens[t].created
          /\ tokens'[t].expires = tokens[t].expires
      BY <1>1, <2>1, CommitPersists DEF Persists
    <3>2. tokens[t].session \in SessionIDs /\ sessions[tokens[t].session] # Null
      BY <1>1, <2>1, RowsThere
    <3>3. sessions'[tokens[t].session].expires = sessions[tokens[t].session].expires
      BY <1>1, <3>2, CommitPersists DEF Persists
    <3>4. wallet'[t] = wallet[t]
      BY <1>1, <1>3, <2>1, CommitAdds DEF IInv, TypeOK
    <3> QED
      BY <1>1, <1>2, <2>1, <3>1, <3>3, <3>4 DEF RowsInTime
  <2>2. CASE ~Stored(t)
    <3>1. t = req[r].newToken /\ req[r].newToken # Null
      BY <1>1, <1>4, <2>2, CommitEffect DEF Stored, Rows
    <3>2. wallet[t] = Null
      BY <1>1, <2>2 DEF IInv, TablesOK, References
    <3>3. wallet'[t] # Null => wallet'[t] = req[r].pair
      BY <1>1, <1>3, <3>1, <3>2 DEF IInv, TypeOK
    <3>4. /\ tokens'[t].session = req[r].session /\ tokens'[t].created = req[r].txAt
          /\ tokens'[t].expires = req[r].pair.refreshExpiresAt
      BY <3>1, CommitAdds
    <3>5. DBAhead <= 0 => req[r].txAt <= now'
      BY <1>1, <1>2 DEF ClockOK
    <3> QED
      BY <3>1, <3>3, <3>4, <3>5, CommitAdds
  <2> QED
    BY <2>1, <2>2
<1>5. ASSUME DBAhead <= 0, NEW s \in SessionIDs, sessions'[s] # Null
      PROVE  sessions'[s].created <= now'
  <2>1. CASE sessions[s] # Null
    BY <1>1, <1>2, <1>5, <2>1, CommitPersists DEF Persists, RowsInTime
  <2>2. CASE sessions[s] = Null
    <3>1. req[r].op = "login" /\ s = req[r].session
      BY <1>1, <1>5, <2>2, CommitEffect
    <3>2. sessions'[s].created = req[r].txAt
      BY <1>1, <3>1, CommitRows
    <3> QED
      BY <1>1, <1>2, <1>5, <3>2 DEF ClockOK
  <2> QED
    BY <2>1, <2>2
<1> QED
  BY <1>4, <1>5 DEF RowsInTime

LEMMA CommitKeepsLoginIntact ==
    ASSUME SafetyInv, IInv', NEW r \in Requests, Commit(r)
    PROVE  LoginIntact'
<1> USE AuthAssumption, TokenAssumption
<1> DEFINE FirstOf(s, u) == Stored(u) /\ tokens[u].session = s /\ tokens[u].rotatedFrom = Null
<1>1. pc[r] = "commit" /\ IInv /\ LoginIntact
  BY DEF Commit, SafetyInv
<1>2. \A u \in TokenIDs : Stored(u) =>
          /\ tokens'[u] # Null /\ tokens'[u].session = tokens[u].session
          /\ tokens'[u].rotatedFrom = tokens[u].rotatedFrom
  BY <1>1, CommitPersists DEF Persists
<1>3. \A u \in TokenIDs : ~Stored(u) =>
          \/ tokens'[u] = Null
          \/ /\ u = req[r].newToken /\ req[r].newToken # Null
             /\ tokens'[u].session = req[r].session /\ tokens'[u].rotatedFrom = req[r].token
  <2>1. ASSUME NEW u \in TokenIDs, ~Stored(u), tokens'[u] # Null
        PROVE  u = req[r].newToken /\ req[r].newToken # Null
    BY <1>1, <2>1, CommitEffect DEF Rows
  <2> QED
    BY <2>1, CommitAdds
<1>4. /\ req[r].op = "refresh" => req[r].token # Null
      /\ req[r].newToken # Null => req[r].op \in {"login", "refresh"}
      /\ req[r].op = "login" => /\ req[r].token = Null /\ req[r].newToken \in TokenIDs
                                /\ req[r].newToken # Null /\ sessions[req[r].session] = Null
  BY <1>1, AtCommit DEF Rows
<1> SUFFICES ASSUME NEW s \in SessionIDs, sessions'[s] # Null
             PROVE  \E t \in TokenIDs : \A u \in TokenIDs : FirstOf(s, u)' <=> u = t
  BY DEF LoginIntact
<1>5. CASE sessions[s] # Null
  <2>1. \A u \in TokenIDs : FirstOf(s, u)' <=> FirstOf(s, u)
    BY <1>2, <1>3, <1>4, <1>5 DEF Stored
  <2> QED
    BY <1>1, <1>5, <2>1 DEF LoginIntact
<1>6. CASE sessions[s] = Null
  <2>1. req[r].op = "login" /\ s = req[r].session
    BY <1>1, <1>6, CommitEffect
  <2>2. \A u \in TokenIDs : Stored(u) => tokens[u].session # s
    BY <1>1, <1>6 DEF IInv, TablesOK, References
  <2>3. tokens'[req[r].newToken] # Null /\ tokens'[req[r].newToken].session = s
        /\ tokens'[req[r].newToken].rotatedFrom = Null
    BY <1>4, <2>1, CommitAdds
  <2>4. \A u \in TokenIDs : FirstOf(s, u)' <=> u = req[r].newToken
    BY <1>2, <1>3, <1>4, <2>1, <2>2, <2>3 DEF Stored
  <2> QED
    BY <1>4, <2>1, <2>4
<1> QED
  BY <1>5, <1>6

\* What a commit answers: not late, and a logout has left nothing open.
LEMMA CommitAnswers ==
    ASSUME SafetyInv, NEW r \in Requests, Commit(r)
    PROVE  LateNeverSucceeds' /\ LogoutCloses' /\ NoClockViolation'
<1> USE AuthAssumption, TokenAssumption
<1>1. pc[r] = "commit" /\ IInv /\ req[r] \in Request /\ Knows("commit", req[r])
  BY KnownAt DEF Commit, SafetyInv
<1>2. /\ reply'.op = req[r].op /\ reply'.token = req[r].token /\ reply'.late = req[r].late
      /\ reply'.answer \in {"ok", "lost"}
  BY DEF Commit, Finish
<1>3. ~req[r].late
  BY <1>1 DEF Knows, LateOK, RefusalAhead
<1>4. ASSUME req[r].op = "logout", req[r].token # Null
      PROVE  /\ tokens'[req[r].token].revoked # Null
             /\ sessions'[tokens'[req[r].token].session].revoked # Null
  <2>1. /\ req[r].token \in TokenIDs /\ Stored(req[r].token)
        /\ tokens[req[r].token] \in TokenRow /\ req[r].session \in SessionIDs
        /\ req[r].session = tokens[req[r].token].session
        /\ sessions[req[r].session] \in SessionRow /\ sessions[req[r].session] # Null
    BY <1>1, <1>4, KnownAt DEF RowsOK, AfterLookup, SessionOf
  <2>2. /\ tokens[req[r].token].revoked # Null \/ "revokeToken" \in req[r].writes
        /\ sessions[req[r].session].revoked # Null \/ "revokeSession" \in req[r].writes
    BY <1>1, <1>4, <2>1 DEF Knows, LogoutOK, SessionOf
  <2>3. /\ tokens'[req[r].token] = TokenAfter(req[r], tokens[req[r].token])
        /\ sessions'[req[r].session] = SessionAfter(req[r], sessions[req[r].session])
    BY <1>1, <2>1, CommitRows
  <2>4. req[r].at # Null
    BY <1>1 DEF Request
  <2>5. /\ tokens'[req[r].token].revoked # Null
        /\ tokens'[req[r].token].session = req[r].session
    BY <2>1, <2>2, <2>3, <2>4 DEF TokenAfter, TokenRow
  <2>6. sessions'[req[r].session].revoked # Null
    BY <2>1, <2>2, <2>3, <2>4 DEF SessionAfter, SessionRow
  <2> QED
    BY <2>5, <2>6
<1> QED
  BY <1>2, <1>3, <1>4 DEF LateNeverSucceeds, LogoutCloses, NoClockViolation

LEMMA CommitKeepsSafety ==
    ASSUME SafetyInv, IInv', NEW r \in Requests, Commit(r)
    PROVE  SafetyInv'
<1>1. pc' = [pc EXCEPT ![r] = "idle"] /\ req' = [req EXCEPT ![r] = NoRequest]
  BY DEF Commit, Finish, Goto
<1>2. IInv /\ Persists /\ TypeOK'
  BY CommitPersists DEF SafetyInv, IInv
<1>3. ASSUME NEW p \in Requests PROVE Knows(pc[p], req[p])'
  <2>1. PICK l, m : /\ l = pc'[p] /\ m = req'[p] /\ Knows(l, m)'
    <3>1. CASE p = r
      <4>1. Knows("idle", NoRequest)'
        BY <1>2 DEF TypeOK, NoRequest, Knows, LateOK, LogoutOK, PairOK, ClockOK
      <4> QED
        BY <1>1, <1>2, <3>1, <4>1 DEF IInv, TypeOK
    <3>2. CASE p # r
      <4>1. pc'[p] = pc[p] /\ req'[p] = req[p]
        BY <1>1, <1>2, <3>2 DEF IInv, TypeOK
      <4> QED
        BY <1>2, <4>1, KnownAt, KnowledgeStays
    <3> QED
      BY <3>1, <3>2
  <2> QED
    BY <2>1 DEF Knows, LateOK, RefusalAhead, LogoutOK, PairOK, ClockOK, SessionOf, IsActive
<1> QED
  BY <1>3, CommitKeepsRowsInTime, CommitKeepsLoginIntact, CommitAnswers DEF SafetyInv

-----------------------------------------------------------------------------
(* The theorems.                                                           *)

LEMMA NextKeepsSafety == SafetyInv /\ [Next]_vars => SafetyInv'
<1> SUFFICES ASSUME SafetyInv, [Next]_vars PROVE SafetyInv'
  OBVIOUS
<1>1. IInv'
  BY NextKeepsInvariant DEF SafetyInv
<1>2. ASSUME NEW r \in Requests, Step(r) PROVE SafetyInv'
  BY <1>1, <1>2, LoginKeepsSafety, BeginKeepsSafety, RefreshReadsKeepSafety,
     RefreshIssueKeepsSafety, RotationKeepsSafety, LogoutKeepsSafety, CommitKeepsSafety
     DEF Step
<1>3. ASSUME NEW r \in Requests, Abort(r) PROVE SafetyInv'
  BY <1>1, <1>3, RejectKeepsSafety DEF Abort
<1> QED
  BY <1>1, <1>2, <1>3, StartKeepsSafety, EnvironmentKeepsSafety DEF Next

LEMMA InitEstablishesSafety == Init => SafetyInv
<1> USE AuthAssumption, TokenAssumption
<1> SUFFICES ASSUME Init PROVE SafetyInv
  OBVIOUS
<1>1. \A r \in Requests : Knows(pc[r], req[r])
  BY NoRequestKnows DEF Init
<1>2. RowsInTime /\ LoginIntact
  BY DEF Init, RowsInTime, LoginIntact, Stored
<1>3. LateNeverSucceeds /\ LogoutCloses /\ NoClockViolation
  BY DEF Init, NoReply, LateNeverSucceeds, LogoutCloses, NoClockViolation
<1> QED
  BY <1>1, <1>2, <1>3, InitEstablishesInvariant DEF SafetyInv

\* What requests learn, and what they answer, in every reachable state.
THEOREM SafetyInvariance == Spec => []SafetyInv
  BY InitEstablishesSafety, NextKeepsSafety, PTL DEF Spec

\* What committed state ruled out when a request started is never granted, however its
\* reads interleave with commits of others (service.go:60-245).
THEOREM NoLateSuccess == Spec => []LateNeverSucceeds
<1>1. SafetyInv => LateNeverSucceeds
  BY DEF SafetyInv
<1> QED
  BY <1>1, SafetyInvariance, PTL

\* A logout that was answered has revoked its token and closed its session, whoever else
\* was revoking or rotating them.
THEOREM LogoutsClose == Spec => []LogoutCloses
<1>1. SafetyInv => LogoutCloses
  BY DEF SafetyInv
<1> QED
  BY <1>1, SafetyInvariance, PTL

\* Every session has exactly the one token it began with: no login commits by half.
THEOREM LoginIsAllOrNothing == Spec => []LoginIntact
<1>1. SafetyInv => LoginIntact
  BY DEF SafetyInv
<1> QED
  BY <1>1, SafetyInvariance, PTL

\* The CHECK constraints on last_used_at and revoked_at refuse no refresh and no logout,
\* as long as the database's clock is not ahead of the server's.
THEOREM NoConstraintOnTimes ==
    ASSUME DBAhead <= 0
    PROVE  Spec => []NoClockViolation
<1>1. SafetyInv => NoClockViolation
  BY DEF SafetyInv
<1> QED
  BY <1>1, SafetyInvariance, PTL

\* Whole seconds do not overtake the ticks they are cut from.
LEMMA UnixMonotone == \A a, b \in Int : a <= b => Unix(a) <= Unix(b)
  BY TokenAssumption DEF Unix

\* No access token in a client's hands verifies after its session has ended, and no
\* refresh token outlives its session (token.go:95-190).
THEOREM TokensEndWithSession == Spec => []SessionWindow
<1>1. ASSUME SafetyInv PROVE SessionWindow
  <2> SUFFICES ASSUME NEW t \in TokenIDs, wallet[t] # Null
               PROVE  /\ VerifyAccessToken(wallet[t], now) =>
                             now < sessions[tokens[t].session].expires
                      /\ tokens[t].expires <= sessions[tokens[t].session].expires
    BY DEF SessionWindow
  <2>1. Stored(t) /\ IInv /\ RowsInTime
    BY <1>1 DEF SafetyInv, IInv, TablesOK, References
  <2>2. /\ sessions[tokens[t].session] \in SessionRow /\ wallet[t] \in Pairs /\ now \in Int
    BY <2>1, RowsThere DEF IInv, TypeOK
  <2>3. sessions[tokens[t].session].expires \in Int /\ wallet[t].accessExpiresAt \in Int
    BY <2>2 DEF SessionRow, Pairs
  <2>4. ASSUME VerifyAccessToken(wallet[t], now)
        PROVE  now < wallet[t].accessExpiresAt
    <3>1. Unix(wallet[t].accessExpiresAt) > Unix(now)
      BY <2>4 DEF VerifyAccessToken, ValidAccessTokenClaims, AccessTokenClaims
    <3>2. Unix(wallet[t].accessExpiresAt) \in Int /\ Unix(now) \in Int
      BY <2>2, <2>3, TokenAssumption DEF Unix
    <3> QED
      BY <2>2, <2>3, <3>1, <3>2, UnixMonotone
  <2> QED
    BY <2>1, <2>2, <2>3, <2>4 DEF RowsInTime
<1> QED
  BY <1>1, SafetyInvariance, PTL
================================================================================
