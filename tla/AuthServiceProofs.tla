-------------------------- MODULE AuthServiceProofs --------------------------
(***************************************************************************)
(* Proofs about AuthService: IInv (AuthServiceInvariant) is inductive, and *)
(* with it the specification keeps its types and its safety properties,    *)
(* for any sets of users, requests and ids, any pool size, any clock skew  *)
(* and any token lifetimes.                                                *)
(***************************************************************************)
EXTENDS AuthServiceInvariant, TLAPS

-----------------------------------------------------------------------------
(* A request that moves on within its operation.  The tables stay as they  *)
(* are, so only what is said of this request has to be shown again.        *)

\* The ids in q were drawn before by request r, or are drawn now.
DrawnBy(r, q) ==
    /\ q.newToken = Null \/ q.newToken = req[r].newToken \/ q.newToken \in FreshTokens
    /\ q.op = "login" =>
           \/ q.session = Null
           \/ q.session \in FreshSessions
           \/ req[r].op = "login" /\ q.session = req[r].session

\* A lock somebody holds stays with its holder.
LocksKept ==
    /\ rowLock' \in [Rows -> Requests \cup {Null}]
    /\ \A x \in Rows : rowLock[x] # Null => rowLock'[x] = rowLock[x]

\* Moving a request to a label with locals that fit it keeps the invariant.
LEMMA MoveKeepsInvariant ==
    ASSUME IInv, NEW r \in Requests, NEW label \in OutsideTx \cup InsideTx,
           NEW q \in Request, Move(r, label, q), LocksKept,
           LocalsOK(label, q), RowsOK(label, q), LockOK(r, label, q)', DrawnBy(r, q)
    PROVE  IInv'
<1> USE AuthAssumption, TokenAssumption
<1>1. /\ pc' = [pc EXCEPT ![r] = label] /\ req' = [req EXCEPT ![r] = q]
      /\ reply' = NoReply
      /\ UNCHANGED <<now, sessions, tokens, wallet, userStatus>>
  BY DEF Move, Goto, tables
<1>2. TypeOK'
  <2>1. NoReply \in Reply
    BY DEF NoReply, Reply, Operations, Answers
  <2> QED
    BY <1>1, <2>1 DEF IInv, TypeOK, LocksKept
<1>3. ASSUME NEW p \in Requests
      PROVE  /\ LocalsOK(pc[p], req[p])' /\ RowsOK(pc[p], req[p])'
             /\ LockOK(p, pc[p], req[p])'
  <2>1. CASE p = r
    <3>1. pc'[p] = label /\ req'[p] = q
      BY <1>1, <2>1 DEF IInv, TypeOK
    <3>2. LocalsOK(pc[p], req[p])'
      BY <3>1 DEF LocalsOK
    <3>3. RowsOK(pc[p], req[p])'
      BY <3>1, <1>1 DEF RowsOK, Stored, Spendable
    <3>4. LockOK(p, pc[p], req[p])'
      BY <3>1, <2>1 DEF LockOK
    <3> QED
      BY <3>2, <3>3, <3>4
  <2>2. CASE p # r
    <3>1. pc'[p] = pc[p] /\ req'[p] = req[p]
      BY <1>1, <2>2 DEF IInv, TypeOK
    <3>2. LocalsOK(pc[p], req[p])'
      BY <3>1 DEF LocalsOK, IInv, RequestsOK
    <3>3. RowsOK(pc[p], req[p])'
      BY <3>1, <1>1 DEF RowsOK, Stored, Spendable, IInv, RequestsOK
    <3>4. LockOK(p, pc[p], req[p])'
      <4>1. req[p] \in Request
        BY DEF IInv, TypeOK
      <4>2. req[p].token # Null => req[p].token \in Rows
        BY <4>1 DEF Request, Rows
      <4> QED
        BY <3>1, <4>2 DEF LockOK, IInv, RequestsOK, LocksKept, Rows
    <3> QED
      BY <3>2, <3>3, <3>4
  <2> QED
    BY <2>1, <2>2
<1>4. DrawnApart'
  <2>1. \A p \in Requests : req'[p] = IF p = r THEN q ELSE req[p]
    BY <1>1 DEF IInv, TypeOK
  <2> QED
    BY <2>1 DEF DrawnApart, DrawnBy, FreshTokens, FreshSessions, IInv
<1>5. TablesOK'
  BY <1>1 DEF IInv, TablesOK, References, OneSpendableToken, RotationIntact,
              Stored, Spendable, Successors
<1>6. NoUniqueViolation'
  BY <1>1 DEF NoUniqueViolation, NoReply
<1> QED
  BY <1>2, <1>3, <1>4, <1>5, <1>6 DEF IInv, RequestsOK

-----------------------------------------------------------------------------
(* A request that ends with an error: nothing it wrote survives. *)

\* A request that ends with an error keeps the invariant: its locks and its
\* uncommitted statements go with it.
LEMMA RejectKeepsInvariant ==
    ASSUME IInv, NEW r \in Requests, NEW answer \in Answers,
           answer # "uniqueViolation", Reject(r, answer)
    PROVE  IInv'
<1> USE AuthAssumption, TokenAssumption
<1>1. /\ pc' = [pc EXCEPT ![r] = "idle"] /\ req' = [req EXCEPT ![r] = NoRequest]
      /\ reply' = [op |-> req[r].op, token |-> req[r].token, late |-> req[r].late,
                   answer |-> answer]
      /\ rowLock' = LocksLeft(r)
      /\ UNCHANGED <<now, sessions, tokens, wallet, userStatus>>
  BY DEF Reject, Finish, Goto, tables
<1>2. NoRequest \in Request /\ "idle" \in OutsideTx
  BY DEF NoRequest, Request, Operations, OutsideTx
<1>3. TypeOK'
  <2>1. reply' \in Reply
    BY <1>1 DEF IInv, TypeOK, Request, Reply
  <2>2. rowLock' \in [Rows -> Requests \cup {Null}]
    BY <1>1 DEF IInv, TypeOK, LocksLeft
  <2> QED
    BY <1>1, <1>2, <2>1, <2>2 DEF IInv, TypeOK
<1>4. ASSUME NEW p \in Requests
      PROVE  /\ LocalsOK(pc[p], req[p])' /\ RowsOK(pc[p], req[p])'
             /\ LockOK(p, pc[p], req[p])'
  <2>1. CASE p = r
    <3>1. pc'[p] = "idle" /\ req'[p] = NoRequest
      BY <1>1, <2>1 DEF IInv, TypeOK
    <3>2. LocalsOK("idle", NoRequest)
      BY DEF LocalsOK, NoRequest, LabelsOf, WrittenAt, AfterLookup
    <3>3. RowsOK(pc[p], req[p])' /\ LockOK(p, pc[p], req[p])'
      BY <3>1 DEF RowsOK, LockOK, NoRequest
    <3> QED
      BY <3>1, <3>2, <3>3 DEF LocalsOK
  <2>2. CASE p # r
    <3>1. pc'[p] = pc[p] /\ req'[p] = req[p]
      BY <1>1, <2>2 DEF IInv, TypeOK
    <3>2. LocalsOK(pc[p], req[p])'
      BY <3>1 DEF LocalsOK, IInv, RequestsOK
    <3>3. RowsOK(pc[p], req[p])'
      BY <3>1, <1>1 DEF RowsOK, Stored, Spendable, IInv, RequestsOK
    <3>4. LockOK(p, pc[p], req[p])'
      <4>1. req[p].token # Null => req[p].token \in Rows
        BY DEF IInv, TypeOK, Request, Rows
      <4> QED
        BY <1>1, <2>2, <3>1, <4>1 DEF LockOK, IInv, RequestsOK, LocksLeft
    <3> QED
      BY <3>2, <3>3, <3>4
  <2> QED
    BY <2>1, <2>2
<1>5. DrawnApart'
  <2>1. \A p \in Requests : req'[p] = IF p = r THEN NoRequest ELSE req[p]
    BY <1>1 DEF IInv, TypeOK
  <2> QED
    BY <2>1 DEF DrawnApart, NoRequest, IInv
<1>6. TablesOK'
  BY <1>1 DEF IInv, TablesOK, References, OneSpendableToken, RotationIntact,
              Stored, Spendable, Successors
<1>7. NoUniqueViolation'
  BY <1>1 DEF NoUniqueViolation
<1> QED
  BY <1>3, <1>4, <1>5, <1>6, <1>7 DEF IInv, RequestsOK

-----------------------------------------------------------------------------
(* The two ways to move, without and with a new lock. *)

\* A move that takes no lock, to locals that fit the label.
LEMMA ContinueKeepsInvariant ==
    ASSUME IInv, NEW r \in Requests, NEW label \in OutsideTx \cup InsideTx,
           NEW q \in Request, Continue(r, label, q),
           LocalsOK(label, q), RowsOK(label, q), LockOK(r, label, q), DrawnBy(r, q)
    PROVE  IInv'
<1>1. Move(r, label, q) /\ UNCHANGED rowLock
  BY DEF Continue
<1>2. LocksKept
  BY <1>1 DEF LocksKept, IInv, TypeOK
<1>3. LockOK(r, label, q)'
  BY <1>1 DEF LockOK
<1> QED
  BY <1>1, <1>2, <1>3, MoveKeepsInvariant

\* A move that takes the lock of a free row, or of one it has already.
LEMMA LockingKeepsInvariant ==
    ASSUME IInv, NEW r \in Requests, NEW label \in OutsideTx \cup InsideTx,
           NEW q \in Request, NEW x \in Rows, CanLock(r, x), Locking(r, x, label, q),
           LocalsOK(label, q), RowsOK(label, q), DrawnBy(r, q),
           q.token = x \/ LockOK(r, label, q)
    PROVE  IInv'
<1>1. Move(r, label, q) /\ rowLock' = [rowLock EXCEPT ![x] = r]
  BY DEF Locking, Lock
<1>2. LocksKept
  BY <1>1 DEF LocksKept, IInv, TypeOK, CanLock
<1>3. LockOK(r, label, q)'
  <2>1. q.token # Null => q.token \in Rows
    BY DEF Request, Rows
  <2> QED
    BY <1>1, <2>1 DEF LockOK, IInv, TypeOK
<1> QED
  BY <1>1, <1>2, <1>3, MoveKeepsInvariant

-----------------------------------------------------------------------------
(* What a request knows at its label, unfolded once. *)

\* The invariant of one request, unfolded.
LEMMA AtLabel ==
    ASSUME IInv, NEW r \in Requests
    PROVE  /\ req[r] \in Request
           /\ pc[r] \in OutsideTx \cup InsideTx
           /\ LocalsOK(pc[r], req[r])
           /\ RowsOK(pc[r], req[r])
           /\ LockOK(r, pc[r], req[r])
           /\ DrawnBy(r, req[r])
  BY DEF IInv, TypeOK, RequestsOK, DrawnBy

\* The row of a request's token, and of that token's session.
LEMMA RowsThere ==
    ASSUME IInv, NEW t \in TokenIDs, Stored(t)
    PROVE  /\ tokens[t] \in TokenRow
           /\ tokens[t].session \in SessionIDs
           /\ sessions[tokens[t].session] \in SessionRow
<1>1. tokens[t] \in TokenRow
  BY DEF IInv, TypeOK, Stored
<1>2. tokens[t].session \in SessionIDs
  BY <1>1 DEF TokenRow
<1>3. sessions[tokens[t].session] # Null
  BY DEF IInv, TablesOK, References
<1> QED
  BY <1>1, <1>2, <1>3 DEF IInv, TypeOK

-----------------------------------------------------------------------------
(* Starting a request. *)

\* A fresh request fits its first label.
LEMMA StartKeepsInvariant ==
    ASSUME IInv, NEW r \in Requests, Start(r)
    PROVE  IInv'
<1> USE AuthAssumption, TokenAssumption
<1>0. NoRequest \in Request
  BY DEF NoRequest, Request, Operations
<1>1. ASSUME NEW u \in Users, StartLogin(r, u)
      PROVE  IInv'
  <2> DEFINE q == [NoRequest EXCEPT !.op = "login", !.user = u, !.late = ~IsActive(u)]
  <2>1. q \in Request
    BY <1>0 DEF Request, Operations, IsActive
  <2>2. Continue(r, "readUser", q)
    BY <1>1 DEF StartLogin, Continue
  <2>3. LocalsOK("readUser", q)
    BY DEF LocalsOK, LabelsOf, WrittenAt, AfterLookup, NoRequest
  <2>4. RowsOK("readUser", q) /\ LockOK(r, "readUser", q) /\ DrawnBy(r, q)
    BY DEF RowsOK, LockOK, DrawnBy, AfterLookup, NoRequest
  <2> HIDE DEF q
  <2>5. "readUser" \in OutsideTx
    BY DEF OutsideTx
  <2> QED
    BY <2>1, <2>2, <2>3, <2>4, <2>5, ContinueKeepsInvariant
<1>2. ASSUME NEW t \in TokenIDs \cup {Null}, t # Null => wallet[t] # Null,
             NEW op \in {"refresh", "logout"}, NEW late \in BOOLEAN,
             Continue(r, "begin", [NoRequest EXCEPT !.op = op, !.token = t, !.at = now,
                                                    !.late = late])
      PROVE  IInv'
  <2> DEFINE q == [NoRequest EXCEPT !.op = op, !.token = t, !.at = now, !.late = late]
  <2>1. q \in Request
    <3>1. now \in Int
      BY DEF IInv, TypeOK
    <3>2. [NoRequest EXCEPT !.op = op, !.token = t, !.at = now] \in Request
      BY <1>0, <1>2, <3>1 DEF Request, Operations
    <3> QED
      BY <1>2, <3>1, <3>2 DEF NoRequest, Request, Operations
  <2>2. Continue(r, "begin", q)
    BY <1>2
  <2>3. LocalsOK("begin", q)
    BY <1>2 DEF LocalsOK, LabelsOf, WrittenAt, AfterLookup, NoRequest
  <2>4. t # Null => Stored(t)
    BY <1>2 DEF IInv, TablesOK, References
  <2>5. RowsOK("begin", q) /\ LockOK(r, "begin", q) /\ DrawnBy(r, q)
    BY <1>2, <2>4 DEF RowsOK, LockOK, DrawnBy, AfterLookup, NoRequest
  <2> HIDE DEF q
  <2>6. "begin" \in OutsideTx
    BY DEF OutsideTx
  <2> QED
    BY <2>1, <2>2, <2>3, <2>5, <2>6, ContinueKeepsInvariant
<1>3. ASSUME NEW t \in TokenIDs \cup {Null}, t # Null => wallet[t] # Null,
             StartRefresh(r, t)
      PROVE  IInv'
  <2>1. RefusedFromStart(t) \in BOOLEAN
    BY DEF RefusedFromStart, IsActive
  <2>2. Continue(r, "begin", [NoRequest EXCEPT !.op = "refresh", !.token = t, !.at = now,
                                               !.late = RefusedFromStart(t)])
    BY <1>3 DEF StartRefresh, Continue
  <2> QED
    BY <1>2, <1>3, <2>1, <2>2
<1>4. ASSUME NEW t \in TokenIDs \cup {Null}, t # Null => wallet[t] # Null,
             StartLogout(r, t)
      PROVE  IInv'
  <2>1. Continue(r, "begin", [NoRequest EXCEPT !.op = "logout", !.token = t, !.at = now,
                                               !.late = FALSE])
    BY <1>4 DEF StartLogout, Continue
  <2> QED
    BY <1>2, <1>4, <2>1
<1> QED
  BY <1>1, <1>3, <1>4 DEF Start

-----------------------------------------------------------------------------
(* Which operation a label belongs to, and the statements it has run there. *)

\* A label and its locals tell the operation.
LEMMA OperationAt ==
    ASSUME IInv, NEW r \in Requests
    PROVE  /\ pc[r] = "idle" <=> req[r].op = "none"
           /\ pc[r] \in {"readUser", "issue", "createSession"} => req[r].op = "login"
           /\ pc[r] \in {"readUserInTx", "issueInTx", "markTokenUsed", "markSessionUsed"}
                  => req[r].op = "refresh"
           /\ pc[r] \in {"revokeToken", "revokeSession"} => req[r].op = "logout"
           /\ pc[r] \in {"lookup", "readSession"} => req[r].op \in {"refresh", "logout"}
           /\ pc[r] = "createToken" => req[r].op \in {"login", "refresh"}
           /\ pc[r] \in {"begin", "commit"} => req[r].op \in {"login", "refresh", "logout"}
<1>1. req[r].op \in Operations /\ pc[r] \in LabelsOf(req[r].op)
  BY AtLabel DEF LocalsOK, Request
<1>2. CASE req[r].op = "none"
  BY <1>1, <1>2 DEF LabelsOf
<1>3. CASE req[r].op = "login"
  BY <1>1, <1>3 DEF LabelsOf
<1>4. CASE req[r].op = "refresh"
  BY <1>1, <1>4 DEF LabelsOf
<1>5. CASE req[r].op = "logout"
  BY <1>1, <1>5 DEF LabelsOf
<1> QED
  BY <1>1, <1>2, <1>3, <1>4, <1>5 DEF Operations

\* The statements a login has run, label by label.
LEMMA WrittenByLogin ==
    /\ \A label \in {"readUser", "issue", "begin", "createSession"} :
           WrittenAt("login", label) = {}
    /\ WrittenAt("login", "createToken") = {"createSession"}
    /\ WrittenAt("login", "commit") = {"createSession", "createToken"}
  BY DEF WrittenAt

\* The statements a refresh has run, label by label.
LEMMA WrittenByRefresh ==
    /\ \A label \in {"begin", "lookup", "readSession", "readUserInTx", "issueInTx",
                     "markTokenUsed"} :
           WrittenAt("refresh", label) = {}
    /\ WrittenAt("refresh", "createToken") = {"markTokenUsed"}
    /\ WrittenAt("refresh", "markSessionUsed") = {"markTokenUsed", "createToken"}
    /\ WrittenAt("refresh", "commit") = {"markTokenUsed", "createToken", "markSessionUsed"}
  BY DEF WrittenAt

-----------------------------------------------------------------------------
(* The steps of a login. *)

\* Locals stay locals when a statement is added to them.
LEMMA WroteIsRequest ==
    ASSUME NEW q \in Request, NEW statement \in Statements
    PROVE  /\ Wrote(q, statement) \in Request
           /\ Wrote(q, statement).writes = q.writes \cup {statement}
           /\ \A f \in {"op", "user", "session", "token", "pair", "newToken"} :
                  Wrote(q, statement)[f] = q[f]
  BY DEF Wrote, Request

\* A login goes on with an active user, or is answered.
LEMMA LoginReadUserKeepsInvariant ==
    ASSUME IInv, NEW r \in Requests, LoginReadUser(r)
    PROVE  IInv'
<1> USE AuthAssumption, TokenAssumption
<1>1. ASSUME NEW a \in {"invalidCredentials", "disabled"}, Reject(r, a)
      PROVE  IInv'
  <2>1. a \in Answers /\ a # "uniqueViolation"
    BY DEF Answers
  <2> QED
    BY <1>1, <2>1, RejectKeepsInvariant
<1>2. CASE Continue(r, "issue", req[r])
  <2>1. pc[r] = "readUser" /\ req[r].op = "login"
    BY OperationAt DEF LoginReadUser
  <2>2. LocalsOK("issue", req[r])
    BY <2>1, AtLabel, WrittenByLogin DEF LocalsOK, LabelsOf
  <2>3. RowsOK("issue", req[r]) /\ LockOK(r, "issue", req[r])
    BY <2>1, AtLabel DEF RowsOK, LockOK, AfterLookup
  <2>4. "issue" \in OutsideTx
    BY DEF OutsideTx
  <2> QED
    BY <1>2, <2>2, <2>3, <2>4, AtLabel, ContinueKeepsInvariant
<1> QED
  BY <1>1, <1>2 DEF LoginReadUser

\* A login draws ids that nobody else has.
LEMMA LoginIssueKeepsInvariant ==
    ASSUME IInv, NEW r \in Requests, LoginIssue(r)
    PROVE  IInv'
<1> USE AuthAssumption, TokenAssumption
<1>1. CASE Reject(r, "error")
  BY <1>1, RejectKeepsInvariant DEF Answers
<1>2. ASSUME NEW s \in FreshSessions, NEW t \in FreshTokens,
             Continue(r, "begin", [req[r] EXCEPT !.session = s, !.newToken = t,
                                                 !.pair = IssueTokenPair(now, Null)])
      PROVE  IInv'
  <2> DEFINE q == [req[r] EXCEPT !.session = s, !.newToken = t,
                                 !.pair = IssueTokenPair(now, Null)]
  <2>1. IssueTokenPair(now, Null) \in Pairs
    BY DEF IssueTokenPair, Pairs, AccessExpiry, RefreshExpiry, CapToSession, IInv, TypeOK
  <2>2. s \in SessionIDs /\ sessions[s] = Null /\ t \in TokenIDs /\ tokens[t] = Null
    BY DEF FreshSessions, FreshTokens
  <2>3. q \in Request /\ q.op = req[r].op /\ q.user = req[r].user
        /\ q.token = req[r].token /\ q.writes = req[r].writes
        /\ q.session = s /\ q.newToken = t /\ q.pair = IssueTokenPair(now, Null)
    BY <2>1, <2>2, AtLabel DEF Request
  <2> HIDE DEF q
  <2>4. pc[r] = "issue" /\ req[r].op = "login"
    BY OperationAt DEF LoginIssue
  <2>5. LocalsOK("begin", q)
    <3>1. s # Null /\ t # Null /\ IssueTokenPair(now, Null) # Null
      BY <2>1, <2>2 DEF Rows
    <3>2. req[r].writes = {} /\ req[r].token = Null /\ req[r].user # Null
      BY <2>4, AtLabel, WrittenByLogin DEF LocalsOK
    <3>3. "begin" \in LabelsOf("login")
      BY DEF LabelsOf
    <3> QED
      BY <2>4, <2>3, <3>1, <3>2, <3>3, WrittenByLogin DEF LocalsOK
  <2>6. RowsOK("begin", q) /\ LockOK(r, "begin", q) /\ DrawnBy(r, q)
    BY <2>2, <2>3, AtLabel DEF RowsOK, LockOK, DrawnBy, AfterLookup
  <2>7. "begin" \in OutsideTx /\ Continue(r, "begin", q)
    BY <1>2 DEF OutsideTx, q
  <2> QED
    BY <2>3, <2>5, <2>6, <2>7, ContinueKeepsInvariant
<1> QED
  BY <1>1, <1>2 DEF LoginIssue

\* The insert of a session waits for the commit.
LEMMA CreateAuthSessionKeepsInvariant ==
    ASSUME IInv, NEW r \in Requests, CreateAuthSession(r)
    PROVE  IInv'
<1> USE AuthAssumption, TokenAssumption
<1>1. CASE Reject(r, "checkViolation")
  BY <1>1, RejectKeepsInvariant DEF Answers
<1>2. CASE Continue(r, "createToken", Wrote(req[r], "createSession"))
  <2> DEFINE q == Wrote(req[r], "createSession")
  <2>1. /\ q \in Request /\ q.writes = req[r].writes \cup {"createSession"}
        /\ q.op = req[r].op /\ q.user = req[r].user /\ q.token = req[r].token
        /\ q.session = req[r].session /\ q.pair = req[r].pair
        /\ q.newToken = req[r].newToken
    BY AtLabel, WroteIsRequest DEF Statements
  <2> HIDE DEF q
  <2>2. pc[r] = "createSession" /\ req[r].op = "login"
    BY OperationAt DEF CreateAuthSession
  <2>3. LocalsOK("createToken", q)
    BY <2>2, <2>1, AtLabel, WrittenByLogin DEF LocalsOK, LabelsOf
  <2>4. RowsOK("createToken", q) /\ LockOK(r, "createToken", q) /\ DrawnBy(r, q)
    BY <2>2, <2>1, AtLabel DEF RowsOK, LockOK, DrawnBy, LocalsOK
  <2>5. "createToken" \in InsideTx /\ Continue(r, "createToken", q)
    BY <1>2 DEF InsideTx, q
  <2> QED
    BY <2>1, <2>3, <2>4, <2>5, ContinueKeepsInvariant
<1> QED
  BY <1>1, <1>2 DEF CreateAuthSession

-----------------------------------------------------------------------------
(* The beginning of a transaction and its first two reads. *)

\* A transaction starts with the locals of its request.
LEMMA BeginKeepsInvariant ==
    ASSUME IInv, NEW r \in Requests, Begin(r)
    PROVE  IInv'
<1> USE AuthAssumption, TokenAssumption
<1> DEFINE label == IF req[r].op = "login" THEN "createSession" ELSE "lookup"
           q == [req[r] EXCEPT !.txAt = DBNow]
<1>1. pc[r] = "begin" /\ req[r].op \in {"login", "refresh", "logout"}
  BY OperationAt DEF Begin
<1>2. /\ q \in Request /\ q.op = req[r].op /\ q.user = req[r].user
      /\ q.token = req[r].token /\ q.writes = req[r].writes /\ q.pair = req[r].pair
      /\ q.session = req[r].session /\ q.newToken = req[r].newToken
  <2>1. DBNow \in Int
    BY DEF DBNow, IInv, TypeOK
  <2> QED
    BY <2>1, AtLabel DEF Request
<1>3. Continue(r, label, q) /\ label \in InsideTx
  BY DEF Begin, InsideTx
<1> HIDE DEF q
<1>4. LocalsOK(label, q)
  <2>1. CASE req[r].op = "login"
    <3>1. /\ req[r].writes = {} /\ req[r].token = Null /\ req[r].user # Null
          /\ req[r].session # Null /\ req[r].newToken # Null /\ req[r].pair # Null
      BY <1>1, <2>1, AtLabel, WrittenByLogin DEF LocalsOK
    <3>2. label \in LabelsOf("login") /\ WrittenAt("login", label) = {}
      BY <2>1, WrittenByLogin DEF LabelsOf
    <3> QED
      BY <1>2, <2>1, <3>1, <3>2 DEF LocalsOK
  <2>2. CASE req[r].op = "refresh"
    <3>1. req[r].writes = {}
      BY <1>1, <2>2, AtLabel, WrittenByRefresh DEF LocalsOK
    <3>2. label = "lookup" /\ label \in LabelsOf("refresh") /\ label \notin AfterLookup
      BY <2>2 DEF LabelsOf, AfterLookup
    <3> QED
      BY <1>2, <2>2, <3>1, <3>2, WrittenByRefresh DEF LocalsOK
  <2>3. CASE req[r].op = "logout"
    BY <1>1, <1>2, <2>3, AtLabel DEF LocalsOK, LabelsOf
  <2> QED
    BY <1>1, <2>1, <2>2, <2>3
<1>5. RowsOK(label, q) /\ LockOK(r, label, q) /\ DrawnBy(r, q)
  BY <1>1, <1>2, AtLabel DEF RowsOK, LockOK, DrawnBy, AfterLookup
<1> QED
  BY <1>2, <1>3, <1>4, <1>5, ContinueKeepsInvariant

\* A refresh that goes on holds the row of a good token.
LEMMA RefreshLookupKeepsInvariant ==
    ASSUME IInv, NEW r \in Requests, RefreshLookup(r)
    PROVE  IInv'
<1> USE AuthAssumption, TokenAssumption
<1>1. CASE Reject(r, "invalidToken")
  BY <1>1, RejectKeepsInvariant DEF Answers
<1>2. CASE /\ req[r].token # Null /\ CanLock(r, req[r].token)
           /\ ValidRefreshTokenState(tokens[req[r].token], req[r].at)
           /\ Locking(r, req[r].token, "readSession", req[r])
  <2>1. pc[r] = "lookup" /\ req[r].op = "refresh"
    BY DEF RefreshLookup
  <2>2. req[r].token \in Rows
    BY <1>2, AtLabel DEF Request, Rows
  <2>3. LocalsOK("readSession", req[r])
    BY <1>2, <2>1, AtLabel, WrittenByRefresh DEF LocalsOK, LabelsOf
  <2>4. RowsOK("readSession", req[r])
    BY <1>2, <2>1, AtLabel DEF RowsOK, Spendable, ValidRefreshTokenState
  <2>5. "readSession" \in InsideTx
    BY DEF InsideTx
  <2> QED
    BY <1>2, <2>2, <2>3, <2>4, <2>5, AtLabel, LockingKeepsInvariant
<1> QED
  BY <1>1, <1>2 DEF RefreshLookup

\* A logout holds the row of its token, whatever its state.
LEMMA LogoutLookupKeepsInvariant ==
    ASSUME IInv, NEW r \in Requests, LogoutLookup(r)
    PROVE  IInv'
<1> USE AuthAssumption, TokenAssumption
<1>1. pc[r] = "lookup" /\ req[r].op = "logout"
  BY DEF LogoutLookup
<1>2. CASE req[r].token = Null /\ Continue(r, "commit", req[r])
  <2>1. LocalsOK("commit", req[r])
    BY <1>1, <1>2, AtLabel DEF LocalsOK, LabelsOf
  <2>2. RowsOK("commit", req[r]) /\ LockOK(r, "commit", req[r])
    BY <1>1, <1>2, AtLabel DEF RowsOK, LockOK
  <2>3. "commit" \in InsideTx
    BY DEF InsideTx
  <2> QED
    BY <1>2, <2>1, <2>2, <2>3, AtLabel, ContinueKeepsInvariant
<1>3. CASE /\ req[r].token # Null /\ CanLock(r, req[r].token)
           /\ Locking(r, req[r].token, "readSession", req[r])
  <2>1. req[r].token \in Rows
    BY <1>3, AtLabel DEF Request, Rows
  <2>2. LocalsOK("readSession", req[r])
    BY <1>1, <1>3, AtLabel DEF LocalsOK, LabelsOf
  <2>3. RowsOK("readSession", req[r])
    BY <1>1, <1>3, AtLabel DEF RowsOK
  <2>4. "readSession" \in InsideTx
    BY DEF InsideTx
  <2> QED
    BY <1>3, <2>1, <2>2, <2>3, <2>4, AtLabel, LockingKeepsInvariant
<1> QED
  BY <1>2, <1>3 DEF LogoutLookup

\* The locals after the session was read, for a refresh and a logout alike.
LEMMA SessionReadIsRequest ==
    ASSUME IInv, NEW r \in Requests, pc[r] = "readSession"
    PROVE  LET q == SessionRead(r)
           IN  /\ q \in Request /\ q.op = req[r].op /\ q.user = req[r].user
               /\ q.token = req[r].token /\ q.writes = req[r].writes
               /\ q.pair = req[r].pair /\ q.newToken = req[r].newToken
               /\ q.session = tokens[req[r].token].session
               /\ q.token \in TokenIDs /\ Stored(q.token)
<1> USE AuthAssumption, TokenAssumption
<1>1. req[r].token \in TokenIDs /\ Stored(req[r].token)
  BY AtLabel, OperationAt DEF LocalsOK, RowsOK, AfterLookup, Request
<1>2. tokens[req[r].token].session \in SessionIDs
  BY <1>1, RowsThere
<1> QED
  BY <1>1, <1>2, AtLabel DEF SessionRead, Request

\* A refresh that goes on knows the session of its token.
LEMMA RefreshReadSessionKeepsInvariant ==
    ASSUME IInv, NEW r \in Requests, RefreshReadSession(r)
    PROVE  IInv'
<1> USE AuthAssumption, TokenAssumption
<1>1. CASE Reject(r, "invalidToken")
  BY <1>1, RejectKeepsInvariant DEF Answers
<1>2. CASE Continue(r, "readUserInTx", SessionRead(r))
  <2> DEFINE q == SessionRead(r)
  <2>1. pc[r] = "readSession" /\ req[r].op = "refresh"
    BY DEF RefreshReadSession
  <2>2. /\ q \in Request /\ q.op = req[r].op /\ q.user = req[r].user
        /\ q.token = req[r].token /\ q.writes = req[r].writes
        /\ q.pair = req[r].pair /\ q.newToken = req[r].newToken
        /\ q.session = tokens[req[r].token].session
    BY <2>1, SessionReadIsRequest
  <2> HIDE DEF q
  <2>3. LocalsOK("readUserInTx", q)
    <3>1. req[r].writes = {} /\ req[r].token # Null
      BY <2>1, AtLabel, WrittenByRefresh DEF LocalsOK, AfterLookup
    <3>2. "readUserInTx" \in LabelsOf("refresh")
      BY DEF LabelsOf
    <3> QED
      BY <2>1, <2>2, <3>1, <3>2, WrittenByRefresh DEF LocalsOK
  <2>4. RowsOK("readUserInTx", q) /\ LockOK(r, "readUserInTx", q) /\ DrawnBy(r, q)
    BY <2>1, <2>2, AtLabel DEF RowsOK, LockOK, DrawnBy, AfterLookup
  <2>5. "readUserInTx" \in InsideTx /\ Continue(r, "readUserInTx", q)
    BY <1>2 DEF InsideTx, q
  <2> QED
    BY <2>2, <2>3, <2>4, <2>5, ContinueKeepsInvariant
<1> QED
  BY <1>1, <1>2 DEF RefreshReadSession

\* A logout knows the session of its token.
LEMMA LogoutReadSessionKeepsInvariant ==
    ASSUME IInv, NEW r \in Requests, LogoutReadSession(r)
    PROVE  IInv'
<1> USE AuthAssumption, TokenAssumption
<1> DEFINE q == SessionRead(r)
<1>1. pc[r] = "readSession" /\ req[r].op = "logout"
  BY DEF LogoutReadSession
<1>2. /\ q \in Request /\ q.op = req[r].op /\ q.user = req[r].user
      /\ q.token = req[r].token /\ q.writes = req[r].writes
      /\ q.pair = req[r].pair /\ q.newToken = req[r].newToken
      /\ q.session = tokens[req[r].token].session /\ q.token \in TokenIDs
  BY <1>1, SessionReadIsRequest
<1>3. "revokeToken" \in InsideTx /\ Continue(r, "revokeToken", q)
  BY DEF LogoutReadSession, InsideTx
<1> HIDE DEF q
<1>4. LocalsOK("revokeToken", q)
  BY <1>1, <1>2, AtLabel DEF LocalsOK, LabelsOf, Rows
<1>5. RowsOK("revokeToken", q) /\ LockOK(r, "revokeToken", q) /\ DrawnBy(r, q)
  BY <1>1, <1>2, AtLabel DEF RowsOK, LockOK, DrawnBy, AfterLookup
<1> QED
  BY <1>2, <1>3, <1>4, <1>5, ContinueKeepsInvariant

-----------------------------------------------------------------------------
(* The rest of a refresh. *)

\* From its lookup on, a refresh holds a good token nobody else can touch.
LEMMA RefreshHoldsGoodToken ==
    ASSUME IInv, NEW r \in Requests, req[r].op = "refresh", pc[r] \in AfterLookup
    PROVE  /\ req[r].token \in TokenIDs /\ req[r].token # Null
           /\ Spendable(req[r].token) /\ Stored(req[r].token)
           /\ rowLock[req[r].token] = r
           /\ pc[r] # "readSession" => req[r].session = tokens[req[r].token].session
           /\ tokens[req[r].token].session \in SessionIDs
           /\ sessions[tokens[req[r].token].session] \in SessionRow
<1>1. req[r].token # Null /\ Spendable(req[r].token)
  BY AtLabel DEF LocalsOK, RowsOK
<1>2. req[r].token \in TokenIDs /\ Stored(req[r].token)
  BY <1>1, AtLabel DEF Request, Spendable
<1> QED
  BY <1>1, <1>2, AtLabel, RowsThere DEF RowsOK, LockOK

\* A refresh that moves on with the ids and the token it has.
LEMMA RefreshMoves ==
    ASSUME IInv, NEW r \in Requests, req[r].op = "refresh", pc[r] \in AfterLookup,
           pc[r] # "readSession", NEW label \in AfterLookup \ {"readSession"},
           label \in LabelsOf("refresh"), NEW q \in Request,
           q.op = "refresh", q.token = req[r].token, q.session = req[r].session,
           q.newToken = req[r].newToken \/ q.newToken \in FreshTokens,
           q.writes = WrittenAt("refresh", label),
           label \in {"markTokenUsed", "createToken", "markSessionUsed", "commit"}
               => q.newToken # Null /\ q.pair # Null
    PROVE  /\ LocalsOK(label, q) /\ RowsOK(label, q) /\ LockOK(r, label, q)
           /\ DrawnBy(r, q)
<1>1. LocalsOK(label, q)
  BY RefreshHoldsGoodToken DEF LocalsOK
<1>2. q.newToken # Null => tokens[q.newToken] = Null
  BY AtLabel DEF RowsOK, FreshTokens
<1>3. RowsOK(label, q)
  BY <1>2, RefreshHoldsGoodToken DEF RowsOK
<1>4. LockOK(r, label, q)
  BY RefreshHoldsGoodToken DEF LockOK
<1> QED
  BY <1>1, <1>3, <1>4 DEF DrawnBy

\* A refresh goes on with an active user.
LEMMA RefreshReadUserKeepsInvariant ==
    ASSUME IInv, NEW r \in Requests, RefreshReadUser(r)
    PROVE  IInv'
<1> USE AuthAssumption, TokenAssumption
<1> DEFINE u == sessions[req[r].session].user
           q == [req[r] EXCEPT !.user = u]
<1>1. CASE Reject(r, "disabled")
  BY <1>1, RejectKeepsInvariant DEF Answers
<1>2. CASE Continue(r, "issueInTx", q)
  <2>1. pc[r] = "readUserInTx" /\ req[r].op = "refresh" /\ pc[r] \in AfterLookup
    BY OperationAt DEF RefreshReadUser, AfterLookup
  <2>2. u \in Users
    BY <2>1, RefreshHoldsGoodToken DEF SessionRow
  <2>3. /\ q \in Request /\ q.op = req[r].op /\ q.token = req[r].token
        /\ q.writes = req[r].writes /\ q.session = req[r].session
        /\ q.pair = req[r].pair /\ q.newToken = req[r].newToken
    BY <2>2, AtLabel DEF Request
  <2>4. /\ "issueInTx" \in InsideTx /\ "issueInTx" \in LabelsOf("refresh")
        /\ "issueInTx" \in AfterLookup
    BY DEF InsideTx, LabelsOf, AfterLookup
  <2>5. req[r].writes = WrittenAt("refresh", "issueInTx")
    BY <2>1, AtLabel, WrittenByRefresh DEF LocalsOK
  <2> HIDE DEF q
  <2>6. /\ LocalsOK("issueInTx", q) /\ RowsOK("issueInTx", q)
        /\ LockOK(r, "issueInTx", q) /\ DrawnBy(r, q)
    BY <2>1, <2>3, <2>4, <2>5, RefreshMoves
  <2> QED
    BY <1>2, <2>3, <2>4, <2>6, ContinueKeepsInvariant
<1> QED
  BY <1>1, <1>2 DEF RefreshReadUser

\* A refresh draws a token id that nobody else has.
LEMMA RefreshIssueKeepsInvariant ==
    ASSUME IInv, NEW r \in Requests, RefreshIssue(r)
    PROVE  IInv'
<1> USE AuthAssumption, TokenAssumption
<1> DEFINE expires == sessions[req[r].session].expires
<1>1. ASSUME NEW a \in {"invalidSubject", "error"}, Reject(r, a)
      PROVE  IInv'
  <2>1. a \in Answers /\ a # "uniqueViolation"
    BY DEF Answers
  <2> QED
    BY <1>1, <2>1, RejectKeepsInvariant
<1>2. ASSUME NEW t \in FreshTokens,
             Continue(r, "markTokenUsed",
                      [req[r] EXCEPT !.newToken = t, !.pair = IssueTokenPair(now, expires)])
      PROVE  IInv'
  <2> DEFINE q == [req[r] EXCEPT !.newToken = t, !.pair = IssueTokenPair(now, expires)]
  <2>1. pc[r] = "issueInTx" /\ req[r].op = "refresh" /\ pc[r] \in AfterLookup
    BY OperationAt DEF RefreshIssue, AfterLookup
  <2>2. expires \in Int /\ expires # Null
    BY <2>1, RefreshHoldsGoodToken DEF SessionRow
  <2>3. IssueTokenPair(now, expires) \in Pairs /\ IssueTokenPair(now, expires) # Null
    <3>1. AccessExpiry(now, expires) \in Int /\ RefreshExpiry(now, expires) \in Int
      BY <2>2 DEF AccessExpiry, RefreshExpiry, CapToSession, MinTime, IInv, TypeOK
    <3> QED
      BY <3>1 DEF IssueTokenPair, Pairs, IInv, TypeOK
  <2>4. t \in TokenIDs /\ t # Null
    BY DEF FreshTokens, Rows
  <2>5. /\ q \in Request /\ q.op = req[r].op /\ q.token = req[r].token
        /\ q.writes = req[r].writes /\ q.session = req[r].session
        /\ q.pair # Null /\ q.newToken = t
    BY <2>3, <2>4, AtLabel DEF Request
  <2>6. /\ "markTokenUsed" \in InsideTx /\ "markTokenUsed" \in LabelsOf("refresh")
        /\ "markTokenUsed" \in AfterLookup
    BY DEF InsideTx, LabelsOf, AfterLookup
  <2>7. req[r].writes = WrittenAt("refresh", "markTokenUsed")
    BY <2>1, AtLabel, WrittenByRefresh DEF LocalsOK
  <2> HIDE DEF q
  <2>8. /\ LocalsOK("markTokenUsed", q) /\ RowsOK("markTokenUsed", q)
        /\ LockOK(r, "markTokenUsed", q) /\ DrawnBy(r, q)
    BY <2>1, <2>4, <2>5, <2>6, <2>7, RefreshMoves
  <2>9. Continue(r, "markTokenUsed", q)
    BY <1>2 DEF q
  <2> QED
    BY <2>5, <2>6, <2>8, <2>9, ContinueKeepsInvariant
<1> QED
  BY <1>1, <1>2 DEF RefreshIssue

\* The old token is marked under the lock taken by the lookup.
LEMMA MarkRefreshTokenUsedKeepsInvariant ==
    ASSUME IInv, NEW r \in Requests, MarkRefreshTokenUsed(r)
    PROVE  IInv'
<1> USE AuthAssumption, TokenAssumption
<1> DEFINE q == Wrote(req[r], "markTokenUsed")
<1>1. CASE Reject(r, "checkViolation")
  BY <1>1, RejectKeepsInvariant DEF Answers
<1>2. CASE Continue(r, "createToken", q)
  <2>1. pc[r] = "markTokenUsed" /\ req[r].op = "refresh" /\ pc[r] \in AfterLookup
    BY OperationAt DEF MarkRefreshTokenUsed, AfterLookup
  <2>2. /\ q \in Request /\ q.writes = req[r].writes \cup {"markTokenUsed"}
        /\ q.op = req[r].op /\ q.token = req[r].token /\ q.session = req[r].session
        /\ q.pair = req[r].pair /\ q.newToken = req[r].newToken
    BY AtLabel, WroteIsRequest DEF Statements
  <2>3. /\ "createToken" \in InsideTx /\ "createToken" \in LabelsOf("refresh")
        /\ "createToken" \in AfterLookup
    BY DEF InsideTx, LabelsOf, AfterLookup
  <2>4. req[r].writes = {} /\ req[r].newToken # Null /\ req[r].pair # Null
    BY <2>1, AtLabel, WrittenByRefresh DEF LocalsOK
  <2> HIDE DEF q
  <2>5. q.writes = WrittenAt("refresh", "createToken")
    BY <2>2, <2>4, WrittenByRefresh
  <2>6. /\ LocalsOK("createToken", q) /\ RowsOK("createToken", q)
        /\ LockOK(r, "createToken", q) /\ DrawnBy(r, q)
    BY <2>1, <2>2, <2>3, <2>4, <2>5, RefreshMoves
  <2> QED
    BY <1>2, <2>2, <2>3, <2>6, ContinueKeepsInvariant
<1> QED
  BY <1>1, <1>2 DEF MarkRefreshTokenUsed

\* A request about to insert a token never finds one rotated from the same
\* token: a login names none, a refresh holds a token that is still unspent.
LEMMA NotRotatedYet ==
    ASSUME IInv, NEW r \in Requests, pc[r] = "createToken"
    PROVE  ~RotationTaken(req[r].token)
<1>1. CASE req[r].op = "login"
  BY <1>1, AtLabel DEF LocalsOK, RotationTaken
<1>2. CASE req[r].op = "refresh"
  <2>1. req[r].token \in TokenIDs /\ Spendable(req[r].token)
    BY <1>2, RefreshHoldsGoodToken DEF AfterLookup
  <2>2. Successors(req[r].token) = {}
    BY <2>1 DEF IInv, TablesOK, RotationIntact, Spendable
  <2> QED
    BY <2>2 DEF RotationTaken, Successors, Stored
<1> QED
  BY <1>1, <1>2, OperationAt

\* The insert of a token waits for the commit.
LEMMA CreateRefreshTokenKeepsInvariant ==
    ASSUME IInv, NEW r \in Requests, CreateRefreshToken(r)
    PROVE  IInv'
<1> USE AuthAssumption, TokenAssumption
<1> DEFINE label == IF req[r].op = "login" THEN "commit" ELSE "markSessionUsed"
           q == Wrote(req[r], "createToken")
<1>1. pc[r] = "createToken" /\ req[r].op \in {"login", "refresh"}
  BY OperationAt DEF CreateRefreshToken
<1>2. CASE Reject(r, "checkViolation")
  BY <1>2, RejectKeepsInvariant DEF Answers
<1>3. CASE Continue(r, label, q)
  <2>1. /\ q \in Request /\ q.writes = req[r].writes \cup {"createToken"}
        /\ q.op = req[r].op /\ q.token = req[r].token /\ q.session = req[r].session
        /\ q.pair = req[r].pair /\ q.newToken = req[r].newToken /\ q.user = req[r].user
    BY AtLabel, WroteIsRequest DEF Statements
  <2>2. label \in InsideTx
    BY DEF InsideTx
  <2> HIDE DEF q
  <2>3. LocalsOK(label, q) /\ RowsOK(label, q) /\ LockOK(r, label, q) /\ DrawnBy(r, q)
    <3>1. CASE req[r].op = "login"
      <4>1. /\ req[r].writes = {"createSession"} /\ req[r].token = Null
            /\ req[r].user # Null /\ req[r].session # Null
            /\ req[r].newToken # Null /\ req[r].pair # Null
        BY <1>1, <3>1, AtLabel, WrittenByLogin DEF LocalsOK
      <4>2. label = "commit" /\ label \in LabelsOf("login")
        BY <3>1 DEF LabelsOf
      <4>3. LocalsOK(label, q)
        BY <2>1, <3>1, <4>1, <4>2, WrittenByLogin DEF LocalsOK
      <4>4. RowsOK(label, q) /\ LockOK(r, label, q)
        BY <2>1, <3>1, <4>1, AtLabel DEF RowsOK, LockOK
      <4>5. DrawnBy(r, q)
        BY <2>1, <3>1 DEF DrawnBy
      <4> QED
        BY <4>3, <4>4, <4>5
    <3>2. CASE req[r].op = "refresh"
      <4>1. /\ req[r].writes = {"markTokenUsed"}
            /\ req[r].newToken # Null /\ req[r].pair # Null
        BY <1>1, <3>2, AtLabel, WrittenByRefresh DEF LocalsOK
      <4>2. /\ label = "markSessionUsed" /\ label \in LabelsOf("refresh")
            /\ label \in AfterLookup /\ pc[r] \in AfterLookup
        BY <1>1, <3>2 DEF LabelsOf, AfterLookup
      <4>3. q.writes = WrittenAt("refresh", label)
        BY <2>1, <4>1, <4>2, WrittenByRefresh
      <4> QED
        BY <1>1, <2>1, <3>2, <4>1, <4>2, <4>3, RefreshMoves
    <3> QED
      BY <1>1, <3>1, <3>2
  <2> QED
    BY <1>3, <2>1, <2>2, <2>3, ContinueKeepsInvariant
<1> QED
  BY <1>1, <1>2, <1>3, NotRotatedYet DEF CreateRefreshToken

\* The session is marked under a lock of its own.
LEMMA MarkAuthSessionUsedKeepsInvariant ==
    ASSUME IInv, NEW r \in Requests, MarkAuthSessionUsed(r)
    PROVE  IInv'
<1> USE AuthAssumption, TokenAssumption
<1> DEFINE q == Wrote(req[r], "markSessionUsed")
<1>1. CASE Reject(r, "checkViolation")
  BY <1>1, RejectKeepsInvariant DEF Answers
<1>2. CASE CanLock(r, req[r].session) /\ Locking(r, req[r].session, "commit", q)
  <2>1. pc[r] = "markSessionUsed" /\ req[r].op = "refresh" /\ pc[r] \in AfterLookup
    BY OperationAt DEF MarkAuthSessionUsed, AfterLookup
  <2>2. /\ q \in Request /\ q.writes = req[r].writes \cup {"markSessionUsed"}
        /\ q.op = req[r].op /\ q.token = req[r].token /\ q.session = req[r].session
        /\ q.pair = req[r].pair /\ q.newToken = req[r].newToken
    BY AtLabel, WroteIsRequest DEF Statements
  <2>3. /\ "commit" \in InsideTx /\ "commit" \in LabelsOf("refresh")
        /\ "commit" \in AfterLookup
    BY DEF InsideTx, LabelsOf, AfterLookup
  <2>4. /\ req[r].writes = {"markTokenUsed", "createToken"}
        /\ req[r].newToken # Null /\ req[r].pair # Null
    BY <2>1, AtLabel, WrittenByRefresh DEF LocalsOK
  <2>5. req[r].session \in Rows
    BY <2>1, RefreshHoldsGoodToken DEF Rows
  <2> HIDE DEF q
  <2>6. q.writes = WrittenAt("refresh", "commit")
    BY <2>2, <2>4, WrittenByRefresh
  <2>7. /\ LocalsOK("commit", q) /\ RowsOK("commit", q)
        /\ LockOK(r, "commit", q) /\ DrawnBy(r, q)
    BY <2>1, <2>2, <2>3, <2>4, <2>6, RefreshMoves
  <2> QED
    BY <1>2, <2>2, <2>3, <2>5, <2>7, LockingKeepsInvariant
<1> QED
  BY <1>1, <1>2 DEF MarkAuthSessionUsed

-----------------------------------------------------------------------------
(* The rest of a logout. *)

\* A logout that moves on after it has read the session of its token.
LEMMA LogoutMoves ==
    ASSUME IInv, NEW r \in Requests, pc[r] \in {"revokeToken", "revokeSession"},
           NEW label \in {"revokeSession", "commit"}, NEW q \in Request,
           q.op = "logout", q.token = req[r].token, q.session = req[r].session,
           q.newToken = req[r].newToken,
           q.writes \subseteq req[r].writes \cup {"revokeToken", "revokeSession"}
    PROVE  /\ label \in InsideTx /\ LocalsOK(label, q) /\ RowsOK(label, q)
           /\ LockOK(r, label, q) /\ DrawnBy(r, q)
<1>1. req[r].op = "logout"
  BY OperationAt
<1>2. /\ req[r].token # Null /\ req[r].newToken = Null
      /\ req[r].writes \subseteq {"revokeToken", "revokeSession"}
  BY <1>1, AtLabel DEF LocalsOK
<1>3. label \in InsideTx /\ label \in LabelsOf("logout")
  BY DEF InsideTx, LabelsOf
<1>4. LocalsOK(label, q)
  BY <1>2, <1>3 DEF LocalsOK
<1>5. RowsOK(label, q) /\ LockOK(r, label, q)
  BY <1>2, AtLabel DEF RowsOK, LockOK, AfterLookup
<1> QED
  BY <1>3, <1>4, <1>5 DEF DrawnBy

\* A logout revokes its token under the lock taken by the lookup.
LEMMA RevokeRefreshTokenKeepsInvariant ==
    ASSUME IInv, NEW r \in Requests, RevokeRefreshToken(r)
    PROVE  IInv'
<1> USE AuthAssumption, TokenAssumption
<1> DEFINE q == Wrote(req[r], "revokeToken")
<1>1. pc[r] = "revokeToken" /\ req[r].op = "logout" /\ req[r] \in Request
  BY OperationAt, AtLabel DEF RevokeRefreshToken
<1>2. CASE Reject(r, "checkViolation")
  BY <1>2, RejectKeepsInvariant DEF Answers
<1>3. CASE Continue(r, "revokeSession", req[r])
  <2>1. /\ "revokeSession" \in InsideTx /\ LocalsOK("revokeSession", req[r])
        /\ RowsOK("revokeSession", req[r]) /\ LockOK(r, "revokeSession", req[r])
        /\ DrawnBy(r, req[r])
    BY <1>1, LogoutMoves
  <2> QED
    BY <1>1, <1>3, <2>1, ContinueKeepsInvariant
<1>4. CASE Continue(r, "revokeSession", q)
  <2>1. /\ q \in Request /\ q.writes = req[r].writes \cup {"revokeToken"}
        /\ q.op = req[r].op /\ q.token = req[r].token /\ q.session = req[r].session
        /\ q.newToken = req[r].newToken
    BY AtLabel, WroteIsRequest DEF Statements
  <2> HIDE DEF q
  <2>2. /\ "revokeSession" \in InsideTx /\ LocalsOK("revokeSession", q)
        /\ RowsOK("revokeSession", q) /\ LockOK(r, "revokeSession", q) /\ DrawnBy(r, q)
    BY <1>1, <2>1, LogoutMoves
  <2> QED
    BY <1>4, <2>1, <2>2, ContinueKeepsInvariant
<1> QED
  BY <1>2, <1>3, <1>4 DEF RevokeRefreshToken

\* A logout revokes the session under a lock of its own.
LEMMA RevokeAuthSessionKeepsInvariant ==
    ASSUME IInv, NEW r \in Requests, RevokeAuthSession(r)
    PROVE  IInv'
<1> USE AuthAssumption, TokenAssumption
<1> DEFINE q == Wrote(req[r], "revokeSession")
<1>1. pc[r] = "revokeSession" /\ req[r].op = "logout" /\ req[r] \in Request
  BY OperationAt, AtLabel DEF RevokeAuthSession
<1>2. CASE Reject(r, "checkViolation")
  BY <1>2, RejectKeepsInvariant DEF Answers
<1>3. CASE Continue(r, "commit", req[r])
  <2>1. /\ "commit" \in InsideTx /\ LocalsOK("commit", req[r])
        /\ RowsOK("commit", req[r]) /\ LockOK(r, "commit", req[r]) /\ DrawnBy(r, req[r])
    BY <1>1, LogoutMoves
  <2> QED
    BY <1>1, <1>3, <2>1, ContinueKeepsInvariant
<1>4. CASE CanLock(r, req[r].session) /\ Locking(r, req[r].session, "commit", q)
  <2>1. /\ q \in Request /\ q.writes = req[r].writes \cup {"revokeSession"}
        /\ q.op = req[r].op /\ q.token = req[r].token /\ q.session = req[r].session
        /\ q.newToken = req[r].newToken
    BY AtLabel, WroteIsRequest DEF Statements
  <2>2. req[r].session \in Rows
    <3>1. req[r].token # Null
      BY <1>1, AtLabel DEF LocalsOK
    <3>2. /\ req[r].token \in TokenIDs /\ Stored(req[r].token)
          /\ req[r].session = tokens[req[r].token].session
      BY <1>1, <3>1, AtLabel DEF RowsOK, AfterLookup, Request
    <3> QED
      BY <3>2, RowsThere DEF Rows
  <2> HIDE DEF q
  <2>3. /\ "commit" \in InsideTx /\ LocalsOK("commit", q)
        /\ RowsOK("commit", q) /\ LockOK(r, "commit", q) /\ DrawnBy(r, q)
    BY <1>1, <2>1, LogoutMoves
  <2> QED
    BY <1>4, <2>1, <2>2, <2>3, LockingKeepsInvariant
<1> QED
  BY <1>2, <1>3, <1>4 DEF RevokeAuthSession

-----------------------------------------------------------------------------
(* What a commit does to the tables. *)

\* The locals of a request about to commit.
LEMMA AtCommit ==
    ASSUME IInv, NEW r \in Requests, pc[r] = "commit"
    PROVE  /\ req[r] \in Request /\ req[r].op \in {"login", "refresh", "logout"}
           /\ req[r].op = "login" =>
                  /\ req[r].writes = {"createSession", "createToken"}
                  /\ req[r].token = Null /\ req[r].user \in Users
                  /\ req[r].session \in SessionIDs /\ sessions[req[r].session] = Null
                  /\ req[r].newToken \in TokenIDs /\ req[r].pair \in Pairs
           /\ req[r].op = "refresh" =>
                  /\ req[r].writes = {"markTokenUsed", "createToken", "markSessionUsed"}
                  /\ req[r].token \in TokenIDs /\ Spendable(req[r].token)
                  /\ req[r].session \in SessionIDs
                  /\ req[r].session = tokens[req[r].token].session
                  /\ sessions[req[r].session] \in SessionRow
                  /\ req[r].newToken \in TokenIDs /\ req[r].pair \in Pairs
           /\ req[r].op = "logout" =>
                  /\ req[r].writes \subseteq {"revokeToken", "revokeSession"}
                  /\ req[r].newToken = Null
           /\ req[r].newToken # Null => tokens[req[r].newToken] = Null
           /\ req[r].token # Null => Stored(req[r].token) /\ rowLock[req[r].token] = r
<1>1. req[r] \in Request /\ req[r].op \in {"login", "refresh", "logout"}
  BY AtLabel, OperationAt
<1>2. ASSUME req[r].op = "login"
      PROVE  /\ req[r].writes = {"createSession", "createToken"}
             /\ req[r].token = Null /\ req[r].user \in Users
             /\ req[r].session \in SessionIDs /\ sessions[req[r].session] = Null
             /\ req[r].newToken \in TokenIDs /\ req[r].pair \in Pairs
  <2>1. /\ req[r].writes = {"createSession", "createToken"}
        /\ req[r].token = Null /\ req[r].user # Null /\ req[r].session # Null
        /\ req[r].newToken # Null /\ req[r].pair # Null
    BY <1>2, AtLabel, WrittenByLogin DEF LocalsOK
  <2> QED
    BY <1>1, <1>2, <2>1, AtLabel DEF Request, RowsOK
<1>3. ASSUME req[r].op = "refresh"
      PROVE  /\ req[r].writes = {"markTokenUsed", "createToken", "markSessionUsed"}
             /\ req[r].newToken \in TokenIDs /\ req[r].pair \in Pairs
  <2>1. /\ req[r].writes = {"markTokenUsed", "createToken", "markSessionUsed"}
        /\ req[r].newToken # Null /\ req[r].pair # Null
    BY <1>3, AtLabel, WrittenByRefresh DEF LocalsOK
  <2> QED
    BY <1>1, <2>1 DEF Request
<1>4. pc[r] \in AfterLookup /\ pc[r] # "readSession"
  BY DEF AfterLookup
<1>5. req[r].op = "logout" => /\ req[r].writes \subseteq {"revokeToken", "revokeSession"}
                              /\ req[r].newToken = Null
  BY AtLabel DEF LocalsOK
<1>6. /\ req[r].newToken # Null => tokens[req[r].newToken] = Null
      /\ req[r].token # Null => Stored(req[r].token) /\ rowLock[req[r].token] = r
  BY <1>4, AtLabel DEF RowsOK, LockOK
<1> QED
  BY <1>1, <1>2, <1>3, <1>4, <1>5, <1>6, RefreshHoldsGoodToken

\* Rows are added and columns are set; no row goes away or changes its keys,
\* and only the row of the request's own token and session change at all.
LEMMA CommitEffect ==
    ASSUME IInv, NEW r \in Requests, Commit(r)
    PROVE  /\ tokens' \in [TokenIDs -> TokenRow \cup {Null}]
           /\ sessions' \in [SessionIDs -> SessionRow \cup {Null}]
           /\ \A t \in TokenIDs : Stored(t) =>
                  /\ tokens'[t] # Null
                  /\ tokens'[t].session = tokens[t].session
                  /\ tokens'[t].rotatedFrom = tokens[t].rotatedFrom
                  /\ t # req[r].token => tokens'[t] = tokens[t]
                  /\ tokens'[t].revoked = Null => tokens[t].revoked = Null
           /\ \A t \in TokenIDs : (~Stored(t) /\ t # req[r].newToken) => tokens'[t] = Null
           /\ \A s \in SessionIDs : sessions[s] # Null => sessions'[s] # Null
           /\ \A s \in SessionIDs : (sessions[s] = Null /\ ~(req[r].op = "login"
                                       /\ s = req[r].session)) => sessions'[s] = Null
           /\ req[r].newToken # Null =>
                  /\ tokens'[req[r].newToken] = NewToken(req[r])
                  /\ sessions'[req[r].session] # Null
           /\ req[r].op = "refresh" => tokens'[req[r].token].lastUsed # Null
           /\ req[r].op = "logout" =>
                  \A t \in TokenIDs : Stored(t) => tokens'[t].lastUsed = tokens[t].lastUsed
<1> USE AuthAssumption, TokenAssumption
<1> DEFINE q == req[r]
<1>1. pc[r] = "commit" /\ sessions' = SessionsAfter(q) /\ tokens' = TokensAfter(q)
  BY DEF Commit
<1>2. q \in Request /\ q.at \in Int /\ q.txAt \in Int
  BY <1>1, AtCommit DEF Request
<1>3. "createToken" \in q.writes =>
          /\ NewToken(q) \in TokenRow /\ q.newToken \in TokenIDs
          /\ tokens[q.newToken] = Null /\ q.op \in {"login", "refresh"}
  <2>1. ASSUME "createToken" \in q.writes
        PROVE  /\ q.session \in SessionIDs /\ q.pair \in Pairs /\ q.newToken \in TokenIDs
               /\ q.newToken # Null /\ q.op \in {"login", "refresh"}
    BY <1>1, <2>1, AtCommit DEF Rows
  <2>2. q.token \in TokenIDs \cup {Null}
    BY <1>2 DEF Request
  <2> QED
    BY <1>1, <1>2, <2>1, <2>2, AtCommit DEF NewToken, TokenRow, Pairs
<1>4. \A t \in TokenIDs : Stored(t) =>
          /\ TokenAfter(q, tokens[t]) \in TokenRow
          /\ TokenAfter(q, tokens[t]).session = tokens[t].session
          /\ TokenAfter(q, tokens[t]).rotatedFrom = tokens[t].rotatedFrom
          /\ TokenAfter(q, tokens[t]).revoked = Null => tokens[t].revoked = Null
          /\ TokenAfter(q, tokens[t]).lastUsed =
                 IF "markTokenUsed" \in q.writes THEN q.at ELSE tokens[t].lastUsed
  BY <1>2, RowsThere DEF TokenAfter, TokenRow
<1>5. "createSession" \in q.writes =>
          NewSession(q) \in SessionRow /\ q.op = "login" /\ sessions[q.session] = Null
  BY <1>1, <1>2, AtCommit DEF NewSession, SessionRow, Pairs
<1>6. \A s \in SessionIDs : sessions[s] # Null => SessionAfter(q, sessions[s]) \in SessionRow
  <2> SUFFICES ASSUME NEW s \in SessionIDs, sessions[s] # Null
               PROVE  SessionAfter(q, sessions[s]) \in SessionRow
    OBVIOUS
  <2>1. sessions[s] \in SessionRow
    BY DEF IInv, TypeOK
  <2> QED
    BY <1>2, <2>1 DEF SessionAfter, SessionRow
<1>7. tokens' \in [TokenIDs -> TokenRow \cup {Null}]
  BY <1>1, <1>3, <1>4 DEF TokensAfter, IInv, TypeOK, Stored
<1>8. sessions' \in [SessionIDs -> SessionRow \cup {Null}]
  BY <1>1, <1>5, <1>6 DEF SessionsAfter, IInv, TypeOK
<1>9. \A t \in TokenIDs : Stored(t) =>
          tokens'[t] = IF t = q.token THEN TokenAfter(q, tokens[t]) ELSE tokens[t]
  BY <1>1, <1>3 DEF TokensAfter, Stored
<1>10. \A t \in TokenIDs : (~Stored(t) /\ t # q.newToken) => tokens'[t] = Null
  BY <1>1 DEF TokensAfter, Stored
<1>11. \A s \in SessionIDs : sessions[s] # Null => sessions'[s] # Null
  BY <1>1, <1>5, <1>6 DEF SessionsAfter
<1>12. \A s \in SessionIDs : (sessions[s] = Null /\ ~(q.op = "login" /\ s = q.session))
           => sessions'[s] = Null
  BY <1>1, <1>5 DEF SessionsAfter
<1>13. q.newToken # Null => /\ tokens'[q.newToken] = NewToken(q)
                            /\ sessions'[q.session] # Null
  <2>1. CASE q.op = "login"
    BY <1>1, <1>3, <1>5, <2>1, AtCommit DEF TokensAfter, SessionsAfter
  <2>2. CASE q.op = "refresh"
    BY <1>1, <1>3, <1>11, <2>2, AtCommit DEF TokensAfter
  <2> QED
    BY <1>1, <2>1, <2>2, AtCommit
<1>14. q.op = "refresh" => tokens'[q.token].lastUsed # Null
  BY <1>1, <1>2, <1>4, <1>9, AtCommit DEF Spendable
<1>15. q.op = "logout" =>
           \A t \in TokenIDs : Stored(t) => tokens'[t].lastUsed = tokens[t].lastUsed
  BY <1>1, <1>4, <1>9, AtCommit
<1> QED
  BY <1>4, <1>7, <1>8, <1>9, <1>10, <1>11, <1>12, <1>13, <1>14, <1>15,
     RowsThere DEF Stored

\* What holds of the tables still holds after a commit: a login adds a session
\* with one good token, a refresh trades its good token for another, a logout
\* takes one away.
LEMMA CommitKeepsTables ==
    ASSUME IInv, NEW r \in Requests, Commit(r)
    PROVE  TablesOK'
<1> USE AuthAssumption, TokenAssumption
<1> DEFINE q == req[r]
<1>1. pc[r] = "commit" /\ q.op \in {"login", "refresh", "logout"}
  BY AtCommit DEF Commit
<1>2. \A t \in TokenIDs : Stored(t) => Stored(t)'
  BY CommitEffect DEF Stored
<1>3. ASSUME NEW t \in TokenIDs, Stored(t)', ~Stored(t)
      PROVE  /\ t = q.newToken /\ q.newToken # Null /\ q.op \in {"login", "refresh"}
             /\ tokens'[t].session = q.session /\ tokens'[t].rotatedFrom = q.token
             /\ tokens'[t].lastUsed = Null /\ sessions'[q.session] # Null
  <2>1. t = q.newToken /\ q.newToken # Null
    BY <1>3, CommitEffect DEF Stored, Rows
  <2>2. tokens'[t] = NewToken(q) /\ sessions'[q.session] # Null
    BY <2>1, CommitEffect
  <2>3. q.op # "logout"
    BY <1>1, <2>1, AtCommit
  <2> QED
    BY <1>1, <2>1, <2>2, <2>3 DEF NewToken
<1>4. References'
  <2> SUFFICES ASSUME NEW t \in TokenIDs
               PROVE  /\ Stored(t)' => sessions'[tokens'[t].session] # Null
                      /\ (Stored(t)' /\ tokens'[t].rotatedFrom # Null)
                             => Stored(tokens[t].rotatedFrom)'
                      /\ wallet'[t] # Null => Stored(t)'
    BY DEF References
  <2>1. CASE Stored(t)
    <3>1. tokens[t].session \in SessionIDs /\ sessions[tokens[t].session] # Null
      BY <2>1, RowsThere DEF IInv, TablesOK, References
    <3>2. tokens[t].rotatedFrom # Null =>
              tokens[t].rotatedFrom \in TokenIDs /\ Stored(tokens[t].rotatedFrom)
      BY <2>1, RowsThere DEF IInv, TablesOK, References, TokenRow
    <3> QED
      BY <1>2, <2>1, <3>1, <3>2, CommitEffect DEF Stored
  <2>2. CASE ~Stored(t) /\ Stored(t)'
    <3>1. tokens'[t].rotatedFrom # Null => Stored(q.token) /\ q.token \in TokenIDs
      BY <1>1, <1>3, <2>2, AtCommit DEF Request
    <3> QED
      BY <1>2, <1>3, <2>2, <3>1 DEF Stored
  <2>3. wallet'[t] # Null => Stored(t)'
    <3>1. CASE wallet'[t] = wallet[t]
      BY <1>2, <3>1 DEF IInv, TablesOK, References
    <3>2. CASE wallet'[t] # wallet[t]
      <4>1. q.newToken # Null /\ t = q.newToken
        BY <3>2 DEF Commit, Delivers, IInv, TypeOK
      <4>2. tokens'[t] = NewToken(q)
        BY <4>1, CommitEffect
      <4>3. tokens'[t] \in TokenRow \cup {Null} /\ NewToken(q) # Null
        <5>1. q.op \in {"login", "refresh"}
          BY <1>1, <4>1, AtCommit
        <5>2. q.session \in SessionIDs /\ q.pair \in Pairs
          BY <1>1, <5>1, AtCommit
        <5>3. NewToken(q) \in TokenRow
          BY <1>1, <5>2, AtCommit DEF NewToken, TokenRow, Request, Pairs
        <5> QED
          BY <4>2, <5>3
      <4> QED
        BY <4>2, <4>3 DEF Stored
    <3> QED
      BY <3>1, <3>2
  <2> QED
    BY <2>1, <2>2, <2>3
<1>5. \A t \in TokenIDs : (Spendable(t)' /\ Stored(t)) => Spendable(t)
  <2> SUFFICES ASSUME NEW t \in TokenIDs, Spendable(t)', Stored(t)
               PROVE  Spendable(t)
    OBVIOUS
  <2>1. CASE t # q.token
    BY <2>1, CommitEffect DEF Spendable
  <2>2. CASE t = q.token
    <3>1. q.op # "login"
      BY <1>1, <2>2, AtCommit DEF Rows
    <3>2. q.op # "refresh"
      BY <2>2, CommitEffect DEF Spendable
    <3> QED
      BY <1>1, <3>1, <3>2, CommitEffect DEF Spendable, Stored
  <2> QED
    BY <2>1, <2>2
<1>6. OneSpendableToken'
  <2>1. ASSUME NEW t \in TokenIDs, NEW u \in TokenIDs, Spendable(t)', Spendable(u)',
               tokens'[t].session = tokens'[u].session, Stored(t), ~Stored(u)
        PROVE  FALSE
    <3>1. q.op \in {"login", "refresh"} /\ tokens'[u].session = q.session
      BY <1>3, <2>1 DEF Spendable, Stored
    <3>2. tokens[t].session = q.session
      BY <2>1, <3>1, CommitEffect
    <3>3. CASE q.op = "login"
      BY <1>1, <2>1, <3>2, <3>3, AtCommit DEF IInv, TablesOK, References
    <3>4. CASE q.op = "refresh"
      <4>1. t = q.token
        BY <1>1, <1>5, <2>1, <3>2, <3>4, AtCommit DEF IInv, TablesOK, OneSpendableToken
      <4> QED
        BY <2>1, <3>4, <4>1, CommitEffect DEF Spendable
    <3> QED
      BY <3>1, <3>3, <3>4
  <2>2. ASSUME NEW t \in TokenIDs, NEW u \in TokenIDs, Spendable(t)', Spendable(u)',
               tokens'[t].session = tokens'[u].session
        PROVE  t = u
    <3>1. CASE Stored(t) /\ Stored(u)
      <4>1. Spendable(t) /\ Spendable(u) /\ tokens[t].session = tokens[u].session
        BY <1>5, <2>2, <3>1, CommitEffect
      <4> QED
        BY <4>1 DEF IInv, TablesOK, OneSpendableToken
    <3>2. CASE ~Stored(t) /\ ~Stored(u)
      BY <1>3, <2>2, <3>2 DEF Spendable, Stored
    <3> QED
      BY <2>1, <2>2, <3>1, <3>2
  <2> QED
    BY <2>2 DEF OneSpendableToken, Spendable, Stored
<1>7. \A s, t \in TokenIDs : s \in Successors(t)' <=>
          s \in Successors(t) \/ (s = q.newToken /\ q.newToken # Null /\ t = q.token)
  <2> SUFFICES ASSUME NEW s \in TokenIDs, NEW t \in TokenIDs
               PROVE  (Stored(s)' /\ tokens'[s].rotatedFrom = t) <=>
                          \/ Stored(s) /\ tokens[s].rotatedFrom = t
                          \/ s = q.newToken /\ q.newToken # Null /\ t = q.token
    BY DEF Successors
  <2>1. CASE Stored(s)
    <3>1. tokens'[s].rotatedFrom = tokens[s].rotatedFrom
      BY <2>1, CommitEffect
    <3>2. ~(s = q.newToken /\ q.newToken # Null)
      BY <1>1, <2>1, AtCommit DEF Stored
    <3> QED
      BY <1>2, <2>1, <3>1, <3>2
  <2>2. CASE ~Stored(s) /\ s # q.newToken
    BY <2>2, CommitEffect DEF Stored
  <2>3. CASE ~Stored(s) /\ s = q.newToken /\ q.newToken # Null
    <3>1. tokens'[s].rotatedFrom = q.token
      <4>1. tokens'[s] = NewToken(q)
        BY <2>3, CommitEffect
      <4> QED
        BY <4>1 DEF NewToken
    <3>2. Stored(s)'
      <4>1. q.op \in {"login", "refresh"}
        BY <1>1, <2>3, AtCommit
      <4>2. NewToken(q) \in TokenRow
        BY <1>1, <4>1, AtCommit DEF NewToken, TokenRow, Request, Pairs
      <4> QED
        BY <2>3, <4>2, CommitEffect DEF Stored
    <3> QED
      BY <2>3, <3>1, <3>2
  <2> QED
    BY <2>1, <2>2, <2>3 DEF Rows
<1>8. RotationIntact'
  <2> SUFFICES ASSUME NEW t \in TokenIDs, Stored(t)'
               PROVE  /\ tokens'[t].lastUsed # Null <=> Successors(t)' # {}
                      /\ \A s, u \in Successors(t)' :
                            s = u /\ tokens'[s].session = tokens'[t].session
    BY DEF RotationIntact
  <2>1. Successors(t) \subseteq TokenIDs /\ Successors(t)' \subseteq TokenIDs
    BY DEF Successors
  <2>2. CASE ~Stored(t)
    <3>1. tokens'[t].lastUsed = Null
      BY <1>3, <2>2
    <3>2. t # q.token
      BY <1>1, <2>2, AtCommit DEF Rows
    <3>3. Successors(t) = {}
      BY <2>2 DEF Successors, IInv, TablesOK, References, Rows
    <3> QED
      BY <1>7, <2>1, <3>1, <3>2, <3>3
  <2>3. CASE Stored(t) /\ ~(q.op = "refresh" /\ t = q.token)
    <3>1. tokens'[t].lastUsed # Null <=> tokens[t].lastUsed # Null
      <4>1. q.op = "login" => t # q.token
        BY <1>1, AtCommit DEF Rows
      <4> QED
        BY <1>1, <2>3, <4>1, CommitEffect
    <3>2. Successors(t)' = Successors(t)
      <4>1. ~(q.newToken # Null /\ t = q.token)
        BY <1>1, <2>3, AtCommit DEF Rows
      <4> QED
        BY <1>7, <2>1, <4>1
    <3>3. \A s \in Successors(t) : tokens'[s].session = tokens[s].session
      BY <2>1, CommitEffect DEF Successors
    <3>4. tokens'[t].session = tokens[t].session
      BY <2>3, CommitEffect
    <3>5. /\ tokens[t].lastUsed # Null <=> Successors(t) # {}
          /\ \A s, u \in Successors(t) : s = u /\ tokens[s].session = tokens[t].session
      BY <2>3 DEF IInv, TablesOK, RotationIntact
    <3> QED
      BY <3>1, <3>2, <3>3, <3>4, <3>5
  <2>4. CASE Stored(t) /\ q.op = "refresh" /\ t = q.token
    <3>1. q.newToken \in TokenIDs /\ q.newToken # Null
      BY <1>1, <2>4, AtCommit DEF Rows
    <3>2. Successors(t) = {}
      BY <1>1, <2>4, AtCommit DEF IInv, TablesOK, RotationIntact, Spendable
    <3>3. Successors(t)' = {q.newToken}
      BY <1>7, <2>1, <2>4, <3>1, <3>2
    <3>4. tokens'[t].lastUsed # Null /\ tokens'[t].session = tokens[t].session
      BY <2>4, CommitEffect
    <3>5. tokens'[q.newToken].session = tokens[t].session
      <4>1. tokens'[q.newToken] = NewToken(q) /\ q.session = tokens[t].session
        BY <1>1, <2>4, <3>1, AtCommit, CommitEffect
      <4> QED
        BY <4>1 DEF NewToken
    <3> QED
      BY <3>3, <3>4, <3>5
  <2> QED
    BY <2>2, <2>3, <2>4
<1> QED
  BY <1>4, <1>6, <1>8 DEF TablesOK

\* The other requests find everything as they left it.
LEMMA CommitKeepsInvariant ==
    ASSUME IInv, NEW r \in Requests, Commit(r)
    PROVE  IInv'
<1> USE AuthAssumption, TokenAssumption
<1> DEFINE q == req[r]
<1>1. /\ pc' = [pc EXCEPT ![r] = "idle"] /\ req' = [req EXCEPT ![r] = NoRequest]
      /\ \E a \in {"ok", "lost"} :
            reply' = [op |-> q.op, token |-> q.token, late |-> q.late, answer |-> a]
      /\ wallet' \in {wallet, Delivers(q)}
      /\ rowLock' = LocksLeft(r)
      /\ UNCHANGED <<now, userStatus>>
  BY DEF Commit, Finish, Goto
<1>2. pc[r] = "commit" /\ q \in Request
  BY AtCommit DEF Commit
<1>3. TypeOK'
  <2>1. NoRequest \in Request /\ "idle" \in OutsideTx
    BY DEF NoRequest, Request, Operations, OutsideTx
  <2>2. reply' \in Reply
    BY <1>1, <1>2 DEF Request, Reply, Answers
  <2>3. rowLock' \in [Rows -> Requests \cup {Null}]
    BY <1>1 DEF IInv, TypeOK, LocksLeft
  <2>4. wallet' \in [TokenIDs -> Pairs \cup {Null}]
    BY <1>1, <1>2 DEF IInv, TypeOK, Delivers, Request
  <2> QED
    BY <1>1, <2>1, <2>2, <2>3, <2>4, CommitEffect DEF IInv, TypeOK
<1>4. ASSUME NEW p \in Requests
      PROVE  /\ LocalsOK(pc[p], req[p])' /\ RowsOK(pc[p], req[p])'
             /\ LockOK(p, pc[p], req[p])'
  <2>1. CASE p = r
    <3>1. pc'[p] = "idle" /\ req'[p] = NoRequest
      BY <1>1, <2>1 DEF IInv, TypeOK
    <3>2. LocalsOK("idle", NoRequest)
      BY DEF LocalsOK, NoRequest, LabelsOf, WrittenAt, AfterLookup
    <3>3. RowsOK(pc[p], req[p])' /\ LockOK(p, pc[p], req[p])'
      BY <3>1 DEF RowsOK, LockOK, NoRequest
    <3> QED
      BY <3>1, <3>2, <3>3 DEF LocalsOK
  <2>2. CASE p # r
    <3>1. pc'[p] = pc[p] /\ req'[p] = req[p] /\ req[p] \in Request
      BY <1>1, <2>2 DEF IInv, TypeOK
    <3>2. LocalsOK(pc[p], req[p])'
      BY <3>1 DEF LocalsOK, IInv, RequestsOK
    <3>3. LockOK(p, pc[p], req[p])'
      <4>1. req[p].token # Null => req[p].token \in Rows
        BY <3>1 DEF Request, Rows
      <4> QED
        BY <1>1, <2>2, <3>1, <4>1 DEF LockOK, IInv, RequestsOK, LocksLeft
    <3>4. RowsOK(pc[p], req[p])'
      <4>1. req[p].token # Null =>
                /\ req[p].token \in TokenIDs /\ Stored(req[p].token)
                /\ pc[p] \in AfterLookup => req[p].token # q.token
        <5>1. (req[p].token # Null /\ pc[p] \in AfterLookup) => rowLock[req[p].token] = p
          BY AtLabel DEF LockOK
        <5>2. q.token # Null => rowLock[q.token] = r
          BY <1>2, AtCommit
        <5> QED
          BY <2>2, <3>1, <5>1, <5>2, AtLabel DEF RowsOK, Request
      <4>2. req[p].token # Null => tokens'[req[p].token] # Null
        BY <4>1, CommitEffect DEF Stored
      <4>3. (req[p].op = "refresh" /\ pc[p] \in AfterLookup) =>
                /\ tokens'[req[p].token] # Null
                /\ tokens'[req[p].token].revoked = Null
                /\ tokens'[req[p].token].lastUsed = Null
        <5>1. (req[p].op = "refresh" /\ pc[p] \in AfterLookup) =>
                  /\ Spendable(req[p].token) /\ req[p].token \in TokenIDs
                  /\ tokens'[req[p].token] = tokens[req[p].token]
          BY <4>1, CommitEffect, RefreshHoldsGoodToken
        <5> QED
          BY <5>1 DEF Spendable, Stored
      <4>4. (req[p].token # Null /\ pc[p] \in AfterLookup \ {"readSession"}) =>
                req[p].session = tokens'[req[p].token].session
        BY <4>1, AtLabel, CommitEffect DEF RowsOK
      <4>5. req[p].newToken # Null => tokens'[req[p].newToken] = Null
        <5>1. req[p].newToken # Null =>
                  /\ req[p].newToken \in TokenIDs /\ ~Stored(req[p].newToken)
                  /\ req[p].newToken # q.newToken
          BY <2>2, <3>1, AtLabel DEF RowsOK, Request, Stored, IInv, DrawnApart
        <5> QED
          BY <5>1, CommitEffect
      <4>6. (req[p].op = "login" /\ req[p].session # Null) =>
                sessions'[req[p].session] = Null
        <5>1. (req[p].op = "login" /\ req[p].session # Null) =>
                  /\ req[p].session \in SessionIDs /\ sessions[req[p].session] = Null
                  /\ ~(q.op = "login" /\ req[p].session = q.session)
          BY <2>2, <3>1, AtLabel DEF RowsOK, Request, IInv, DrawnApart
        <5> QED
          BY <5>1, CommitEffect
      <4> QED
        BY <3>1, <4>2, <4>3, <4>4, <4>5, <4>6 DEF RowsOK, Stored, Spendable
    <3> QED
      BY <3>2, <3>3, <3>4
  <2> QED
    BY <2>1, <2>2
<1>5. DrawnApart'
  <2>1. \A p \in Requests : req'[p] = IF p = r THEN NoRequest ELSE req[p]
    BY <1>1 DEF IInv, TypeOK
  <2> QED
    BY <2>1 DEF DrawnApart, NoRequest, IInv
<1>6. NoUniqueViolation'
  BY <1>1 DEF NoUniqueViolation
<1> QED
  BY <1>3, <1>4, <1>5, <1>6, CommitKeepsTables DEF IInv, RequestsOK

-----------------------------------------------------------------------------
(* Everybody else, and the theorems. *)

\* The clock and the operator touch no row a request relies on.
LEMMA EnvironmentKeepsInvariant ==
    ASSUME IInv, Tick \/ (\E u \in MayDisable : DisableUser(u)) \/ UNCHANGED vars
    PROVE  IInv'
<1> USE AuthAssumption, TokenAssumption
<1>1. /\ now' \in Nat /\ userStatus' \in [Users -> {"active", "disabled"}]
      /\ reply' \in {reply, NoReply}
      /\ UNCHANGED <<sessions, tokens, rowLock, pc, req, wallet>>
  BY DEF Tick, DisableUser, vars, IInv, TypeOK
<1>2. TypeOK'
  <2>1. NoReply \in Reply /\ reply \in Reply
    BY DEF NoReply, Reply, Operations, Answers, IInv, TypeOK
  <2> QED
    BY <1>1, <2>1 DEF IInv, TypeOK
<1>3. RequestsOK'
  BY <1>1 DEF IInv, RequestsOK, LocalsOK, RowsOK, LockOK, Stored, Spendable
<1>4. DrawnApart' /\ TablesOK'
  BY <1>1 DEF IInv, DrawnApart, TablesOK, References, OneSpendableToken, RotationIntact,
              Stored, Spendable, Successors
<1>5. NoUniqueViolation'
  BY <1>1 DEF NoUniqueViolation, NoReply, IInv
<1> QED
  BY <1>2, <1>3, <1>4, <1>5 DEF IInv

\* Empty tables and idle requests satisfy the invariant.
LEMMA InitEstablishesInvariant == Init => IInv
<1> USE AuthAssumption, TokenAssumption
<1> SUFFICES ASSUME Init PROVE IInv
  OBVIOUS
<1>1. TypeOK
  BY DEF Init, TypeOK, NoRequest, Request, NoReply, Reply, Operations, Answers, OutsideTx
<1>2. LocalsOK("idle", NoRequest) /\ RowsOK("idle", NoRequest)
  BY DEF LocalsOK, RowsOK, NoRequest, LabelsOf, WrittenAt, AfterLookup
<1>3. RequestsOK
  BY <1>2 DEF Init, RequestsOK, LockOK, NoRequest
<1>4. DrawnApart /\ TablesOK /\ NoUniqueViolation
  BY DEF Init, DrawnApart, NoRequest, TablesOK, References, OneSpendableToken,
         RotationIntact, Stored, Spendable, NoUniqueViolation, NoReply
<1> QED
  BY <1>1, <1>3, <1>4 DEF IInv

\* The invariant is inductive.
LEMMA NextKeepsInvariant == IInv /\ [Next]_vars => IInv'
<1> SUFFICES ASSUME IInv, [Next]_vars PROVE IInv'
  OBVIOUS
<1>1. ASSUME NEW r \in Requests, Step(r)
      PROVE  IInv'
  BY <1>1, LoginReadUserKeepsInvariant, LoginIssueKeepsInvariant,
     CreateAuthSessionKeepsInvariant, BeginKeepsInvariant,
     RefreshLookupKeepsInvariant, RefreshReadSessionKeepsInvariant,
     RefreshReadUserKeepsInvariant, RefreshIssueKeepsInvariant,
     MarkRefreshTokenUsedKeepsInvariant, MarkAuthSessionUsedKeepsInvariant,
     LogoutLookupKeepsInvariant, LogoutReadSessionKeepsInvariant,
     RevokeRefreshTokenKeepsInvariant, RevokeAuthSessionKeepsInvariant,
     CreateRefreshTokenKeepsInvariant, CommitKeepsInvariant DEF Step
<1>2. ASSUME NEW r \in Requests, Abort(r)
      PROVE  IInv'
  BY <1>2, RejectKeepsInvariant DEF Abort, Answers
<1> QED
  BY <1>1, <1>2, StartKeepsInvariant, EnvironmentKeepsInvariant DEF Next

\* The invariant holds in every reachable state, for all values of the constants.
THEOREM Invariance == Spec => []IInv
  BY InitEstablishesInvariant, NextKeepsInvariant, PTL DEF Spec

\* Types: no row, no local of a request and no answer leaves its set.
THEOREM TypeCorrectness == Spec => []TypeOK
<1>1. IInv => TypeOK
  BY DEF IInv
<1> QED
  BY <1>1, Invariance, PTL

\* However many requests rotate tokens at once and whichever of them fail, a
\* session has at most one refresh token that can still be spent.
THEOREM AtMostOneSpendableToken == Spec => []OneSpendableToken
<1>1. IInv => OneSpendableToken
  BY DEF IInv, TablesOK
<1> QED
  BY <1>1, Invariance, PTL

\* A token is spent exactly if one token of its session was rotated from it.
THEOREM RotationIsAllOrNothing == Spec => []RotationIntact
<1>1. IInv => RotationIntact
  BY DEF IInv, TablesOK
<1> QED
  BY <1>1, Invariance, PTL

\* No race between refreshes reaches the unique index behind the row lock.
THEOREM UniqueIndexNeverViolated == Spec => []NoUniqueViolation
<1>1. IInv => NoUniqueViolation
  BY DEF IInv
<1> QED
  BY <1>1, Invariance, PTL

-----------------------------------------------------------------------------
(* What a step never undoes. *)

\* No step other than a commit writes the tables.
LEMMA OnlyCommitWrites ==
    ASSUME [Next]_vars, \A r \in Requests : ~Commit(r)
    PROVE  tokens' = tokens /\ sessions' = sessions
<1>1. ASSUME NEW r \in Requests, NEW answer, Reject(r, answer)
      PROVE  tokens' = tokens /\ sessions' = sessions
  BY <1>1 DEF Reject, tables
<1>2. ASSUME NEW r \in Requests, NEW label, NEW q, Move(r, label, q)
      PROVE  tokens' = tokens /\ sessions' = sessions
  BY <1>2 DEF Move, tables
<1>3. ASSUME NEW r \in Requests, Start(r) \/ Abort(r)
      PROVE  tokens' = tokens /\ sessions' = sessions
  BY <1>1, <1>2, <1>3 DEF Start, StartLogin, StartRefresh, StartLogout, Abort
<1>4. ASSUME NEW r \in Requests, Step(r)
      PROVE  tokens' = tokens /\ sessions' = sessions
  <2> USE DEF Continue, Locking
  <2>1. ASSUME LoginReadUser(r) \/ LoginIssue(r) \/ CreateAuthSession(r) \/ Begin(r)
        PROVE  tokens' = tokens /\ sessions' = sessions
    BY <1>1, <1>2, <2>1 DEF LoginReadUser, LoginIssue, CreateAuthSession, Begin
  <2>2. ASSUME RefreshLookup(r) \/ RefreshReadSession(r) \/ RefreshReadUser(r)
               \/ RefreshIssue(r) \/ MarkRefreshTokenUsed(r)
        PROVE  tokens' = tokens /\ sessions' = sessions
    BY <1>1, <1>2, <2>2 DEF RefreshLookup, RefreshReadSession, RefreshReadUser,
       RefreshIssue, MarkRefreshTokenUsed
  <2>3. ASSUME \/ LogoutLookup(r) \/ LogoutReadSession(r)
               \/ RevokeRefreshToken(r) \/ RevokeAuthSession(r)
        PROVE  tokens' = tokens /\ sessions' = sessions
    BY <1>1, <1>2, <2>3 DEF LogoutLookup, LogoutReadSession, RevokeRefreshToken,
       RevokeAuthSession
  <2>4. ASSUME MarkAuthSessionUsed(r) \/ CreateRefreshToken(r)
        PROVE  tokens' = tokens /\ sessions' = sessions
    BY <1>1, <1>2, <2>4 DEF MarkAuthSessionUsed, CreateRefreshToken
  <2> QED
    BY <1>4, <2>1, <2>2, <2>3, <2>4 DEF Step
<1> QED
  BY <1>3, <1>4 DEF Next, Tick, DisableUser, vars

\* What is spent or revoked stays so: a commit sets its columns on the rows as
\* they are then, whatever its transaction had read of them (repository.go:55-85).
THEOREM NothingIsReopened == Spec => NothingReopens
<1> USE AuthAssumption, TokenAssumption
<1> DEFINE StaysClosed ==
        /\ \A t \in TokenIDs : Stored(t) =>
              /\ tokens[t].lastUsed # Null => tokens'[t].lastUsed # Null
              /\ tokens[t].revoked # Null => tokens'[t].revoked # Null
        /\ \A s \in SessionIDs : (sessions[s] # Null /\ sessions[s].revoked # Null)
              => sessions'[s].revoked # Null
<1>1. ASSUME IInv, NEW r \in Requests, Commit(r)
      PROVE  StaysClosed
  <2> DEFINE q == req[r]
  <2>1. pc[r] = "commit" /\ sessions' = SessionsAfter(q) /\ tokens' = TokensAfter(q)
    BY <1>1 DEF Commit
  <2>2. q \in Request /\ q.at \in Int /\ q.at # Null
    BY <1>1, <2>1, AtCommit DEF Request
  <2>3. ASSUME NEW t \in TokenIDs, Stored(t)
        PROVE  tokens'[t] \in {tokens[t], TokenAfter(q, tokens[t])}
    <3>1. "createToken" \in q.writes => q.newToken \in TokenIDs
      BY <1>1, <2>1, AtCommit
    <3>2. q.newToken \in TokenIDs => t # q.newToken
      BY <1>1, <2>1, <2>3, AtCommit DEF Stored, Rows
    <3> QED
      BY <2>1, <2>3, <3>1, <3>2 DEF TokensAfter, Stored
  <2>4. ASSUME NEW t \in TokenIDs, Stored(t)
        PROVE  /\ tokens[t].lastUsed # Null => tokens'[t].lastUsed # Null
               /\ tokens[t].revoked # Null => tokens'[t].revoked # Null
    <3>1. tokens[t] \in TokenRow
      BY <1>1, <2>4 DEF IInv, TypeOK, Stored
    <3> QED
      BY <2>2, <2>3, <2>4, <3>1 DEF TokenAfter, TokenRow
  <2>5. ASSUME NEW s \in SessionIDs, sessions[s] # Null, sessions[s].revoked # Null
        PROVE  sessions'[s].revoked # Null
    <3>1. sessions[s] \in SessionRow
      BY <1>1, <2>5 DEF IInv, TypeOK
    <3>2. "createSession" \in q.writes => sessions[q.session] = Null
      BY <1>1, <2>1, AtCommit
    <3>3. sessions'[s] \in {sessions[s], SessionAfter(q, sessions[s])}
      BY <2>1, <2>5, <3>2 DEF SessionsAfter
    <3> QED
      BY <2>2, <2>5, <3>1, <3>3 DEF SessionAfter, SessionRow
  <2> QED
    BY <2>4, <2>5
<1>2. ASSUME IInv, [Next]_vars
      PROVE  [StaysClosed]_vars
  <2>1. CASE \E r \in Requests : Commit(r)
    BY <1>1, <1>2, <2>1
  <2>2. CASE \A r \in Requests : ~Commit(r)
    BY <1>2, <2>2, OnlyCommitWrites
  <2> QED
    BY <2>1, <2>2
<1> QED
  BY <1>2, Invariance, PTL DEF Spec, NothingReopens
=============================================================================
