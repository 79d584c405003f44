--------------------------- MODULE DirectoryProofs ---------------------------
(***************************************************************************)
(* Proofs about Directory: any users, organizations, products, keys and    *)
(* requests, any pool and any operator.  The invariant says of each        *)
(* request where its operation can be, that the key it has inserted is     *)
(* its own until it ends, and what the history has seen of its grounds.    *)
(***************************************************************************)
EXTENDS Directory, TLAPS

Creating == {"register", "createOrganization"}

\* The operation a label belongs to and the statements it has run there.
AtLabel(label, q) ==
    /\ label = "idle" <=> q = NoRequest
    /\ label \in {"validate", "begin"} => q.op \in Creating
    /\ label = "insertUser" => q.op = "register"
    /\ label \in {"insertOrganization", "insertMembership"} => q.op = "createOrganization"
    /\ label = "commit" => q.op \in Creating
    /\ label \in {"readOrganization", "readMembership"} => q.op \in TenantOperations
    /\ label = "insertProduct" => q.op = "createProduct"
    /\ label = "readProduct" => q.op = "getProduct"
    /\ q.writes = CASE label = "insertMembership" -> {"organization"}
                    [] label = "commit" /\ q.op = "register" -> {"user"}
                    [] label = "commit" /\ q.op # "register" -> {"organization", "membership"}
                    [] OTHER -> {}

\* What a request presents and has drawn.
InputOK(label, q) ==
    /\ q.op \notin {"none", "register"} => q.user \in UserIDs
    /\ q.op \in Creating /\ label # "validate" =>
           IF q.op = "register" THEN q.key \in Emails /\ q.id \in UserIDs
           ELSE q.key \in Slugs /\ q.id \in OrganizationIDs
    /\ q.op \in Creating => q.key \in {Malformed} \cup
                               (IF q.op = "register" THEN Emails ELSE Slugs)
    /\ (label = "validate" \/ q.op \notin Creating) => q.id = Null
    /\ label \in {"readMembership", "insertProduct", "readProduct"} => q.org \in OrganizationIDs
    /\ q.op = "createProduct" => q.key \in SKUs \cup {Malformed}

\* What a request will insert is not there yet.
InsertsNew(q) ==
    /\ q.id \in UserIDs => users[q.id] = Null
    /\ q.id \in OrganizationIDs => organizations[q.id] = Null
    /\ "user" \in q.writes => ~EmailTaken(q.key)
    /\ "organization" \in q.writes => ~SlugTaken(q.key)

\* What the history has seen of a request that is at a label.
SeenAt(label, grounds) ==
    /\ label \in {"readMembership", "insertProduct", "readProduct"} => "organization" \in grounds
    /\ label \in {"insertProduct", "readProduct"} => "membership" \in grounds

SeenOK(r) ==
    /\ pc[r] # "idle" => GroundsOf(req[r]) \subseteq seen[r]
    /\ SeenAt(pc[r], seen[r])

\* Two requests have drawn different ids, and inserted different keys.
Apart(q, p) ==
    /\ q.id # Null => p.id # q.id
    /\ \A table \in {"user", "organization"} :
           (table \in q.writes /\ table \in p.writes) => p.key # q.key

RequestsOK ==
    /\ \A r \in Requests : AtLabel(pc[r], req[r]) /\ InputOK(pc[r], req[r])
                           /\ InsertsNew(req[r]) /\ SeenOK(r)
    /\ \A r, p \in Requests : r # p => Apart(req[r], req[p])

AnswersOK == ConflictMeansTaken /\ GrantedWithGrounds /\ TenantIsolation

DirectoryInv == TypeOK /\ RequestsOK /\ NoOrphanOrganization /\ KeysUnique /\ AnswersOK

-----------------------------------------------------------------------------
(* The history, and the reply, after a step.                               *)

\* After any step the history of a running request holds what it held before, and
\* the grounds of the moment.
LEMMA WitnessEffect ==
    ASSUME DirectoryInv, Witness, pc' \in [Requests -> OutsideTx \cup InsideTx]
    PROVE  /\ seen' \in [Requests -> SUBSET Grounds]
           /\ \A r \in Requests : pc'[r] # "idle" =>
                  seen[r] \subseteq seen'[r] /\ GroundsOf(req[r])' \subseteq seen'[r]
           /\ \A r \in Requests : pc'[r] = "idle" => seen'[r] = {}
<1>1. \A r \in Requests : GroundsOf(req[r])' \subseteq Grounds
  BY DEF GroundsOf
<1> QED
  BY <1>1 DEF Witness, DirectoryInv, TypeOK

LEMMA NoRequestFits ==
    /\ NoRequest \in Request
    /\ AtLabel("idle", NoRequest) /\ InputOK("idle", NoRequest) /\ InsertsNew(NoRequest)
    /\ \A g : SeenAt("idle", g)
    /\ \A q : Apart(NoRequest, q)
    /\ \A q \in Request : Apart(q, NoRequest)
<1> USE DirectoryAssumption DEF DirectoryAssumption
<1>1. NoRequest \in Request
  BY DEF NoRequest, Request, Operations
<1>2. AtLabel("idle", NoRequest) /\ InputOK("idle", NoRequest) /\ InsertsNew(NoRequest)
  BY DEF AtLabel, InputOK, InsertsNew, NoRequest, Creating, Ids, TenantOperations
<1>3. \A g : SeenAt("idle", g)
  BY DEF SeenAt
<1>4. \A q : Apart(NoRequest, q)
  BY DEF Apart, NoRequest
<1>5. \A q \in Request : Apart(q, NoRequest)
  BY DEF Apart, NoRequest
<1> QED
  BY <1>1, <1>2, <1>3, <1>4, <1>5

-----------------------------------------------------------------------------
(* A request that moves on: no table changes.                              *)

LEMMA TablesStay ==
    ASSUME UNCHANGED tables
    PROVE  /\ \A q : InsertsNew(q)' <=> InsertsNew(q)
           /\ \A q : GroundsOf(q)' = GroundsOf(q)
           /\ NoOrphanOrganization' <=> NoOrphanOrganization
           /\ KeysUnique' <=> KeysUnique
<1>1. UNCHANGED <<users, organizations, products, memberships>>
  BY DEF tables
<1>2. \A q : InsertsNew(q)' <=> InsertsNew(q)
  BY <1>1 DEF InsertsNew, EmailTaken, SlugTaken
<1>3. \A q : GroundsOf(q)' = GroundsOf(q)
  BY <1>1 DEF GroundsOf
<1>4. (NoOrphanOrganization' <=> NoOrphanOrganization) /\ (KeysUnique' <=> KeysUnique)
  BY <1>1 DEF NoOrphanOrganization, KeysUnique
<1> QED
  BY <1>2, <1>3, <1>4

LEMMA ContinueKeeps ==
    ASSUME DirectoryInv, NEW r \in Requests, NEW label \in OutsideTx \cup InsideTx,
           label # "idle", NEW q \in Request, Continue(r, label, q),
           AtLabel(label, q), InputOK(label, q), InsertsNew(q),
           SeenAt(label, seen[r]),
           \A p \in Requests \ {r} : Apart(q, req[p]) /\ Apart(req[p], q)
    PROVE  DirectoryInv'
<1>1. /\ pc' = [pc EXCEPT ![r] = label] /\ req' = [req EXCEPT ![r] = q]
      /\ reply' = NoReply /\ UNCHANGED tables /\ Witness
  BY DEF Continue
<1>2. \A p \in Requests : /\ pc'[p] = IF p = r THEN label ELSE pc[p]
                          /\ req'[p] = IF p = r THEN q ELSE req[p]
  BY <1>1 DEF DirectoryInv, TypeOK
<1>3. TypeOK'
  <2>1. NoReply \in [request : Request, seen : SUBSET Grounds, answer : Answers]
    BY NoRequestFits DEF NoReply, Answers
  <2>2. pc' \in [Requests -> OutsideTx \cup InsideTx] /\ req' \in [Requests -> Request]
    BY <1>1 DEF DirectoryInv, TypeOK
  <2>3. seen' \in [Requests -> SUBSET Grounds]
    BY <1>1, <2>2, WitnessEffect
  <2> QED
    BY <1>1, <2>1, <2>2, <2>3 DEF DirectoryInv, TypeOK, tables
<1>4. ASSUME NEW p \in Requests
      PROVE  AtLabel(pc[p], req[p])' /\ InputOK(pc[p], req[p])'
             /\ InsertsNew(req[p])' /\ SeenOK(p)'
  <2>1. AtLabel(pc[p], req[p])'
    BY <1>2 DEF DirectoryInv, RequestsOK, AtLabel
  <2>2. InputOK(pc[p], req[p])'
    BY <1>2 DEF DirectoryInv, RequestsOK, InputOK
  <2>3. InsertsNew(req[p])'
    <3>1. CASE p = r
      BY <1>1, <1>2, <3>1 DEF InsertsNew, tables, EmailTaken, SlugTaken
    <3>2. CASE p # r
      BY <1>1, <1>2, <3>2 DEF DirectoryInv, RequestsOK, InsertsNew, tables, EmailTaken, SlugTaken
    <3> QED
      BY <3>1, <3>2
  <2>4. SeenOK(p)'
    <3>1. pc'[p] # "idle" => seen[p] \subseteq seen'[p] /\ GroundsOf(req[p])' \subseteq seen'[p]
      BY <1>1, <1>3, WitnessEffect DEF TypeOK
    <3>2. SeenAt(pc'[p], seen[p])
      BY <1>2 DEF DirectoryInv, RequestsOK, SeenOK
    <3> QED
      BY <3>1, <3>2 DEF SeenOK, SeenAt
  <2> QED
    BY <2>1, <2>2, <2>3, <2>4
<1>5. RequestsOK'
  <2>1. \A p, o \in Requests : p # o => Apart(req[p], req[o])'
    BY <1>2 DEF DirectoryInv, RequestsOK, Apart
  <2> QED
    BY <1>4, <2>1 DEF RequestsOK
<1>6. AnswersOK'
  BY <1>1 DEF AnswersOK, ConflictMeansTaken, GrantedWithGrounds, TenantIsolation, Succeeded,
              NoReply
<1> QED
  BY <1>1, <1>3, <1>5, <1>6, TablesStay DEF DirectoryInv

\* The request leaves with an answer that is no conflict and no success of a route of
\* an organization, or that the tables and the history bear out.
AnswerOK(q, grounds, answer) ==
    /\ answer = "exists" =>
           \/ q.op = "register" /\ EmailTaken(q.key)
           \/ q.op = "createOrganization" /\ SlugTaken(q.key)
           \/ q.op = "createProduct" /\ SKUTaken(q.org, q.key)
    /\ (answer \in {"ok", "lost"} /\ q.op \in TenantOperations) => grounds = Grounds
    /\ (answer \in {"ok", "lost"} /\ q.op = "getProduct") => products[q.product].org = q.org


\* A request that is answered takes its locals with it, whatever it leaves in the tables.
LEMMA AnswerKeeps ==
    ASSUME DirectoryInv, NEW r \in Requests, NEW answer \in Answers, Answer(r, answer), Witness,
           users' \in [UserIDs -> UserRow \cup {Null}],
           organizations' \in [OrganizationIDs -> OrganizationRow \cup {Null}],
           products' \in [ProductIDs -> ProductRow \cup {Null}],
           memberships' \in [OrganizationIDs \X UserIDs -> MembershipRow \cup {Null}],
           \A p \in Requests \ {r} : InsertsNew(req[p])'
    PROVE  TypeOK' /\ RequestsOK'
<1>1. /\ pc' = [pc EXCEPT ![r] = "idle"] /\ req' = [req EXCEPT ![r] = NoRequest]
      /\ reply' = [request |-> req[r], seen |-> seen[r], answer |-> answer]
  BY DEF Answer
<1>2. \A p \in Requests : /\ pc'[p] = IF p = r THEN "idle" ELSE pc[p]
                          /\ req'[p] = IF p = r THEN NoRequest ELSE req[p]
  BY <1>1 DEF DirectoryInv, TypeOK
<1>3. TypeOK'
  <2>1. reply' \in [request : Request, seen : SUBSET Grounds, answer : Answers]
    BY <1>1 DEF DirectoryInv, TypeOK
  <2>2. pc' \in [Requests -> OutsideTx \cup InsideTx] /\ req' \in [Requests -> Request]
    BY <1>1, NoRequestFits DEF DirectoryInv, TypeOK, OutsideTx
  <2>3. seen' \in [Requests -> SUBSET Grounds]
    BY <2>2, WitnessEffect
  <2> QED
    BY <2>1, <2>2, <2>3 DEF TypeOK
<1>4. ASSUME NEW p \in Requests
      PROVE  AtLabel(pc[p], req[p])' /\ InputOK(pc[p], req[p])'
             /\ InsertsNew(req[p])' /\ SeenOK(p)'
  <2>1. AtLabel(pc[p], req[p])'
    BY <1>2, NoRequestFits DEF DirectoryInv, RequestsOK, AtLabel
  <2>2. InputOK(pc[p], req[p])'
    BY <1>2, NoRequestFits DEF DirectoryInv, RequestsOK, InputOK
  <2>3. InsertsNew(req[p])'
    <3>1. CASE p = r
      BY <1>2, <3>1, DirectoryAssumption DEF DirectoryAssumption, InsertsNew, NoRequest, Ids
    <3>2. CASE p # r
      BY <1>2, <3>2 DEF InsertsNew
    <3> QED
      BY <3>1, <3>2
  <2>4. SeenOK(p)'
    <3>1. pc'[p] # "idle" => seen[p] \subseteq seen'[p] /\ GroundsOf(req[p])' \subseteq seen'[p]
      BY <1>3, WitnessEffect DEF TypeOK
    <3>2. SeenAt(pc'[p], seen[p])
      BY <1>2, NoRequestFits DEF DirectoryInv, RequestsOK, SeenOK
    <3> QED
      BY <3>1, <3>2 DEF SeenOK, SeenAt
  <2> QED
    BY <2>1, <2>2, <2>3, <2>4
<1>5. RequestsOK'
  <2>1. \A p, o \in Requests : p # o => Apart(req[p], req[o])'
    BY <1>2, NoRequestFits DEF DirectoryInv, TypeOK, RequestsOK, Apart
  <2> QED
    BY <1>4, <2>1 DEF RequestsOK
<1> QED
  BY <1>3, <1>5

\* An answer that leaves the tables as they are, and that they and the history bear out.
LEMMA ConcludeKeeps ==
    ASSUME DirectoryInv, NEW r \in Requests, NEW answer \in Answers, Conclude(r, answer),
           AnswerOK(req[r], seen[r], answer)
    PROVE  DirectoryInv'
<1>1. Answer(r, answer) /\ Witness /\ UNCHANGED <<users, organizations, products, memberships>>
  BY DEF Conclude, tables
<1>2. \A p \in Requests : InsertsNew(req[p])'
  <2> SUFFICES ASSUME NEW p \in Requests PROVE InsertsNew(req[p])'
    OBVIOUS
  <2>1. req'[p] = req[p] \/ req'[p] = NoRequest
    BY <1>1 DEF Answer, DirectoryInv, TypeOK
  <2> QED
    BY <1>1, <2>1, NoRequestFits
       DEF DirectoryInv, RequestsOK, InsertsNew, EmailTaken, SlugTaken
<1>3. TypeOK' /\ RequestsOK'
  BY <1>1, <1>2, AnswerKeeps DEF DirectoryInv, TypeOK
<1>4. AnswersOK'
  <2>1. reply' = [request |-> req[r], seen |-> seen[r], answer |-> answer]
    BY <1>1 DEF Answer
  <2>2. ConflictMeansTaken'
    BY <1>1, <2>1 DEF AnswerOK, ConflictMeansTaken, EmailTaken, SlugTaken, SKUTaken
  <2>3. GrantedWithGrounds' /\ TenantIsolation'
    BY <1>1, <2>1 DEF AnswerOK, GrantedWithGrounds, TenantIsolation, Succeeded,
                      TenantOperations, Grounds
  <2> QED
    BY <2>2, <2>3 DEF AnswersOK
<1> QED
  BY <1>1, <1>3, <1>4, TablesStay DEF DirectoryInv, tables

-----------------------------------------------------------------------------
(* What a request knows at its label, and how it moves without drawing an  *)
(* id or inserting a key.                                                  *)

LEMMA Known ==
    ASSUME DirectoryInv, NEW r \in Requests
    PROVE  /\ req[r] \in Request /\ seen[r] \subseteq Grounds
           /\ AtLabel(pc[r], req[r]) /\ InputOK(pc[r], req[r])
           /\ InsertsNew(req[r]) /\ SeenOK(r)
           /\ \A p \in Requests \ {r} : Apart(req[r], req[p]) /\ Apart(req[p], req[r])
  BY DEF DirectoryInv, TypeOK, RequestsOK

\* A request that goes on with the locals it has.
LEMMA SameLocalsKeep ==
    ASSUME DirectoryInv, NEW r \in Requests, NEW label \in OutsideTx \cup InsideTx,
           label # "idle", Continue(r, label, req[r]),
           AtLabel(label, req[r]), InputOK(label, req[r]), SeenAt(label, seen[r])
    PROVE  DirectoryInv'
  BY Known, ContinueKeeps

\* A request that ends without a success or a conflict.
LEMMA FailureKeeps ==
    ASSUME DirectoryInv, NEW r \in Requests,
           NEW answer \in {"invalid", "denied", "notFound", "unreadable", "error"},
           Conclude(r, answer)
    PROVE  DirectoryInv'
<1>1. answer \in Answers /\ AnswerOK(req[r], seen[r], answer)
  BY DEF Answers, AnswerOK
<1> QED
  BY <1>1, ConcludeKeeps

-----------------------------------------------------------------------------
(* Starting.                                                               *)

LEMMA StartKeeps ==
    ASSUME DirectoryInv, NEW r \in Requests, StartSomething(r)
    PROVE  DirectoryInv'
<1> USE DirectoryAssumption DEF DirectoryAssumption
<1>0. NoRequest \in Request
  BY NoRequestFits
<1>1. ASSUME NEW q \in Request, NEW label \in {"validate", "readOrganization"},
             Start(r, q, label), q.id = Null, q.writes = {},
             AtLabel(label, q), InputOK(label, q)
      PROVE  DirectoryInv'
  <2>1. label \in OutsideTx \cup InsideTx /\ label # "idle" /\ SeenAt(label, seen[r])
    BY DEF OutsideTx, SeenAt
  <2>2. InsertsNew(q)
    BY <1>1 DEF InsertsNew, Ids
  <2>3. \A p \in Requests \ {r} : Apart(q, req[p]) /\ Apart(req[p], q)
    BY <1>1 DEF Apart
  <2> QED
    BY <1>1, <2>1, <2>2, <2>3, ContinueKeeps DEF Start
<1>2. ASSUME NEW e \in Emails \cup Invalid, StartRegister(r, e)
      PROVE  DirectoryInv'
  <2> DEFINE q == [NoRequest EXCEPT !.op = "register", !.key = e]
  <2>1. q \in Request /\ q.id = Null /\ q.writes = {}
    BY <1>0 DEF NoRequest, Request, Operations, Keys
  <2>2. AtLabel("validate", q) /\ InputOK("validate", q)
    BY DEF AtLabel, InputOK, NoRequest, Creating
  <2> HIDE DEF q
  <2> QED
    BY <1>1, <1>2, <2>1, <2>2 DEF StartRegister, q
<1>3. ASSUME NEW u \in UserIDs, NEW s \in Slugs \cup Invalid, StartCreateOrganization(r, u, s)
      PROVE  DirectoryInv'
  <2> DEFINE q == [NoRequest EXCEPT !.op = "createOrganization", !.user = u, !.key = s]
  <2>1. q \in Request /\ q.id = Null /\ q.writes = {}
    BY <1>0 DEF NoRequest, Request, Operations, Keys
  <2>2. AtLabel("validate", q) /\ InputOK("validate", q)
    BY DEF AtLabel, InputOK, NoRequest, Creating
  <2> HIDE DEF q
  <2> QED
    BY <1>1, <1>3, <2>1, <2>2 DEF StartCreateOrganization, q
<1>4. ASSUME NEW op \in TenantOperations, NEW u \in UserIDs,
             NEW o \in OrganizationIDs \cup Invalid, NEW k \in SKUs \cup Invalid \cup {Null},
             NEW p \in ProductIDs \cup Invalid \cup {Null},
             op = "createProduct" => k # Null,
             StartTenantOperation(r, op, u, o, k, p)
      PROVE  DirectoryInv'
  <2> DEFINE q == [NoRequest EXCEPT !.op = op, !.user = u, !.org = o, !.key = k, !.product = p]
  <2>1. q \in Request /\ q.id = Null /\ q.writes = {}
    BY <1>0 DEF NoRequest, Request, Operations, TenantOperations, Keys
  <2>2. AtLabel("readOrganization", q) /\ InputOK("readOrganization", q)
    BY <1>4 DEF AtLabel, InputOK, NoRequest, Creating, TenantOperations
  <2> HIDE DEF q
  <2> QED
    BY <1>1, <1>4, <2>1, <2>2 DEF StartTenantOperation, q
<1>5. \A s \in SKUs \cup Invalid : s # Null
  BY DEF Keys
<1>6. {"getOrganization", "createProduct", "getProduct"} = TenantOperations
  BY DEF TenantOperations
<1>7. ASSUME NEW u \in UserIDs, NEW o \in OrganizationIDs \cup Invalid,
             \/ StartTenantOperation(r, "getOrganization", u, o, Null, Null)
             \/ \E s \in SKUs \cup Invalid :
                    StartTenantOperation(r, "createProduct", u, o, s, Null)
             \/ \E p \in ProductIDs \cup Invalid :
                    StartTenantOperation(r, "getProduct", u, o, Null, p)
      PROVE  DirectoryInv'
  <2>1. CASE StartTenantOperation(r, "getOrganization", u, o, Null, Null)
    BY <1>4, <1>6, <2>1
  <2>2. ASSUME NEW s \in SKUs \cup Invalid,
               StartTenantOperation(r, "createProduct", u, o, s, Null)
        PROVE  DirectoryInv'
    BY <1>4, <1>5, <1>6, <2>2
  <2>3. ASSUME NEW p \in ProductIDs \cup Invalid,
               StartTenantOperation(r, "getProduct", u, o, Null, p)
        PROVE  DirectoryInv'
    BY <1>4, <1>6, <2>3
  <2> QED
    BY <1>7, <2>1, <2>2, <2>3
<1> QED
  BY <1>2, <1>3, <1>7 DEF StartSomething

-----------------------------------------------------------------------------
(* Registration and the creation of an organization.                       *)

\* A request draws an id nobody has, and its valid input goes on.
LEMMA DrawKeeps ==
    ASSUME DirectoryInv, NEW r \in Requests, pc[r] = "validate", req[r].key # Malformed,
           NEW i \in (IF req[r].op = "register" THEN Fresh(UserIDs, users)
                      ELSE Fresh(OrganizationIDs, organizations)),
           Continue(r, "begin", [req[r] EXCEPT !.id = i])
    PROVE  DirectoryInv'
<1> USE DirectoryAssumption DEF DirectoryAssumption
<1> DEFINE q == [req[r] EXCEPT !.id = i]
<1>1. /\ req[r] \in Request /\ AtLabel("validate", req[r]) /\ InputOK("validate", req[r])
      /\ InsertsNew(req[r]) /\ \A p \in Requests \ {r} : Apart(req[r], req[p]) /\ Apart(req[p], req[r])
  BY Known
<1>2. /\ i \in UserIDs \cup OrganizationIDs /\ \A p \in Requests : req[p].id # i
      /\ IF req[r].op = "register" THEN i \in UserIDs /\ users[i] = Null
         ELSE i \in OrganizationIDs /\ organizations[i] = Null
  BY DEF Fresh
<1>3. /\ q \in Request /\ q.op = req[r].op /\ q.key = req[r].key /\ q.user = req[r].user
      /\ q.id = i /\ q.writes = req[r].writes /\ q.org = req[r].org
  BY <1>1, <1>2 DEF Request
<1> HIDE DEF q
<1>4. AtLabel("begin", q) /\ q.writes = {}
  BY <1>1, <1>3 DEF AtLabel, NoRequest, Creating
<1>5. InputOK("begin", q)
  BY <1>1, <1>2, <1>3, <1>4 DEF InputOK, AtLabel, Creating
<1>6. InsertsNew(q)
  BY <1>2, <1>3, <1>4 DEF InsertsNew
<1>7. \A p \in Requests \ {r} : Apart(q, req[p]) /\ Apart(req[p], q)
  BY <1>2, <1>3, <1>4 DEF Apart
<1>8. "begin" \in OutsideTx /\ SeenAt("begin", seen[r])
  BY DEF OutsideTx, SeenAt
<1> QED
  BY <1>3, <1>4, <1>5, <1>6, <1>7, <1>8, ContinueKeeps DEF q

LEMMA ValidateKeeps ==
    ASSUME DirectoryInv, NEW r \in Requests, ValidateRegister(r) \/ ValidateOrganization(r)
    PROVE  DirectoryInv'
<1>1. CASE ValidateRegister(r)
  BY <1>1, FailureKeeps, DrawKeeps DEF ValidateRegister
<1>2. CASE ValidateOrganization(r)
  BY <1>2, FailureKeeps, DrawKeeps DEF ValidateOrganization
<1> QED
  BY <1>1, <1>2

LEMMA BeginKeeps ==
    ASSUME DirectoryInv, NEW r \in Requests, Begin(r)
    PROVE  DirectoryInv'
<1> DEFINE label == IF req[r].op = "register" THEN "insertUser" ELSE "insertOrganization"
<1>1. pc[r] = "begin" /\ AtLabel("begin", req[r]) /\ InputOK("begin", req[r])
      /\ Continue(r, label, req[r])
  BY Known DEF Begin
<1>2. label \in OutsideTx \cup InsideTx /\ label # "idle" /\ SeenAt(label, seen[r])
  BY DEF InsideTx, SeenAt
<1>3. AtLabel(label, req[r]) /\ InputOK(label, req[r])
  BY <1>1 DEF AtLabel, InputOK, Creating, NoRequest, TenantOperations
<1> HIDE DEF label
<1> QED
  BY <1>1, <1>2, <1>3, SameLocalsKeep

\* A request inserts a row: its effect waits, and so do others that insert the same key.
LEMMA WroteKeeps ==
    ASSUME DirectoryInv, NEW r \in Requests, NEW table \in {"user", "organization", "membership"},
           NEW label \in OutsideTx \cup InsideTx, label # "idle",
           Continue(r, label, Wrote(req[r], table)),
           AtLabel(label, Wrote(req[r], table)), InputOK(pc[r], req[r]),
           pc[r] \in InsideTx, label \in {"insertMembership", "commit"},
           table = "user" => ~EmailTaken(req[r].key),
           table = "organization" => ~SlugTaken(req[r].key),
           table # "membership" => ~KeyPending(r, table)
    PROVE  DirectoryInv'
<1> DEFINE q == Wrote(req[r], table)
<1>1. req[r] \in Request /\ InsertsNew(req[r])
      /\ \A p \in Requests \ {r} : Apart(req[r], req[p]) /\ Apart(req[p], req[r])
  BY Known
<1>2. /\ q \in Request /\ q.op = req[r].op /\ q.key = req[r].key /\ q.user = req[r].user
      /\ q.id = req[r].id /\ q.writes = req[r].writes \cup {table} /\ q.org = req[r].org
  BY <1>1 DEF Request, Wrote
<1>3. AtLabel(label, q)
  OBVIOUS
<1> HIDE DEF q
<1>4. InputOK(label, q)
  BY <1>2, <1>3 DEF InputOK, AtLabel, InsideTx, Creating
<1>5. InsertsNew(q)
  BY <1>1, <1>2 DEF InsertsNew
<1>6. \A p \in Requests \ {r} : Apart(q, req[p]) /\ Apart(req[p], q)
  BY <1>1, <1>2 DEF Apart, KeyPending
<1>7. SeenAt(label, seen[r])
  BY DEF SeenAt
<1> QED
  BY <1>2, <1>3, <1>4, <1>5, <1>6, <1>7, ContinueKeeps DEF q

LEMMA InsertUserKeeps ==
    ASSUME DirectoryInv, NEW r \in Requests, InsertUser(r)
    PROVE  DirectoryInv'
<1>1. req[r] \in Request /\ AtLabel("insertUser", req[r]) /\ InputOK("insertUser", req[r])
      /\ pc[r] = "insertUser"
  BY Known DEF InsertUser
<1>2. req[r].op = "register" /\ req[r].writes = {}
  BY <1>1 DEF AtLabel
<1>3. CASE EmailTaken(req[r].key)
  <2>1. "exists" \in Answers /\ AnswerOK(req[r], seen[r], "exists")
    BY <1>2, <1>3 DEF Answers, AnswerOK
  <2> QED
    BY <1>3, <2>1, ConcludeKeeps DEF InsertUser
<1>4. CASE ~EmailTaken(req[r].key)
  <2>1. AtLabel("commit", Wrote(req[r], "user"))
    BY <1>1, <1>2 DEF AtLabel, Wrote, Request, Creating, NoRequest
  <2>2. "commit" \in InsideTx /\ "insertUser" \in InsideTx
    BY DEF InsideTx
  <2> QED
    BY <1>1, <1>4, <2>1, <2>2, WroteKeeps DEF InsertUser
<1> QED
  BY <1>3, <1>4

LEMMA InsertOrganizationKeeps ==
    ASSUME DirectoryInv, NEW r \in Requests, InsertOrganization(r)
    PROVE  DirectoryInv'
<1>1. req[r] \in Request /\ AtLabel("insertOrganization", req[r])
      /\ InputOK("insertOrganization", req[r]) /\ pc[r] = "insertOrganization"
  BY Known DEF InsertOrganization
<1>2. req[r].op = "createOrganization" /\ req[r].writes = {}
  BY <1>1 DEF AtLabel
<1>3. CASE SlugTaken(req[r].key)
  <2>1. "exists" \in Answers /\ AnswerOK(req[r], seen[r], "exists")
    BY <1>2, <1>3 DEF Answers, AnswerOK
  <2> QED
    BY <1>3, <2>1, ConcludeKeeps DEF InsertOrganization
<1>4. CASE ~SlugTaken(req[r].key)
  <2>1. AtLabel("insertMembership", Wrote(req[r], "organization"))
    BY <1>1, <1>2 DEF AtLabel, Wrote, Request, Creating, NoRequest
  <2>2. "insertMembership" \in InsideTx /\ "insertOrganization" \in InsideTx
    BY DEF InsideTx
  <2> QED
    BY <1>1, <1>4, <2>1, <2>2, WroteKeeps DEF InsertOrganization
<1> QED
  BY <1>3, <1>4

LEMMA InsertMembershipKeeps ==
    ASSUME DirectoryInv, NEW r \in Requests, InsertMembership(r)
    PROVE  DirectoryInv'
<1>1. req[r] \in Request /\ AtLabel("insertMembership", req[r])
      /\ InputOK("insertMembership", req[r]) /\ pc[r] = "insertMembership"
  BY Known DEF InsertMembership
<1>2. AtLabel("commit", Wrote(req[r], "membership"))
  BY <1>1 DEF AtLabel, Wrote, Request, Creating, NoRequest
<1>3. "commit" \in InsideTx /\ "insertMembership" \in InsideTx
  BY DEF InsideTx
<1> QED
  BY <1>1, <1>2, <1>3, WroteKeeps DEF InsertMembership

\* What the commit of a registration, and of an organization with its owner, leaves.
LEMMA CommitEffect ==
    ASSUME DirectoryInv, NEW r \in Requests, Commit(r)
    PROVE  /\ \/ /\ req[r].op = "register" /\ req[r].id \in UserIDs /\ req[r].key \in Emails
                 /\ "user" \in req[r].writes
                 /\ users' = [users EXCEPT ![req[r].id] = [email |-> req[r].key]]
                 /\ UNCHANGED <<organizations, memberships>>
              \/ /\ req[r].op = "createOrganization" /\ req[r].id \in OrganizationIDs
                 /\ req[r].key \in Slugs /\ req[r].user \in UserIDs
                 /\ "organization" \in req[r].writes
                 /\ organizations' = [organizations EXCEPT ![req[r].id] = NewOrganization(req[r])]
                 /\ memberships' = [memberships EXCEPT ![<<req[r].id, req[r].user>>] = Owner]
                 /\ UNCHANGED users
           /\ UNCHANGED products /\ Witness
           /\ Answer(r, "ok") \/ Answer(r, "lost")
<1> USE DEF Commit
<1>1. /\ AtLabel("commit", req[r]) /\ InputOK("commit", req[r])
      /\ req[r].op \in Creating
  BY Known DEF AtLabel
<1>2. /\ users \in [UserIDs -> UserRow \cup {Null}]
      /\ organizations \in [OrganizationIDs -> OrganizationRow \cup {Null}]
      /\ memberships \in [OrganizationIDs \X UserIDs -> MembershipRow \cup {Null}]
  BY DEF DirectoryInv, TypeOK
<1>3. CASE req[r].op = "register"
  <2>1. req[r].writes = {"user"} /\ req[r].id \in UserIDs /\ req[r].key \in Emails
    BY <1>1, <1>3 DEF AtLabel, InputOK
  <2> QED
    BY <1>2, <1>3, <2>1 DEF Written
<1>4. CASE req[r].op = "createOrganization"
  <2>1. /\ req[r].writes = {"organization", "membership"} /\ req[r].id \in OrganizationIDs
        /\ req[r].key \in Slugs /\ req[r].user \in UserIDs
    BY <1>1, <1>4 DEF AtLabel, InputOK, Creating
  <2>2. users' = users
    BY <1>2, <2>1 DEF Written
  <2>3. organizations' = [organizations EXCEPT ![req[r].id] = NewOrganization(req[r])]
    BY <1>2, <2>1 DEF Written
  <2>4. memberships' = [memberships EXCEPT ![<<req[r].id, req[r].user>>] = Owner]
    BY <1>2, <2>1 DEF Written
  <2> QED
    BY <1>4, <2>1, <2>2, <2>3, <2>4
<1> QED
  BY <1>1, <1>3, <1>4 DEF Creating

\* The rows a commit inserts are rows, and nobody else relies on their absence.
LEMMA CommitKeepsRequests ==
    ASSUME DirectoryInv, NEW r \in Requests, Commit(r)
    PROVE  TypeOK' /\ RequestsOK'
<1> USE DirectoryAssumption DEF DirectoryAssumption
<1>1. PICK answer \in {"ok", "lost"} : Answer(r, answer)
  BY CommitEffect
<1>2. /\ users' \in [UserIDs -> UserRow \cup {Null}]
      /\ organizations' \in [OrganizationIDs -> OrganizationRow \cup {Null}]
      /\ products' \in [ProductIDs -> ProductRow \cup {Null}]
      /\ memberships' \in [OrganizationIDs \X UserIDs -> MembershipRow \cup {Null}]
  <2>1. Owner \in MembershipRow
    BY DEF Owner, MembershipRow, Roles
  <2>2. CASE req[r].op = "register"
    <3>1. /\ users' = [users EXCEPT ![req[r].id] = [email |-> req[r].key]]
          /\ organizations' = organizations /\ memberships' = memberships
          /\ products' = products /\ req[r].id \in UserIDs /\ req[r].key \in Emails
      BY <2>2, CommitEffect
    <3>2. [email |-> req[r].key] \in UserRow
      BY <3>1 DEF UserRow
    <3> QED
      BY <3>1, <3>2 DEF DirectoryInv, TypeOK
  <2>3. CASE req[r].op # "register"
    <3>1. /\ organizations' = [organizations EXCEPT ![req[r].id] = NewOrganization(req[r])]
          /\ memberships' = [memberships EXCEPT ![<<req[r].id, req[r].user>>] = Owner]
          /\ users' = users /\ products' = products /\ req[r].key \in Slugs
      BY <2>3, CommitEffect
    <3>2. NewOrganization(req[r]) \in OrganizationRow
      BY <3>1 DEF OrganizationRow, NewOrganization
    <3> QED
      BY <2>1, <3>1, <3>2 DEF DirectoryInv, TypeOK
  <2> QED
    BY <2>2, <2>3
<1>3. ASSUME NEW p \in Requests \ {r} PROVE InsertsNew(req[p])'
  <2>1. /\ req'[p] = req[p] /\ InsertsNew(req[p]) /\ Apart(req[r], req[p])
        /\ req[r] \in Request
    BY <1>1, Known DEF Answer, DirectoryInv, TypeOK
  <2>2. CASE req[r].op = "register"
    <3>1. /\ users' = [users EXCEPT ![req[r].id] = [email |-> req[r].key]]
          /\ organizations' = organizations /\ req[r].id \in UserIDs
          /\ "user" \in req[r].writes
      BY <2>2, CommitEffect
    <3>2. req[p].id \in UserIDs => users'[req[p].id] = Null
      BY <2>1, <3>1 DEF InsertsNew, Apart, Ids
    <3>3. "user" \in req[p].writes => req[p].key # req[r].key /\ ~EmailTaken(req[p].key)
      BY <2>1, <3>1 DEF InsertsNew, Apart
    <3>4. "user" \in req[p].writes => \A u \in UserIDs : users'[u] # Null => users'[u].email # req[p].key
      BY <3>1, <3>3 DEF EmailTaken, DirectoryInv, TypeOK
    <3> QED
      BY <2>1, <3>1, <3>2, <3>4 DEF InsertsNew, EmailTaken, SlugTaken
  <2>3. CASE req[r].op # "register"
    <3>1. /\ organizations' = [organizations EXCEPT ![req[r].id] = NewOrganization(req[r])]
          /\ users' = users /\ req[r].id \in OrganizationIDs
          /\ "organization" \in req[r].writes
      BY <2>3, CommitEffect
    <3>2. req[p].id \in OrganizationIDs => organizations'[req[p].id] = Null
      BY <2>1, <3>1 DEF InsertsNew, Apart, Ids
    <3>3. "organization" \in req[p].writes => req[p].key # req[r].key /\ ~SlugTaken(req[p].key)
      BY <2>1, <3>1 DEF InsertsNew, Apart
    <3>4. "organization" \in req[p].writes =>
              \A o \in OrganizationIDs : organizations'[o] # Null => organizations'[o].slug # req[p].key
      BY <3>1, <3>3 DEF SlugTaken, DirectoryInv, TypeOK, NewOrganization
    <3> QED
      BY <2>1, <3>1, <3>2, <3>4 DEF InsertsNew, EmailTaken, SlugTaken
  <2> QED
    BY <2>2, <2>3
<1>4. answer \in Answers
  BY DEF Answers
<1> QED
  BY <1>1, <1>2, <1>3, <1>4, CommitEffect, AnswerKeeps

LEMMA CommitKeeps ==
    ASSUME DirectoryInv, NEW r \in Requests, Commit(r)
    PROVE  DirectoryInv'
<1> USE DirectoryAssumption DEF DirectoryAssumption
<1>1. req[r] \in Request /\ InsertsNew(req[r])
  BY Known
<1>2. NoOrphanOrganization'
  <2>1. CASE req[r].op = "register"
    BY <2>1, CommitEffect DEF DirectoryInv, NoOrphanOrganization
  <2>2. CASE req[r].op # "register"
    <3>1. /\ organizations' = [organizations EXCEPT ![req[r].id] = NewOrganization(req[r])]
          /\ memberships' = [memberships EXCEPT ![<<req[r].id, req[r].user>>] = Owner]
          /\ req[r].id \in OrganizationIDs /\ req[r].user \in UserIDs
      BY <2>2, CommitEffect
    <3>2. Owner # Null
      BY DEF Owner, MembershipRow, Roles
    <3>3. \A m \in OrganizationIDs \X UserIDs : memberships[m] # Null => memberships'[m] # Null
      BY <3>1, <3>2 DEF DirectoryInv, TypeOK
    <3>4. memberships'[<<req[r].id, req[r].user>>] # Null
      BY <3>1, <3>2 DEF DirectoryInv, TypeOK
    <3>5. \A o \in OrganizationIDs \ {req[r].id} : organizations'[o] = organizations[o]
      BY <3>1 DEF DirectoryInv, TypeOK
    <3> SUFFICES ASSUME NEW o \in OrganizationIDs, organizations'[o] # Null
                 PROVE  \E u \in UserIDs : memberships'[<<o, u>>] # Null
      BY DEF NoOrphanOrganization
    <3>6. CASE o = req[r].id
      BY <3>1, <3>4, <3>6
    <3>7. CASE o # req[r].id
      <4>1. PICK u \in UserIDs : memberships[<<o, u>>] # Null
        BY <3>5, <3>7 DEF DirectoryInv, NoOrphanOrganization
      <4> QED
        BY <3>3, <4>1
    <3> QED
      BY <3>6, <3>7
  <2> QED
    BY <2>1, <2>2
<1>3. KeysUnique'
  <2>1. CASE req[r].op = "register"
    <3>1. /\ users' = [users EXCEPT ![req[r].id] = [email |-> req[r].key]]
          /\ organizations' = organizations /\ products' = products
          /\ ~EmailTaken(req[r].key)
      BY <1>1, <2>1, CommitEffect DEF InsertsNew
    <3> QED
      BY <3>1 DEF KeysUnique, EmailTaken, DirectoryInv, TypeOK
  <2>2. CASE req[r].op # "register"
    <3>1. /\ organizations' = [organizations EXCEPT ![req[r].id] = NewOrganization(req[r])]
          /\ users' = users /\ products' = products
          /\ ~SlugTaken(req[r].key)
      BY <1>1, <2>2, CommitEffect DEF InsertsNew
    <3> QED
      BY <3>1 DEF KeysUnique, SlugTaken, NewOrganization, DirectoryInv, TypeOK
  <2> QED
    BY <2>1, <2>2
<1>4. AnswersOK'
  <2>1. req[r].op \notin TenantOperations
    BY CommitEffect DEF TenantOperations
  <2>2. reply'.request = req[r] /\ reply'.answer \in {"ok", "lost"}
    <3>1. Answer(r, "ok") \/ Answer(r, "lost")
      BY CommitEffect
    <3> QED
      BY <3>1 DEF Answer
  <2> QED
    BY <2>1, <2>2 DEF AnswersOK, ConflictMeansTaken, GrantedWithGrounds, TenantIsolation,
                      TenantOperations
<1> QED
  BY <1>2, <1>3, <1>4, CommitKeepsRequests DEF DirectoryInv

-----------------------------------------------------------------------------
(* The routes of an organization.                                          *)

\* The grounds of the moment are in the history already: every step puts them there.
LEMMA SeenNow ==
    ASSUME DirectoryInv, NEW r \in Requests, pc[r] # "idle", req[r].op \in TenantOperations
    PROVE  /\ OrganizationActive(req[r].org) => "organization" \in seen[r]
           /\ (req[r].user \in UserIDs
               /\ MembershipSuffices(req[r].org, req[r].user, PermissionOf(req[r].op)))
                  => "membership" \in seen[r]
<1>1. GroundsOf(req[r]) \subseteq seen[r]
  BY Known DEF SeenOK
<1>2. OrganizationActive(req[r].org) => "organization" \in GroundsOf(req[r])
  BY DEF OrganizationActive, GroundsOf, Grounds
<1>3. ASSUME req[r].user \in UserIDs,
             MembershipSuffices(req[r].org, req[r].user, PermissionOf(req[r].op))
      PROVE  "membership" \in GroundsOf(req[r])
  <2>1. /\ req[r].org \in OrganizationIDs /\ memberships[<<req[r].org, req[r].user>>] # Null
        /\ memberships[<<req[r].org, req[r].user>>].status = "active"
        /\ RoleAllowsPermission(memberships[<<req[r].org, req[r].user>>].role,
                                PermissionOf(req[r].op))
    BY <1>3 DEF MembershipSuffices
  <2>2. req[r].op = "createProduct" => memberships[<<req[r].org, req[r].user>>].role # "member"
    BY <2>1 DEF RoleAllowsPermission, PermissionOf, Reading, Permissions
  <2> QED
    BY <2>1, <2>2 DEF GroundsOf, Grounds, Sufficient
<1> QED
  BY <1>1, <1>2, <1>3

LEMMA ReadOrganizationKeeps ==
    ASSUME DirectoryInv, NEW r \in Requests, ReadOrganization(r)
    PROVE  DirectoryInv'
<1>1. pc[r] = "readOrganization" /\ AtLabel("readOrganization", req[r])
      /\ InputOK("readOrganization", req[r])
  BY Known DEF ReadOrganization
<1>2. CASE \E a \in {"invalid", "unreadable", "denied"} : Conclude(r, a)
  BY <1>2, FailureKeeps
<1>3. CASE OrganizationActive(req[r].org) /\ Continue(r, "readMembership", req[r])
  <2>1. "readMembership" \in OutsideTx
    BY DEF OutsideTx
  <2>2. AtLabel("readMembership", req[r]) /\ InputOK("readMembership", req[r])
    BY <1>1, <1>3 DEF AtLabel, InputOK, OrganizationActive, NoRequest, TenantOperations, Creating
  <2>3. SeenAt("readMembership", seen[r])
    BY <1>1, <1>3, SeenNow DEF SeenAt, AtLabel
  <2> QED
    BY <1>3, <2>1, <2>2, <2>3, SameLocalsKeep
<1> QED
  BY <1>2, <1>3 DEF ReadOrganization

LEMMA ReadMembershipKeeps ==
    ASSUME DirectoryInv, NEW r \in Requests, ReadMembership(r)
    PROVE  DirectoryInv'
<1>1. /\ pc[r] = "readMembership" /\ AtLabel("readMembership", req[r])
      /\ InputOK("readMembership", req[r]) /\ req[r].op \in TenantOperations
      /\ req[r].user \in UserIDs /\ "organization" \in seen[r] /\ seen[r] \subseteq Grounds
  BY Known DEF ReadMembership, AtLabel, InputOK, SeenOK, SeenAt, TenantOperations
<1>2. CASE Conclude(r, "denied")
  BY <1>2, FailureKeeps
<1>3. CASE MembershipSuffices(req[r].org, req[r].user, PermissionOf(req[r].op))
  <2>1. seen[r] = Grounds
    BY <1>1, <1>3, SeenNow DEF Grounds
  <2>2. CASE req[r].op = "getOrganization" /\ Conclude(r, "ok")
    <3>1. "ok" \in Answers /\ AnswerOK(req[r], seen[r], "ok")
      BY <2>1, <2>2 DEF Answers, AnswerOK
    <3> QED
      BY <2>2, <3>1, ConcludeKeeps
  <2>3. ASSUME NEW label \in {"insertProduct", "readProduct"},
               label = "insertProduct" => req[r].op = "createProduct",
               label = "readProduct" => req[r].op = "getProduct",
               Continue(r, label, req[r])
        PROVE  DirectoryInv'
    <3>1. label \in OutsideTx /\ label # "idle" /\ SeenAt(label, seen[r])
      BY <2>1 DEF OutsideTx, SeenAt, Grounds
    <3>2. AtLabel(label, req[r]) /\ InputOK(label, req[r])
      BY <1>1, <2>3 DEF AtLabel, InputOK, NoRequest, Creating
    <3> QED
      BY <2>3, <3>1, <3>2, SameLocalsKeep
  <2> QED
    BY <1>3, <2>2, <2>3 DEF ReadMembership
<1> QED
  BY <1>2, <1>3 DEF ReadMembership

LEMMA InsertProductKeeps ==
    ASSUME DirectoryInv, NEW r \in Requests, InsertProduct(r)
    PROVE  DirectoryInv'
<1> DEFINE row == [org |-> req[r].org, sku |-> req[r].key]
<1>1. /\ pc[r] = "insertProduct" /\ req[r].op = "createProduct" /\ req[r].org \in OrganizationIDs
      /\ req[r].key \in SKUs \cup {Malformed} /\ seen[r] = Grounds
  BY Known DEF InsertProduct, AtLabel, InputOK, SeenOK, SeenAt, Grounds
<1>2. CASE Conclude(r, "invalid") \/ Conclude(r, "error")
  BY <1>2, FailureKeeps
<1>3. CASE SKUTaken(req[r].org, req[r].key) /\ Conclude(r, "exists")
  <2>1. "exists" \in Answers /\ AnswerOK(req[r], seen[r], "exists")
    BY <1>1, <1>3 DEF Answers, AnswerOK
  <2> QED
    BY <1>3, <2>1, ConcludeKeeps
<1>4. ASSUME NEW p \in ProductIDs, req[r].key # Malformed,
             ~SKUTaken(req[r].org, req[r].key), products[p] = Null,
             products' = [products EXCEPT ![p] = row],
             UNCHANGED <<users, organizations, memberships>>,
             NEW answer \in {"ok", "lost"}, Answer(r, answer), Witness
      PROVE  DirectoryInv'
  <2>1. row \in ProductRow /\ answer \in Answers
    BY <1>1, <1>4 DEF ProductRow, Answers
  <2>2. \A o \in Requests \ {r} : InsertsNew(req[o])'
    BY <1>4, Known DEF InsertsNew, EmailTaken, SlugTaken, Answer, DirectoryInv, TypeOK
  <2>3. TypeOK' /\ RequestsOK'
    BY <1>4, <2>1, <2>2, AnswerKeeps DEF DirectoryInv, TypeOK
  <2>4. NoOrphanOrganization'
    BY <1>4 DEF DirectoryInv, NoOrphanOrganization
  <2>5. KeysUnique'
    BY <1>4 DEF DirectoryInv, KeysUnique, SKUTaken, TypeOK
  <2>6. AnswersOK'
    BY <1>1, <1>4 DEF Answer, AnswersOK, ConflictMeansTaken, GrantedWithGrounds, TenantIsolation
  <2> QED
    BY <2>3, <2>4, <2>5, <2>6 DEF DirectoryInv
<1> QED
  BY <1>2, <1>3, <1>4 DEF InsertProduct

LEMMA ReadProductKeeps ==
    ASSUME DirectoryInv, NEW r \in Requests, ReadProduct(r)
    PROVE  DirectoryInv'
<1>1. pc[r] = "readProduct" /\ req[r].op = "getProduct" /\ seen[r] = Grounds
  BY Known DEF ReadProduct, AtLabel, SeenOK, SeenAt, Grounds
<1>2. CASE \E a \in {"invalid", "unreadable", "notFound"} : Conclude(r, a)
  BY <1>2, FailureKeeps
<1>3. CASE ProductOf(req[r].org, req[r].product) /\ Conclude(r, "ok")
  <2>1. "ok" \in Answers /\ AnswerOK(req[r], seen[r], "ok")
    BY <1>1, <1>3 DEF Answers, AnswerOK, ProductOf
  <2> QED
    BY <1>3, <2>1, ConcludeKeeps
<1> QED
  BY <1>2, <1>3 DEF ReadProduct

-----------------------------------------------------------------------------
(* The operator.                                                           *)

\* The operator takes no row away and changes no key.
LEMMA OperatorEffect ==
    ASSUME DirectoryInv, Operator
    PROVE  /\ reply' = NoReply /\ UNCHANGED <<users, products, pc, req>> /\ Witness
           /\ organizations' \in [OrganizationIDs -> OrganizationRow \cup {Null}]
           /\ memberships' \in [OrganizationIDs \X UserIDs -> MembershipRow \cup {Null}]
           /\ \A o \in OrganizationIDs :
                  /\ organizations'[o] = Null <=> organizations[o] = Null
                  /\ organizations[o] # Null => organizations'[o].slug = organizations[o].slug
           /\ \A m \in OrganizationIDs \X UserIDs : memberships[m] # Null => memberships'[m] # Null
<1> USE DirectoryAssumption DEF DirectoryAssumption
<1>1. PICK g \in OrganizationIDs \X UserIDs \X Roles :
          \/ ToggleOrganization(g[1])
          \/ \E status \in {"active", "disabled"} : SetMembership(g[1], g[2], g[3], status)
  BY DEF Operator
<1>2. CASE ToggleOrganization(g[1])
  BY <1>2 DEF ToggleOrganization, DirectoryInv, TypeOK, OrganizationRow
<1>3. ASSUME NEW status \in {"active", "disabled"}, SetMembership(g[1], g[2], g[3], status)
      PROVE  /\ memberships' \in [OrganizationIDs \X UserIDs -> MembershipRow \cup {Null}]
             /\ \A m \in OrganizationIDs \X UserIDs : memberships[m] # Null => memberships'[m] # Null
  <2>1. [role |-> g[3], status |-> status] \in MembershipRow
    BY DEF MembershipRow
  <2> QED
    BY <1>3, <2>1 DEF SetMembership, DirectoryInv, TypeOK
<1> QED
  BY <1>1, <1>2, <1>3 DEF SetMembership, DirectoryInv, TypeOK

LEMMA OperatorKeeps ==
    ASSUME DirectoryInv, Operator
    PROVE  DirectoryInv'
<1>1. TypeOK'
  <2>1. NoReply \in [request : Request, seen : SUBSET Grounds, answer : Answers]
    BY NoRequestFits DEF NoReply, Answers
  <2> QED
    BY <2>1, OperatorEffect, WitnessEffect DEF DirectoryInv, TypeOK
<1>2. ASSUME NEW p \in Requests
      PROVE  AtLabel(pc[p], req[p])' /\ InputOK(pc[p], req[p])'
             /\ InsertsNew(req[p])' /\ SeenOK(p)'
  <2>1. AtLabel(pc[p], req[p])' /\ InputOK(pc[p], req[p])'
    BY OperatorEffect, Known DEF AtLabel, InputOK
  <2>2. InsertsNew(req[p])'
    BY OperatorEffect, Known DEF InsertsNew, EmailTaken, SlugTaken
  <2>3. SeenOK(p)'
    <3>1. pc'[p] # "idle" => seen[p] \subseteq seen'[p] /\ GroundsOf(req[p])' \subseteq seen'[p]
      BY <1>1, OperatorEffect, WitnessEffect DEF TypeOK
    <3>2. SeenAt(pc'[p], seen[p])
      BY OperatorEffect, Known DEF SeenOK
    <3> QED
      BY <3>1, <3>2 DEF SeenOK, SeenAt
  <2> QED
    BY <2>1, <2>2, <2>3
<1>3. RequestsOK'
  BY <1>2, OperatorEffect DEF DirectoryInv, RequestsOK, Apart
<1>4. NoOrphanOrganization' /\ KeysUnique'
  BY OperatorEffect DEF DirectoryInv, NoOrphanOrganization, KeysUnique
<1>5. AnswersOK'
  BY OperatorEffect DEF AnswersOK, ConflictMeansTaken, GrantedWithGrounds, TenantIsolation,
                        Succeeded, NoReply
<1> QED
  BY <1>1, <1>3, <1>4, <1>5 DEF DirectoryInv

-----------------------------------------------------------------------------
(* The invariant holds throughout.                                         *)

LEMMA StepKeeps == DirectoryInv /\ [Next]_vars => DirectoryInv'
<1> SUFFICES ASSUME DirectoryInv, [Next]_vars PROVE DirectoryInv'
  OBVIOUS
<1>1. ASSUME NEW r \in Requests, Step(r) PROVE DirectoryInv'
  BY <1>1, ValidateKeeps, BeginKeeps, InsertUserKeeps, InsertOrganizationKeeps,
     InsertMembershipKeeps, CommitKeeps, ReadOrganizationKeeps, ReadMembershipKeeps,
     InsertProductKeeps, ReadProductKeeps DEF Step
<1>2. ASSUME NEW r \in Requests, Abort(r) PROVE DirectoryInv'
  BY <1>2, FailureKeeps DEF Abort
<1>3. ASSUME UNCHANGED vars PROVE DirectoryInv'
  <2>1. UNCHANGED <<pc, req, seen, reply>> /\ UNCHANGED tables
    BY <1>3 DEF vars, tables
  <2>2. TypeOK'
    BY <2>1 DEF DirectoryInv, TypeOK, tables
  <2>3. RequestsOK'
    BY <2>1, TablesStay DEF DirectoryInv, RequestsOK, SeenOK
  <2>4. AnswersOK'
    BY <2>1 DEF DirectoryInv, AnswersOK, ConflictMeansTaken, GrantedWithGrounds,
                TenantIsolation, Succeeded, EmailTaken, SlugTaken, SKUTaken, tables
  <2> QED
    BY <2>1, <2>2, <2>3, <2>4, TablesStay DEF DirectoryInv
<1> QED
  BY <1>1, <1>2, <1>3, StartKeeps, OperatorKeeps DEF Next

LEMMA InitHolds == Init => DirectoryInv
<1> SUFFICES ASSUME Init PROVE DirectoryInv
  OBVIOUS
<1>1. TypeOK
  BY NoRequestFits DEF Init, TypeOK, OutsideTx, NoReply, Answers
<1>2. RequestsOK
  BY NoRequestFits DEF Init, RequestsOK, SeenOK
<1>3. NoOrphanOrganization /\ KeysUnique
  BY DEF Init, NoOrphanOrganization, KeysUnique
<1>4. AnswersOK
  BY DEF Init, NoReply, AnswersOK, ConflictMeansTaken, GrantedWithGrounds, TenantIsolation,
         Succeeded
<1> QED
  BY <1>1, <1>2, <1>3, <1>4 DEF DirectoryInv

\* The inductive invariant, for any users, organizations, products, keys, requests and
\* operator.
THEOREM DirectoryInvariance == Spec => []DirectoryInv
<1>1. Init => DirectoryInv
  BY InitHolds
<1>2. DirectoryInv /\ [Next]_vars => DirectoryInv'
  BY StepKeeps
<1> QED
  BY <1>1, <1>2, PTL DEF Spec

\* The tables, the locals of the requests and the replies keep the types of
\* migrations/000001 and 000003 and of the handlers.
THEOREM Typed == Spec => []TypeOK
<1>1. DirectoryInv => TypeOK
  BY DEF DirectoryInv
<1> QED
  BY <1>1, DirectoryInvariance, PTL

\* An organization always has a member: CreateOrganization inserts both in one
\* transaction (tenancy/service.go:76-99), whichever statement fails and whoever else runs.
THEOREM OrganizationsHaveMembers == Spec => []NoOrphanOrganization
<1>1. DirectoryInv => NoOrphanOrganization
  BY DEF DirectoryInv
<1> QED
  BY <1>1, DirectoryInvariance, PTL

\* No email, slug or SKU of an organization is stored twice, however many requests insert
\* it at once: none checks first, the unique indexes make the later ones wait or fail.
THEOREM UniqueKeys == Spec => []KeysUnique
<1>1. DirectoryInv => KeysUnique
  BY DEF DirectoryInv
<1> QED
  BY <1>1, DirectoryInvariance, PTL

\* A 409 is answered only when the key is stored, never for a transaction that may still
\* be rolled back.
THEOREM ConflictsAreReal == Spec => []ConflictMeansTaken
<1>1. DirectoryInv => ConflictMeansTaken
  BY DEF DirectoryInv, AnswersOK
<1> QED
  BY <1>1, DirectoryInvariance, PTL

\* A route of an organization succeeds only when, during the request, the organization has
\* been active and the user's membership sufficient (Authorize, tenancy/service.go), for
\* any interleaving with an operator that disables either.
THEOREM GrantsHaveGrounds == Spec => []GrantedWithGrounds
<1>1. DirectoryInv => GrantedWithGrounds
  BY DEF DirectoryInv, AnswersOK
<1> QED
  BY <1>1, DirectoryInvariance, PTL

\* A product read belongs to the organization of the path, in which the user had a
\* sufficient membership during the request (catalog/repository.go).
THEOREM TenantsIsolated == Spec => []TenantIsolation
<1>1. DirectoryInv => TenantIsolation
  BY DEF DirectoryInv, AnswersOK
<1> QED
  BY <1>1, DirectoryInvariance, PTL
=============================================================================
