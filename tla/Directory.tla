------------------------------ MODULE Directory ------------------------------
(***************************************************************************)
(* Accounts, organizations and their products: registration (auth and      *)
(* identity modules), CreateOrganization and Authorize (tenancy) and the   *)
(* product routes behind Authorize (catalog), run by concurrent requests   *)
(* over one PostgreSQL database (migrations/000001 and 000003).            *)
(*                                                                         *)
(* As in AuthService, each statement sent to the database is an action, a  *)
(* statement of a transaction takes effect when the transaction commits,   *)
(* and a slot of Requests is used again once it has been answered.  A      *)
(* request that needs an access token has passed RequireAuth, which asks   *)
(* nothing of the database: a disabled user's token passes it.             *)
(***************************************************************************)
EXTENDS Authorization, FiniteSets, Naturals

CONSTANTS
    Null,
    Malformed,   \* an input that is not valid: a key, or an id, blank or no uuid
    Invalid,     \* bound: the invalid inputs clients send, {} or {Malformed}
    Emails, Slugs, SKUs,   \* the valid ones: normalized emails, slugs, SKUs
    UserIDs, OrganizationIDs, ProductIDs,   \* the ids id.NewUUID can return
    Requests,    \* request slots of the server
    MaxConns,    \* connections in the pool (DB_MAX_CONNS)
    MayGrant     \* bound: the <<organization, user, role>> an operator may set

Operations == {"none", "register", "createOrganization", "getOrganization",
               "createProduct", "getProduct"}

\* The operations behind RequireTenant, each with the permission of its route.
TenantOperations == {"getOrganization", "createProduct", "getProduct"}

PermissionOf(op) ==
    CASE op = "getOrganization" -> "organization:read"
      [] op = "createProduct"   -> "product:manage"
      [] op = "getProduct"      -> "product:read"

\* ok and lost (committed, but nobody hears of it), 400, 403, 404, 409, and the
\* errors that end as a 500: the database cannot read a value, and any other.
Answers == {"none", "ok", "lost", "invalid", "denied", "notFound", "exists",
            "unreadable", "error"}

Ids == UserIDs \cup OrganizationIDs \cup ProductIDs
Keys == Emails \cup Slugs \cup SKUs

Request ==
    [op : Operations,
     user : UserIDs \cup {Null},       \* the user the access token names
     org : OrganizationIDs \cup {Malformed, Null},     \* from the path
     product : ProductIDs \cup {Malformed, Null},      \* from the path
     key : Keys \cup {Malformed, Null},  \* email, slug or SKU from the body
     id : UserIDs \cup OrganizationIDs \cup {Null},    \* the id drawn
     writes : SUBSET {"user", "organization", "membership"}]

NoRequest ==
    [op |-> "none", user |-> Null, org |-> Null, product |-> Null, key |-> Null,
     id |-> Null, writes |-> {}]

\* What a tenant operation needs.
Grounds == {"organization", "membership"}

UserRow == [email : Emails]
OrganizationRow == [slug : Slugs, status : {"active", "disabled"}]
MembershipRow == [role : Roles, status : {"active", "disabled"}]
ProductRow == [org : OrganizationIDs, sku : SKUs]

ASSUME DirectoryAssumption ==
    /\ MaxConns \in Nat \ {0}
    /\ Invalid \subseteq {Malformed}
    /\ MayGrant \subseteq OrganizationIDs \X UserIDs \X Roles
    /\ Null \notin UserRow \cup OrganizationRow \cup MembershipRow \cup ProductRow
    /\ {Null, Malformed} \cap (Ids \cup Keys) = {}
    /\ Null # Malformed
    /\ UserIDs \cap OrganizationIDs = {}

VARIABLES
    users, organizations, products,   \* a row or Null per id
    memberships,   \* a row or Null per organization and user
    pc,            \* the statement each request will run next
    req,           \* the locals of each request
    seen,          \* history: the grounds that held at some moment of a request
    reply          \* the request the last step answered, its grounds, the answer

vars == <<users, organizations, products, memberships, pc, req, seen, reply>>
tables == <<users, organizations, products, memberships>>

OutsideTx == {"idle", "validate", "begin", "readOrganization", "readMembership",
              "insertProduct", "readProduct"}
InsideTx == {"insertUser", "insertOrganization", "insertMembership", "commit"}

TypeOK ==
    /\ users \in [UserIDs -> UserRow \cup {Null}]
    /\ organizations \in [OrganizationIDs -> OrganizationRow \cup {Null}]
    /\ products \in [ProductIDs -> ProductRow \cup {Null}]
    /\ memberships \in [OrganizationIDs \X UserIDs -> MembershipRow \cup {Null}]
    /\ pc \in [Requests -> OutsideTx \cup InsideTx]
    /\ req \in [Requests -> Request]
    /\ seen \in [Requests -> SUBSET Grounds]
    /\ reply \in [request : Request, seen : SUBSET Grounds, answer : Answers]

NoReply == [request |-> NoRequest, seen |-> {}, answer |-> "none"]

Init ==
    /\ users = [u \in UserIDs |-> Null]
    /\ organizations = [o \in OrganizationIDs |-> Null]
    /\ products = [p \in ProductIDs |-> Null]
    /\ memberships = [m \in OrganizationIDs \X UserIDs |-> Null]
    /\ pc = [r \in Requests |-> "idle"]
    /\ req = [r \in Requests |-> NoRequest]
    /\ seen = [r \in Requests |-> {}]
    /\ reply = NoReply

-----------------------------------------------------------------------------
(* The database and its pool. *)

InTx(r) == pc[r] \in InsideTx

\* A transaction keeps its connection from Begin to its end.
FreeConnection == Cardinality({r \in Requests : InTx(r)}) < MaxConns

\* A variant that needs a connection of the pool for every statement.
TakesAnother(r) == FreeConnection

\* A statement runs on its transaction's connection or on one of the pool.
Connected(r) == InTx(r) \/ FreeConnection

EmailTaken(e) == \E u \in UserIDs : users[u] # Null /\ users[u].email = e
SlugTaken(s) ==
    \E o \in OrganizationIDs : organizations[o] # Null /\ organizations[o].slug = s
SKUTaken(o, s) ==
    \E p \in ProductIDs : products[p] # Null /\ products[p] = [org |-> o, sku |-> s]

\* A variant that does not wait.
NeverPending(r, table) == FALSE

\* Another running transaction has inserted the same key: the unique index
\* makes the second inserter wait until the first has ended.
KeyPending(r, table) ==
    \E p \in Requests \ {r} : table \in req[p].writes /\ req[p].key = req[r].key

OrganizationActive(o) ==
    o \in OrganizationIDs /\ organizations[o] # Null /\ organizations[o].status = "active"

MembershipSuffices(o, u, permission) ==
    /\ o \in OrganizationIDs /\ memberships[<<o, u>>] # Null
    /\ memberships[<<o, u>>].status = "active"
    /\ RoleAllowsPermission(memberships[<<o, u>>].role, permission)

-----------------------------------------------------------------------------
(* How a request moves on and how it ends. *)

\* What a tenant operation ought to rest on, read off the tables.
Sufficient(row, op) ==
    /\ row # Null /\ row.status = "active"
    /\ op = "createProduct" => row.role # "member"

GroundsOf(q) ==
    {g \in Grounds :
        /\ q.op \in TenantOperations /\ q.org \in OrganizationIDs
        /\ \/ /\ g = "organization"
              /\ organizations[q.org] # Null /\ organizations[q.org].status = "active"
           \/ g = "membership" /\ Sufficient(memberships[<<q.org, q.user>>], q.op)}

\* The history of every request after a step; the last conjunct of each action.
Witness ==
    seen' = [r \in Requests |->
                IF pc'[r] = "idle" THEN {} ELSE seen[r] \cup GroundsOf(req[r])']

Answer(r, answer) ==
    /\ pc' = [pc EXCEPT ![r] = "idle"]
    /\ req' = [req EXCEPT ![r] = NoRequest]
    /\ reply' = [request |-> req[r], seen |-> seen[r], answer |-> answer]

\* The request ends without writing anything; a transaction is rolled back.
Conclude(r, answer) ==
    /\ Answer(r, answer)
    /\ UNCHANGED tables
    /\ Witness

Continue(r, label, q) ==
    /\ pc' = [pc EXCEPT ![r] = label]
    /\ req' = [req EXCEPT ![r] = q]
    /\ reply' = NoReply
    /\ UNCHANGED tables
    /\ Witness

\* The locals after a statement that writes: its effect waits for the commit.
Wrote(q, table) == [q EXCEPT !.writes = @ \cup {table}]

Start(r, q, label) == pc[r] = "idle" /\ Continue(r, label, q)

\* Ids nobody has drawn.  When they are used up, drawing one fails.
Fresh(ids, rows) == {i \in ids : rows[i] = Null /\ \A r \in Requests : req[r].id # i}

-----------------------------------------------------------------------------
(* Registration and the creation of an organization: one transaction each. *)

StartRegister(r, e) ==
    Start(r, [NoRequest EXCEPT !.op = "register", !.key = e], "validate")

StartCreateOrganization(r, u, s) ==
    Start(r, [NoRequest EXCEPT !.op = "createOrganization", !.user = u, !.key = s],
          "validate")

\* The input is checked, the password hashed, an id drawn.
ValidateRegister(r) ==
    /\ pc[r] = "validate" /\ req[r].op = "register"
    /\ \/ req[r].key = Malformed /\ Conclude(r, "invalid")
       \/ /\ req[r].key # Malformed
          /\ \E i \in Fresh(UserIDs, users) : Continue(r, "begin", [req[r] EXCEPT !.id = i])
       \/ Fresh(UserIDs, users) = {} /\ Conclude(r, "error")

ValidateOrganization(r) ==
    /\ pc[r] = "validate" /\ req[r].op = "createOrganization"
    /\ \/ req[r].key = Malformed /\ Conclude(r, "invalid")
       \/ /\ req[r].key # Malformed
          /\ \E i \in Fresh(OrganizationIDs, organizations) :
                Continue(r, "begin", [req[r] EXCEPT !.id = i])
       \/ Fresh(OrganizationIDs, organizations) = {} /\ Conclude(r, "error")

Begin(r) ==
    /\ pc[r] = "begin"
    /\ FreeConnection
    /\ Continue(r, IF req[r].op = "register" THEN "insertUser" ELSE "insertOrganization",
                req[r])

InsertUser(r) ==
    /\ pc[r] = "insertUser"
    /\ ~KeyPending(r, "user")
    /\ IF EmailTaken(req[r].key) THEN Conclude(r, "exists")
       ELSE Continue(r, "commit", Wrote(req[r], "user"))

\* The rows as the INSERTs leave them, defaults included; and a variant with
\* two arguments swapped.
SwappedOrganization(q) == [slug |-> q.id, status |-> "active"]
NewOrganization(q) == [slug |-> q.key, status |-> "active"]
Owner == [role |-> "owner", status |-> "active"]

\* A variant that inserts through the pool instead of the transaction.
InsertOrganizationThroughPool(r) ==
    /\ pc[r] = "insertOrganization"
    /\ ~KeyPending(r, "organization") /\ ~SlugTaken(req[r].key)
    /\ pc' = [pc EXCEPT ![r] = "insertMembership"]
    /\ organizations' =
           [organizations EXCEPT ![req[r].id] = NewOrganization(req[r])]
    /\ reply' = NoReply
    /\ UNCHANGED <<users, products, memberships, req>>
    /\ Witness

InsertOrganization(r) ==
    /\ pc[r] = "insertOrganization"
    /\ ~KeyPending(r, "organization")
    /\ IF SlugTaken(req[r].key) THEN Conclude(r, "exists")
       ELSE Continue(r, "insertMembership", Wrote(req[r], "organization"))

InsertMembership(r) ==
    /\ pc[r] = "insertMembership"
    /\ Connected(r)
    /\ Continue(r, "commit", Wrote(req[r], "membership"))

Written(r, table) == table \in req[r].writes

Commit(r) ==
    LET q == req[r]
    IN  /\ pc[r] = "commit"
        /\ users' = [u \in UserIDs |->
              IF Written(r, "user") /\ u = q.id THEN [email |-> q.key] ELSE users[u]]
        /\ organizations' = [o \in OrganizationIDs |->
              IF Written(r, "organization") /\ o = q.id
              THEN NewOrganization(q) ELSE organizations[o]]
        /\ memberships' = [m \in OrganizationIDs \X UserIDs |->
              IF Written(r, "membership") /\ m = <<q.id, q.user>>
              THEN Owner ELSE memberships[m]]
        /\ UNCHANGED products
        /\ Answer(r, "ok") \/ Answer(r, "lost")
        /\ Witness

-----------------------------------------------------------------------------
(* The routes of one organization: Authorize, then the handler. *)

StartTenantOperation(r, op, u, o, key, p) ==
    Start(r, [NoRequest EXCEPT !.op = op, !.user = u, !.org = o, !.key = key,
                               !.product = p],
          "readOrganization")

\* RequireTenant refuses a blank id; Authorize reads the organization, then the
\* membership, each on its own.  An id that is neither blank nor a uuid is an
\* error of the database, not a missing row.
ReadOrganization(r) ==
    /\ pc[r] = "readOrganization"
    /\ \/ req[r].org = Malformed /\ Conclude(r, "invalid")
       \/ /\ Connected(r)
          /\ IF req[r].org = Malformed THEN Conclude(r, "unreadable")
             ELSE IF ~OrganizationActive(req[r].org) THEN Conclude(r, "denied")
             ELSE Continue(r, "readMembership", req[r])

ReadMembership(r) ==
    /\ pc[r] = "readMembership"
    /\ Connected(r)
    /\ IF MembershipSuffices(req[r].org, req[r].user, PermissionOf(req[r].op))
       THEN \/ req[r].op = "getOrganization" /\ Conclude(r, "ok")
            \/ req[r].op = "createProduct" /\ Continue(r, "insertProduct", req[r])
            \/ req[r].op = "getProduct" /\ Continue(r, "readProduct", req[r])
       ELSE Conclude(r, "denied")

\* The body is decoded and checked only now.  One statement: it commits alone.
InsertProduct(r) ==
    LET row == [org |-> req[r].org, sku |-> req[r].key]
    IN  /\ pc[r] = "insertProduct"
        /\ \/ req[r].key = Malformed /\ Conclude(r, "invalid")
           \/ /\ req[r].key # Malformed /\ Connected(r)
              /\ SKUTaken(row.org, row.sku)
              /\ Conclude(r, "exists")
           \/ /\ req[r].key # Malformed /\ Connected(r)
              /\ ~SKUTaken(row.org, row.sku)
              /\ \E p \in ProductIDs :
                    /\ products[p] = Null
                    /\ products' = [products EXCEPT ![p] = row]
              /\ UNCHANGED <<users, organizations, memberships>>
              /\ Answer(r, "ok") \/ Answer(r, "lost")
              /\ Witness
           \/ /\ \A p \in ProductIDs : products[p] # Null
              /\ Conclude(r, "error")

\* A variant that looks for the product's id in every organization.
ProductAnywhere(o, p) == p \in ProductIDs /\ products[p] # Null

\* SELECT ... WHERE organization_id = $1 AND id = $2
ProductOf(o, p) == p \in ProductIDs /\ products[p] # Null /\ products[p].org = o

ReadProduct(r) ==
    /\ pc[r] = "readProduct"
    /\ \/ req[r].product = Malformed /\ Conclude(r, "invalid")    \* a blank id
       \/ /\ Connected(r)
          /\ IF req[r].product = Malformed THEN Conclude(r, "unreadable")
             ELSE IF ProductOf(req[r].org, req[r].product) THEN Conclude(r, "ok")
             ELSE Conclude(r, "notFound")

-----------------------------------------------------------------------------

\* A variant that takes every failure of an insert for a conflict.
AbortAsConflict(r) ==
    /\ pc[r] # "idle"
    /\ Conclude(r, IF pc[r] \in {"insertUser", "insertOrganization", "insertProduct"}
                   THEN "exists" ELSE "error")

\* A statement fails, the request's context is cancelled, the handler panics
\* or the process dies: the transaction, if there is one, is rolled back.
Abort(r) ==
    /\ pc[r] # "idle"
    /\ Conclude(r, "error")

\* Nothing under src/ writes a status or adds a member; an operator may.
ToggleOrganization(o) ==
    /\ organizations[o] # Null
    /\ organizations' = [organizations EXCEPT ![o].status =
                            IF @ = "active" THEN "disabled" ELSE "active"]
    /\ reply' = NoReply
    /\ UNCHANGED <<users, products, memberships, pc, req>>
    /\ Witness

SetMembership(o, u, role, status) ==
    /\ organizations[o] # Null /\ users[u] # Null
    /\ memberships[<<o, u>>] # [role |-> role, status |-> status]
    /\ memberships' = [memberships EXCEPT ![<<o, u>>] = [role |-> role, status |-> status]]
    /\ reply' = NoReply
    /\ UNCHANGED <<users, organizations, products, pc, req>>
    /\ Witness

-----------------------------------------------------------------------------

\* Any client may register; whoever has an access token may do the rest.
StartSomething(r) ==
    \/ \E e \in Emails \cup Invalid : StartRegister(r, e)
    \/ \E u \in {v \in UserIDs : users[v] # Null} :
          \/ \E s \in Slugs \cup Invalid : StartCreateOrganization(r, u, s)
          \/ \E o \in OrganizationIDs \cup Invalid :
                \/ StartTenantOperation(r, "getOrganization", u, o, Null, Null)
                \/ \E s \in SKUs \cup Invalid :
                      StartTenantOperation(r, "createProduct", u, o, s, Null)
                \/ \E p \in ProductIDs \cup Invalid :
                      StartTenantOperation(r, "getProduct", u, o, Null, p)

Step(r) ==
    \/ ValidateRegister(r) \/ ValidateOrganization(r)
    \/ Begin(r) \/ InsertUser(r) \/ InsertOrganization(r) \/ InsertMembership(r)
    \/ Commit(r)
    \/ ReadOrganization(r) \/ ReadMembership(r) \/ InsertProduct(r) \/ ReadProduct(r)

Operator ==
    \E g \in MayGrant :
        \/ ToggleOrganization(g[1])
        \/ \E status \in {"active", "disabled"} : SetMembership(g[1], g[2], g[3], status)

Next ==
    \/ \E r \in Requests : StartSomething(r) \/ Step(r) \/ Abort(r)
    \/ Operator

Spec == Init /\ [][Next]_vars

\* As in AuthService: waiting inserts and waiting requests are served in turn.
FairSpec == Spec /\ \A r \in Requests : SF_vars(Step(r))

-----------------------------------------------------------------------------
(* Safety. *)

Succeeded == reply.answer \in {"ok", "lost"}

\* An organization is never there without a member: it is created together
\* with its owner, whichever insert fails (tenancy/service.go:76-99).
NoOrphanOrganization ==
    \A o \in OrganizationIDs :
        organizations[o] # Null => \E u \in UserIDs : memberships[<<o, u>>] # Null

\* Concurrent requests never store one email, one slug or, in an organization,
\* one SKU twice, though none of them looks for it before it inserts.
KeysUnique ==
    /\ \A u, v \in UserIDs : (users[u] # Null /\ users[u] = users[v]) => u = v
    /\ \A o, n \in OrganizationIDs :
          (/\ organizations[o] # Null /\ organizations[n] # Null
           /\ organizations[o].slug = organizations[n].slug) => o = n
    /\ \A p, q \in ProductIDs : (products[p] # Null /\ products[p] = products[q]) => p = q

\* A 409 means the key is stored, not merely that some other request, which may
\* still be rolled back, was about to store it.
ConflictMeansTaken ==
    reply.answer = "exists" =>
        \/ reply.request.op = "register" /\ EmailTaken(reply.request.key)
        \/ reply.request.op = "createOrganization" /\ SlugTaken(reply.request.key)
        \/ reply.request.op = "createProduct" /\ SKUTaken(reply.request.org, reply.request.key)

\* A route of an organization succeeds only if the organization was active at
\* some moment of the request and the user's membership sufficed at some moment
\* of it: nothing read before the request is relied on.  The two moments may
\* differ, because Authorize reads the rows apart.
GrantedWithGrounds ==
    (Succeeded /\ reply.request.op \in TenantOperations) => reply.seen = Grounds

\* A product is shown to those only whose membership in the product's own
\* organization sufficed during the request, whatever ids the path combines.
TenantIsolation ==
    (Succeeded /\ reply.request.op = "getProduct") =>
        /\ products[reply.request.product].org = reply.request.org
        /\ "membership" \in reply.seen

-----------------------------------------------------------------------------
(* Liveness. *)

\* Every request is answered, also when there are more requests than connections
\* and transactions that want the same key: a transaction never waits for a
\* second connection, and whoever has inserted the key an insert waits for ends
\* without waiting for anybody (tx.go:20-46, tenancy/service.go:76-99).
EveryRequestAnswered == \A r \in Requests : pc[r] # "idle" ~> pc[r] = "idle"

-----------------------------------------------------------------------------
(* What the repository says and the code does not do. *)

\* api/openapi.yaml declares product_id a uuid and answers invalid product
\* input with a 400, not with the 500 of a value the database cannot read.
MalformedProductIsInvalidInput ==
    (reply.request.op = "getProduct" /\ reply.request.product = Malformed)
        => reply.answer # "unreadable" \/ reply.request.org = Malformed
=============================================================================
