# CoreBE API: a verification project

TLA+ models of the CoreBE API (a Go HTTP service over PostgreSQL), the TLC runs
that check them on small instances, and TLAPS proofs, for every instance, of all
safety properties the runs check and of the refinement. `PROJECT.json` maps each definition to the source lines it
stands for; paths below are relative to `src/`.

## Inventory

The program is one process, `cmd/api`: an HTTP server whose goroutines, one per
request, share nothing but a pgx connection pool. All state is in PostgreSQL. A
request reaches the database either through the pool, one autocommitted
statement at a time, or through `database.Transactor.WithinTx`, which takes a
connection, runs a function and commits or rolls back. `cmd/migrate` is a second
program, run at deployment, over the same database.

| Component | State | Operations | What is hard | What makes it correct |
|---|---|---|---|---|
| Auth service (`internal/modules/auth/service.go`, `repository.go`) | `auth_sessions`, `refresh_tokens` | Login, RefreshToken, Logout | the same token presented twice at once; a refresh racing a logout through another token of the session; failure at any statement, an ambiguous commit; two clocks, one of them read several times | one spendable token per session; rotation all or nothing; nothing spent or revoked comes back; what is ruled out when a request starts is not granted |
| Token manager (`auth/token.go`) | none | IssueTokenPair, VerifyAccessToken | whole-second claims against exact expiries | no token outlives its session |
| Registration, identity (`auth/service.go`, `identity`) | `users` | Register | one email registered twice at once | emails unique; a 409 only for a stored email |
| Tenancy (`internal/modules/tenancy`) | `organizations`, `organization_memberships` | CreateOrganization, Authorize, RequireTenant | two inserts that belong together; two reads that belong together and do not exclude changes between them | no organization without a member; nothing granted without grounds seen during the request |
| Catalog (`internal/modules/catalog`) | `products` | CreateProduct, GetProduct | SKU races; ids of one organization under the path of another | SKUs unique per organization; tenants isolated |
| Transactions, pool (`internal/platform/database`) | connections | WithinTx | nested use of the pool | no request waits for ever |
| Migration runner (`internal/platform/migration`, `cmd/migrate`) | `schema_migrations`, the schema | Up, Statuses | overlapping runs, a run killed anywhere, releases that add, replace or bring late files | every file executed at most once and in order; reports that are true; a run that succeeds leaves nothing behind |
| Middleware chain, responses (`internal/platform/middleware`, `response`, `auth/middleware.go`, `tenancy/middleware.go`, the handlers) | a request's context, headers and answer | Recover, RequestID, AccessLog, SecurityHeaders, RequireAuth, RequireTenant | the order of layers; panics; a refusal that must not go on | one answer and one line of log per request, nothing past a refusal, every layer finds what it reads |
| Server lifecycle (`cmd/api/main.go`, `internal/platform/httpserver`) | the process, the pool, running requests | start, serve, shut down | signals at any moment, shutdown under running requests, a server that fails while main waits | the pool outlives the requests; exit code 0 means nothing was cut off; the process ends when asked or when it cannot serve |
| Configuration (`internal/config`) | none | Load | silent defaults, limits of numbers | nothing is served without a sound configuration |
| Health, payment capabilities | none | HandleReadyz, HandleHealthz, HandleCapabilities | readiness with an exhausted pool | readiness is always answered |
| Pagination (`internal/platform/pagination`) | none; used by no route | Parse, NewPageInfo | limits at their bounds, cursors there and back | limits bounded; a page's cursor continues after it |

They interact by calls and through the database: the auth service reads
`users` through the identity repository, inside its transaction for a refresh
and outside for a login; the middleware verifies access tokens without the
database; the catalog is reached only through tenancy's `RequireTenant`, which
hands it the organization it has authorized. Every request runs through the
layers `httpserver.New` chains around its handler, in a process that `main` starts
and stops.

## Modules

| Module | Models | Role |
|---|---|---|
| `TokenManager` | `auth/token.go` | pure operators: expiries, claims, verification |
| `AuthService` | login, refresh, logout, one action per statement | core state machine |
| `AuthServiceInvariant` | | the inductive invariants `IInv` and `SafetyInv` |
| `AuthServiceProofs` | | TLAPS proofs about `AuthService`: its tables |
| `AuthServiceSafetyProofs` | | TLAPS proofs about `AuthService`: what it answers, and its times |
| `SessionFamily` | what the auth module promises, without statements | abstract specification |
| `SessionFamilyProofs` | | TLAPS proof about it |
| `AuthServiceRefinement` | | refinement mapping from `AuthService` to `SessionFamily` |
| `AuthServiceRefinementProofs` | | TLAPS proof that the mapping is a refinement |
| `Authorization` | `tenancy/authorization.go` | pure operators |
| `Directory` | registration, tenancy and catalog | state machine |
| `DirectoryProofs` | | TLAPS proofs about it |
| `Migration` | `migrate up`, `migrate status` | state machine |
| `MigrationProofs` | | TLAPS proofs about it |
| `Middleware` | the layers and handlers around one request | pure operators on a request |
| `Config` | `internal/config` and what the constructors accept | pure operators |
| `Server` | `cmd/api`: the process and its requests | state machine, composes `Middleware` and `Config` |
| `ServerProofs` | | TLAPS proofs about `Server` |
| `Pagination` | `internal/platform/pagination` | pure operators with their proofs |
| `MC*` | | instances for TLC |

### AuthService

*State.* `sessions` and `tokens` are the committed rows of the two tables (a row
or `Null` per id), `userStatus` the column of `users`, `rowLock` the holder of
each row lock, `now` the server's clock; the database's is `now + DBAhead`. Each
slot of `Requests` is a goroutine with a program counter `pc` and its locals
`req`. `wallet` is what clients have received: a client presents a token it was
given, or something unknown (`Null`); an empty token never reaches the service.
`reply` is the answer given by the last step, and `late` (history) says that
the committed state already ruled out success when the request started.

*Actions.* Each statement sent to the database is one action; the Go code between
two statements runs with the statement before or after it. A transaction's
statements are kept in `req.writes` and reach the tables in `Commit`; UPDATEs set
their own column of the row as it then is, which is what an UPDATE does that
holds the row's lock. `RefreshLookup` and `LogoutLookup` take the token's row
`FOR UPDATE`; `SessionRead` takes no lock; `MarkAuthSessionUsed` and
`RevokeAuthSession` lock the session's row when they get to it. `Commit` may
answer `ok` or `lost` (committed, but the client never hears). `Abort` is any
failed statement, cancelled context, panic or crash: `WithinTx` or the server
rolls back. `created_at` is the start of the transaction, as `now()` is in
PostgreSQL, and the CHECK constraints on it are in the guards.

*Left out.* Locks taken by foreign keys (they do not conflict with the updates
made here), deletion of rows and re-enabling of users (nothing under `src/` does
either), user agents and addresses, the text of tokens. Ids are finite; when
they are used up drawing one fails, which is `id.NewUUID`'s error path.

### SessionFamily and the refinement

The tokens of a session form a family: `Open`, `Admit` (a token is found good in
an open session), `Rotate` or `Withdraw`, `Close`. The abstract state is read off
the committed tables, except that a token is *pledged* while a refresh that has
passed its checks is under way. The one liberty the abstract specification takes
is visible in it: a logout through another token may close the session between
`Admit` and `Rotate`, and the rotation still happens; the new token is then never
admitted. That is the code's behaviour, since the session is read without a lock.

### Directory

`users`, `organizations`, `memberships`, `products` are committed rows.
Registration and `CreateOrganization` are transactions of one and two inserts;
an insert waits while another transaction has inserted the same key
(`KeyPending`) and answers 409 if the key is stored. The routes of an
organization run `ReadOrganization`, `ReadMembership` (`Authorize`), then the
handler's own statement. `seen` (history) collects, for each running request, which
of its two grounds held at some moment since it began. Statuses and members change
only through an operator (`ToggleOrganization`, `SetMembership`); no code under
`src/` writes them. A `Malformed` value stands for any key that fails
validation and any id in a path that is blank (400, nothing is asked of the database)
or that the database cannot read as a uuid (500); it runs in `malformed_id`, and the
theorems cover it everywhere.

### Migration

Runs of `migrate up` and `migrate status` overlap, are killed anywhere (`Fail`) and
start again; `Deploy` is a release that adds a file to the directory, even
one of a version that is lower than others (`late`, history) or already there, or
puts it in the place of the file of its version. A file is a version and a name,
because the code tells whether a file is applied by its version alone: `Applied` of
the model is `applied[file.Version]` of the code. A file's SQL and its record are
one transaction. Nothing is assumed of the SQL: that two runs which execute the
same file do not both take effect rests on the primary key of
`schema_migrations` alone (`RecordPending`, `RecordTaken`).

`UpToDate` and `ReportTruthful` say what remains true when files are replaced: an
`up` that succeeds has left each file it found executed, *or another file of the
same version* that it did not find; likewise a file reported as applied has its version
recorded. `NoGap` charges every gap in the order of versions to a late file.

### Middleware, Config and Server

`Middleware` describes one request as a record, its *run*: the layer it is at, the
way it goes (in, waiting for a service, out, panicking), one set of context keys
per layer entered, the headers set on the ResponseWriter, the answers written and
the lines logged. A layer's code is an operator from a run to the set of runs it may
lead to; `Stack(route)` puts layers in order with the code's own `Chain`. The contents
of requests and the answers of services are in the choice among outcomes.

`Config` takes an environment to a configuration (`Load`, with the default for
whatever is unset or cannot be parsed) and says what the constructors accept
(`CanOpen`, `CanServe`).

`Server` composes them. `main` is the main goroutine's next step, `serving` the
goroutine that serves, `pending` the channel of signals (it holds one, further ones
are dropped), `run[c]` what each client's connection is doing, `held` the requests
that hold a connection of the pool, `exit` how the process ended and what it
had not finished. `os.Exit` in either goroutine and a signal before
`signal.Notify` end everything at once (`Exit`). A request whose layer or handler
asks the database is in `call`; there it takes a connection (`Acquire`), gives it
back between statements (`Release`), is answered, gives up, times out (`readyz`)
or panics. What the service does with the connection is `AuthService` and
`Directory`. `Shutdown` is `BeginShutdown` (no new connections), `Drain` (close
what is idle until nothing else is left) and `DrainTimeout` (its ten seconds).

*Left out.* The 500 of `RequireTenant` without an authorizer or a permission, which `New`
never builds. The read, write and idle timeouts of connections but for the closing of
an idle one; whether a client reads its answer; the five seconds that
`Shutdown` grants a connection without a first request; lifetimes and the minimum
of pooled connections. `ShutdownTimeout` of the configuration is read by nobody:
`main` has its own ten seconds.

### Pagination

Texts are what `TrimSpace`, `Atoi`, base64 and JSON tell apart: blank, junk, a
number, a cursor. JSON is not the identity on cursors: it cannot hold years past
9999, and replaces bytes of an id that are no UTF-8. No route uses the package
yet, so there is nothing to run; its three theorems are about every input.

## Runs

| Run | Instance | Checks |
|---|---|---|
| `rotation` | 3 requests, 1 session, 3 tokens, clock standing still | `TypeOK`, `IInv`, `OneSpendableToken`, `RotationIntact`, `LateNeverSucceeds`, `LogoutCloses`, `NoUniqueViolation`, `LoginIntact`, `NothingReopens`, `ImplementsSessionFamily` |
| `window` | 2 requests, 1 rotation, a clock of half seconds until the session has expired | `SessionWindow`, `NoClockViolation` |
| `liveness` | 2 requests with a connection each, 1 session, 2 tokens, 1 user who may be disabled, clock standing still | `SafetyInv`, `LateNeverSucceeds`, `EveryRequestAnswered` |
| `directory` | 2 requests, 2 users, 2 organizations, 2 products that want 1 SKU, an operator who toggles one organization and one membership | `TypeOK`, `NoOrphanOrganization`, `KeysUnique`, `ConflictMeansTaken`, `GrantedWithGrounds`, `TenantIsolation` |
| `waiting` | 3 requests on 2 connections, 2 users who want 1 email, 2 organizations that want 1 slug | `EveryRequestAnswered` |
| `migration` | 2 runners; 4 files of 3 versions, one of them there at first, the others deployed in any order | `TypeOK`, `AppliedExactlyOnce`, `NoGap`, `UpToDate`, `ReportTruthful`, `EveryRunEnds` |
| `server` | 2 client connections, 1 pooled connection, 4 routes, 12 environments | `TypeOK`, `AnsweredOnce`, `LoggedOnce`, `NothingPastRefusal`, `ContextComplete`, `PoolBalanced`, `PoolOutlivesRequests`, `GracefulExit`, `ServesOnlyConfigured`, `StopsWhenAsked`, `FailureEndsProcess`, `ReadyzAnswers` |

Five more runs show where the code and what the repository says of it part
(`findings` in `PROJECT.json`):

- `refresh_disabled`: a refresh by a disabled user is a 403, which the API
  description does not list for that route.
- `refresh_expired`: the service checks the session against a time it read before
  the transaction, the token manager reads the clock again; if the session
  expires between, the refresh is a 500 instead of a 401.
- `stillborn_token`: claims are whole seconds and `exp > iat` is demanded, so a
  refresh in the last second of a session yields an access token that no call
  accepts.
- `revoked_twice`: two logouts with different tokens of one session both find it
  open and both write `revoked_at`.
- `malformed_id`: a product id that is no uuid is a 500 instead of a 400.

*Bounds.* The hazards of the auth service are races over one session: three
requests are the two that race and the one that arrives later, or a logout
against two refreshes; three tokens are two rotations, enough for a token with a
predecessor and a successor. `liveness` is about who waits for whom. Its two
transactions are open together, so that they meet at a token (the same one presented
twice) and at the session (two tokens of it): with a logout that locked the session before
the token they would block each other, which takes both connections to see. There
nobody waits for the pool. In `waiting` the third request does, while of the two
transactions that have its connections one may be waiting for the other's email or slug;
a transaction that wanted another connection would never end there. What is proved holds for all bounds. Time matters only by
the order of instants, so `rotation` and `liveness` stop the clock, where `AccessTTL`,
`RefreshTTL` only have to be positive, and `window` runs it past every expiry
with two ticks to the second, the smallest clock on which a fraction is cut.
`MaxTime`, `MayDisable`, `MayGrant`, `Invalid`, `Visited` and `Environments` are
the named bounds of the modules. In `directory` two organizations of different owners, or of
one, are what a path can mix up, and one guest is enough for every grant and withdrawal. In
`migration` three versions are one applied, one that comes late and one that is chosen
twice; two runs are enough for a race over a file, and what a killed run leaves is
in the database. In `server` the one pooled connection makes each request a hazard to
the other; `Visited` has a route of each kind: a deadline (`readyz`), a user and
no service (`me`), a tenant, a body and a service (`createProduct`), none
(`unknown`), and the other routes differ from them in what they leave out. `Environments` has one usable environment and,
for each check, one that fails it, on either side of its bound where there are two;
`MaxInt32` is a million, because TLC's own integers end where an int32
does, and the case that matters is a number beyond.

*Symmetry* is used for requests, ids and keys in the safety runs only. The
refinement in `rotation` is checked step by step (`Init` and `[][Next]`), which
symmetry does not disturb.

*Fairness.* `FairSpec` asks strong fairness of each request's own steps, and
nothing of clients, operators, the clock or failures. Strong, because a request
waiting for a row, a key or a connection is enabled again and again rather than
continuously; PostgreSQL serves lock waiters, and pgxpool its callers, in the
order they came. The migration runner waits on an index entry in the same way.
`Server` asks weak fairness of the steps nothing can hold up: those of the main
goroutine, the ten seconds of `Shutdown`, the exit of a failed server, and a
request's own steps, `readyz`'s two seconds among them. Clients, services, the database and the
operating system may stop at any point: a handler that hangs is why `Shutdown`
needs its timeout.

## Proofs

`AuthServiceProofs` proves, for any users, requests, ids, pool size, clock skew
and token lifetimes that satisfy `TokenAssumption` and `AuthAssumption`:

- `Invariance`: `Spec => []IInv`;
- `TypeCorrectness`, `AtMostOneSpendableToken`, `RotationIsAllOrNothing`,
  `UniqueIndexNeverViolated`: the four invariants of `rotation` it implies;
- `NothingIsReopened`: the action property `NothingReopens`. Only `Commit` writes
  the tables (`OnlyCommitWrites`), it sets columns to the request's clock,
  which is not `Null`, and the ids it inserts under are unused (`IInv`).

None of the four invariants is inductive alone. That a commit does not make a second
successor needs that the token it spends is unspent *now*, many statements after it was
read; that holds because the request still has the row's lock. So `IInv` says,
request by request: where its program counter can be and what it has written so
far (`LocalsOK`), what it knows of the rows it relies on (`RowsOK`), that it holds
its token's lock from the lookup on (`LockOK`), that no two requests have drawn one
id (`DrawnApart`); and, of the tables, references (`References`),
`OneSpendableToken` and `RotationIntact` together. The proof has a lemma per
action. All but `Commit` change no table, and go through
`MoveKeepsInvariant`, which says when moving one request leaves the
others' knowledge alone. `CommitEffect` states what a commit does to the tables,
`CommitKeepsTables` and `CommitKeepsInvariant` use nothing else of it.

`AuthServiceSafetyProofs` proves, under the same assumptions, what requests answer:
`NoLateSuccess`, `LogoutsClose`, `LoginIsAllOrNothing`, `TokensEndWithSession` and
`NoConstraintOnTimes`. A request reads its rows one after the other, each without
the others, so the invariant (`SafetyInv`) adds to `IInv` what a request has learnt that
its answer will rest on (`Knows`): what ruled a late request out is still ahead
of it (`LateOK`); a logout leaves out a statement only where another has done its
work for good (`LogoutOK`); a pair ends with its session (`PairOK`); the rows presented
were created before the request started (`ClockOK`); and, of the tables, that no
token outlives its session (`RowsInTime`). Knowledge of a request that stands
still survives the steps of others because they take nothing of it back:
`Persists` lists the columns that are written once, or move one way only, and
`KnowledgeStays` needs nothing else. `NoConstraintOnTimes` alone assumes
`DBAhead <= 0`, the database's clock not ahead of the server's: with one that is
ahead, the CHECK constraints do refuse honest requests (a hazard in `PROJECT.json`).

`SessionFamilyProofs` proves `FamilyHasOneGoodToken` of the abstract specification, and
`AuthServiceRefinementProofs` that `AuthService` implements it: `ImplementsFamily` is the
property `ImplementsSessionFamily` of `rotation`, `ImplementsFamilySpec` the implication
between the two specifications. A pledge is a refresh past the checks of its
token and session, and there is one for a token at most, because that request holds the
token's row (`PledgeHolds`, `PledgedOnce`). Then each action maps to one step of the
family or to a stutter: the session's read to `Admit`, a failure afterwards to `Withdraw`,
the three commits to `Open`, `Rotate` and `Close`, and everything else to nothing. That a
logout's commit is a `Close` uses `LogoutCloses`, which is why this rests on `SafetyInv`.

`DirectoryProofs` proves, for any users, organizations, products, keys and requests, any
pool and any operator (`DirectoryAssumption`), every safety property of the run `directory`:
`Typed`, `OrganizationsHaveMembers`, `UniqueKeys`, `ConflictsAreReal`,
`GrantsHaveGrounds`, `TenantsIsolated`. The invariant (`DirectoryInv`) says, request by
request, where its operation is and which statements have run there (`AtLabel`), what
it presents and has drawn (`InputOK`), that the key it has inserted is not stored
(`InsertsNew`) and no other request has inserted it (`Apart`), and what the
history has seen of its grounds (`SeenOK`). `KeysUnique` is not inductive without
the last but one: a commit stores a key that was looked up statements before. An
organization never lacks a member because both rows come with one commit.
`GrantedWithGrounds` is about two reads that do not exclude changes between them,
so the proof follows the history over every step (`WitnessEffect`).

`MigrationProofs` proves, for any number of runs and any files whose versions are
natural numbers (`MigrationAssumption`), all invariants of the run `migration`:
`RunnersTypeCorrect`, `ExactlyOnce`, `OnlyLateFilesLeaveGaps`, `ReportsAreTrue`,
`SuccessIsUpToDate`. `AppliedExactlyOnce` is not inductive: that a commit executes a
file for the first time needs that its version is not applied when the run comes to
commit (`CommitOK`), which the commit of another run would undo, but for the primary key:
no two runs are before the commit of one version (`CommitsApart`). `NoGap` rests
on what a run has loaded and has to do: a file below one it has loaded is loaded
too, or came late (`LoadedOK`), and a file below one it has to do is to be done
first, applied, or late (`TodoOK`). A commit then closes no gap over a file
because `First` takes the lowest (`FirstIsLowest`, from the library's well-founded
induction on the naturals), and a release opens one only with a late file because no
version ever leaves the directory (`VersionsStay`). `SuccessIsUpToDate` adds that
what an `up` does not have to do is applied (`DoneOK`).

`ServerProofs` proves, for any number of clients, any routes and environments
(`ServerAssumption`): `PoolOpenForRequests`, `ExitZeroIsGraceful`,
`ConnectionsReturned`, `OnlyConfiguredServes`. The invariant `LifeInv` ties the pool, the
serving goroutine and the clients to the step main is at: a connection exists
only from `notify` to `drain` (`ServiceOK`), where the pool is open (`PhasesOK`), and
main is past a constructor only if the configuration satisfied it
(`ConfiguredOK`). These hold whatever a layer makes of a request, as long as a
request that runs still runs or ends, and gives its connection back when its
service returns (`HeldOK`).

The second half is about the requests themselves: `ServerTyped`, `OneAnswer`,
`OneLogLine`, `RefusalsHold`, `ContextIsThere`, for every route. `Chain` is a fold, so its value
is first worked out for the stacks the server has (`Chained`, for up to four
layers): `Layers` says which layer is at which depth of which route. The
invariant (`RequestInv`) then says of a request what each layer it has entered has left
behind (`EnteredOK`: its context, the headers, the verdicts), that on the way in
nothing is answered or logged and a panic comes from a handler or what guards it
(`InwardOK`), and that on the way out it is answered once and, past the access log or
`Recover`, logged once (`OutwardOK`). One lemma per layer or operator shows that
it keeps this (`ServeNextKeeps`, `RespondKeeps`, `RequireAuthKeeps`, `HandleKeeps`,
`RecoverKeeps` and so on). A handler finds its context because the layers that put it there
are outside it; with two layers of `Stack` in the other order `Layers` is false,
and with it all that follows.

`Pagination` proves, for any limit and any cursor: `LimitBounded`,
`NextPageContinues` (what `NewPageInfo` hands out, `Parse` takes back to the same row,
from `DecodeEncode`) and `AcceptedCursorEncodes`. They need nothing of the constants.

*Model-checked only:* liveness (`EveryRequestAnswered`, `EveryRunEnds`, `StopsWhenAsked`,
`FailureEndsProcess`, `ReadyzAnswers`), which is out of the prover's reach, and the five
runs that show a violation. Every invariant and action property of the passing
runs is the statement of a theorem. The inductive invariants were checked with TLC
before they were proved; `IInv` and `SafetyInv` stay in the runs.

## Not modelled

The test helper, and what the sections above leave out: HTTP parsing, bodies,
the text of ids, headers and log lines. `GetOrganizationBySlug` and
`GetProductBySKU` are called by no route.

## Plan

1. Done: the core (`TokenManager`, `AuthService`, its invariant and proofs), the
   abstract family and the refinement, `Directory`, `Migration`, `Server` with
   `Middleware` and `Config`, `Pagination`, and the proofs above.
2. Next to prove: that a configuration `Load` accepts satisfies the assumptions
   the other modules make of their constants (`TokenAssumption`); that requests
   of `AuthService` and `Directory` keep to what `Server` assumes of a service's
   use of the pool; what `Family!Spec` promises, read back in the words of the tables; the rest of
   `Pagination`.
