----------------------------- MODULE Middleware -----------------------------
(***************************************************************************)
(* One HTTP request on its way through the layers around its handler:      *)
(* internal/platform/middleware, auth.RequireAuth, tenancy.RequireTenant,  *)
(* the routes of httpserver.New and the outer part of every handler.       *)
(*                                                                         *)
(* A run is what the request's goroutine and its ResponseWriter hold.  A   *)
(* layer's code is an operator from a run to the set of runs it may lead   *)
(* to: what a client sent and what a service answers is in that choice.    *)
(* Bodies, messages and the text of ids and headers are left out.          *)
(***************************************************************************)
EXTENDS Sequences, SequencesExt

PublicRoutes == {"healthz", "readyz", "version", "capabilities",
                 "register", "login", "refresh", "logout"}
UserRoutes == {"me", "createOrganization"}
TenantRoutes == {"getOrganization", "createProduct", "getProduct"}

\* "unknown" is any request the mux has no pattern for.
Routes == PublicRoutes \cup UserRoutes \cup TenantRoutes \cup {"unknown"}

\* A variant that wraps in the order of its arguments: the last is outermost.
ChainForward(handler, middlewares) ==
    FoldLeft(LAMBDA h, middleware : <<middleware>> \o h, handler, middlewares)

\* A handler is the sequence of its layers, outermost first.  Chain wraps from
\* the last middleware to the first.
Chain(handler, middlewares) ==
    FoldRight(LAMBDA middleware, h : <<middleware>> \o h, middlewares, handler)

\* What httpserver.New registers for a route.
Registered(route) ==
    Chain(<<"handler">>,
          CASE route \in UserRoutes   -> <<"requireAuth">>
            [] route \in TenantRoutes -> <<"requireAuth", "requireTenant">>
            [] OTHER                  -> <<>>)

\* Variants: two layers in the other order, one layer missing.
LoggedOutside(route) ==
    Chain(<<"mux">> \o Registered(route),
          <<"accessLog", "requestID", "recover", "securityHeaders">>)
Unrecovered(route) ==
    Chain(<<"mux">> \o Registered(route),
          <<"requestID", "accessLog", "securityHeaders">>)

Stack(route) ==
    Chain(<<"mux">> \o Registered(route),
          <<"recover", "requestID", "accessLog", "securityHeaders">>)

Stacks == [route \in Routes |-> Stack(route)]

-----------------------------------------------------------------------------
(* What a request's goroutine holds. *)

ContextKeys == {"request_id", "user", "tenant"}
SecurityHeaderNames == {"X-Content-Type-Options", "X-Frame-Options", "Referrer-Policy"}
HeaderNames == SecurityHeaderNames \cup {"X-Request-Id", "WWW-Authenticate"}

\* OK is any 2xx, REFUSED any 4xx a service's error is mapped to, BAD_REQUEST
\* a body the handler refuses.  CONTEXT_MISSING is the 500 of a handler that
\* does not find what a middleware should have put in its context.
Codes == {"OK", "REFUSED", "BAD_REQUEST", "NOT_FOUND", "INVALID_ACCESS_TOKEN",
          "UNAUTHENTICATED", "INVALID_TENANT", "TENANT_ACCESS_DENIED",
          "SERVICE_UNAVAILABLE", "INTERNAL_ERROR", "CONTEXT_MISSING"}

Response == [code : Codes, headers : SUBSET HeaderNames]
LogLine == [line : {"completed", "panic"}, id : BOOLEAN]

\* way: no connection, a connection without a request, going in, waiting for a
\* service, coming back, panicking.
Ways == {"closed", "idle", "down", "call", "up", "panic"}

IsRun(r) ==
    /\ DOMAIN r = {"route", "way", "depth", "contexts", "headers", "answers",
                   "verdicts", "log"}
    /\ r.route \in Routes \cup {"none"}
    /\ r.way \in Ways
    /\ r.depth \in 0..(IF r.route = "none" THEN 0 ELSE Len(Stacks[r.route]))
    /\ r.contexts \in Seq(SUBSET ContextKeys)   \* one per layer entered
    /\ r.headers \subseteq HeaderNames           \* w.Header()
    /\ r.answers \in Seq(Response)               \* what was written to w
    /\ r.verdicts \subseteq {"verified", "granted"}   \* history: what it passed
    /\ r.log \in Seq(LogLine)                    \* what was logged for it

Quiet(way) ==
    [route |-> "none", way |-> way, depth |-> 0, contexts |-> <<>>, headers |-> {},
     answers |-> <<>>, verdicts |-> {}, log |-> <<>>]

Enter(route) ==
    [Quiet("down") EXCEPT !.route = route, !.depth = 1, !.contexts = <<{}>>]

Layer(r) == Stacks[r.route][r.depth]
Context(r) == r.contexts[r.depth]

\* next.ServeHTTP(w, r), with values added to the context
ServeNext(r, added) ==
    [r EXCEPT !.way = "down", !.depth = @ + 1,
              !.contexts = Append(@, Context(r) \cup added)]

Set(r, names) == [r EXCEPT !.headers = @ \cup names]

\* response.JSON and response.Error: the header goes out with the status, and
\* nothing set later is sent.  Every caller returns right after it.
Respond(r, code) ==
    [r EXCEPT !.way = "up",
              !.answers = Append(@, [code |-> code, headers |-> r.headers])]

Call(r) == [r EXCEPT !.way = "call"]
Passed(r, verdict) == [r EXCEPT !.verdicts = @ \cup {verdict}]
Logged(r, line) ==
    [r EXCEPT !.log = Append(@, [line |-> line, id |-> "request_id" \in Context(r)])]

-----------------------------------------------------------------------------
(* The layers, on the way in. *)

RequestID(r) == {ServeNext(Set(r, {"X-Request-Id"}), {"request_id"})}

SecurityHeaders(r) == {ServeNext(Set(r, SecurityHeaderNames), {})}

Mux(r) == {IF r.route = "unknown" THEN Respond(r, "NOT_FOUND") ELSE ServeNext(r, {})}

AccessTokenError(r) == Respond(Set(r, {"WWW-Authenticate"}), "INVALID_ACCESS_TOKEN")

\* A variant that does not return after the error.
RequireAuthFallsThrough(r) ==
    {ServeNext(Passed(r, "verified"), {"user"}), ServeNext(AccessTokenError(r), {"user"})}

\* A token that verifies, one that does not or is missing, a cancelled context.
RequireAuth(r) ==
    {ServeNext(Passed(r, "verified"), {"user"}),
     AccessTokenError(r),
     Respond(r, "INTERNAL_ERROR")}

\* A blank organization id never reaches Authorize.  The 500 for a missing
\* authorizer or permission is left out: New passes both to every route.
RequireTenant(r) ==
    IF "user" \notin Context(r) THEN {Respond(r, "UNAUTHENTICATED")}
    ELSE {Respond(r, "INVALID_TENANT"), Call(r)}

-----------------------------------------------------------------------------
(* The handlers, up to the call of their service. *)

\* A body of another type, too long, malformed, or without what is required.
DecodeJSON(r) == {Respond(r, "BAD_REQUEST"), Call(r)}

FromContext(r, key, next) ==
    IF key \in Context(r) THEN next ELSE {Respond(r, "CONTEXT_MISSING")}

HandleMe(r) == FromContext(r, "user", {Respond(r, "OK")})
HandleCreateOrganization(r) == FromContext(r, "user", DecodeJSON(r))
HandleGetOrganization(r) == FromContext(r, "tenant", {Respond(r, "OK")})
HandleCreateProduct(r) == FromContext(r, "tenant", DecodeJSON(r))
HandleGetProduct(r) == FromContext(r, "tenant", {Call(r)})
HandleReadyz(r) == {Call(r)}
HandleHealthz(r) == {Respond(r, "OK")}
HandleCapabilities(r) == {Respond(r, "OK")}

\* A variant written as if it were a middleware.
HandleAndGoOn(r) == {ServeNext(r, {})}

Handle(r) ==
    CASE r.route = "me"                 -> HandleMe(r)
      [] r.route = "createOrganization" -> HandleCreateOrganization(r)
      [] r.route = "getOrganization"    -> HandleGetOrganization(r)
      [] r.route = "createProduct"      -> HandleCreateProduct(r)
      [] r.route = "getProduct"         -> HandleGetProduct(r)
      [] r.route = "readyz"             -> HandleReadyz(r)
      [] r.route = "healthz"            -> HandleHealthz(r)
      [] r.route \in {"version", "capabilities"} -> HandleCapabilities(r)
      [] r.route \in {"register", "login", "refresh", "logout"} -> DecodeJSON(r)

-----------------------------------------------------------------------------
(* What a layer or a handler comes to. *)

Panicking(r) == [r EXCEPT !.way = "panic"]
MayPanic(r) ==
    /\ r.way \in {"down", "call"}
    /\ Layer(r) \in {"requireAuth", "requireTenant", "handler"}

\* Where a run that is going in goes next.
Inward(r) ==
    CASE Layer(r) \in {"recover", "accessLog"} -> {ServeNext(r, {})}
      [] Layer(r) = "requestID"       -> RequestID(r)
      [] Layer(r) = "securityHeaders" -> SecurityHeaders(r)
      [] Layer(r) = "mux"             -> Mux(r)
      [] Layer(r) = "requireAuth"     -> RequireAuth(r)
      [] Layer(r) = "requireTenant"   -> RequireTenant(r)
      [] Layer(r) = "handler"         -> Handle(r)

\* What the error of a service is mapped to, or its result.
Concluded(r) == {Respond(r, code) : code \in {"OK", "REFUSED", "INTERNAL_ERROR"}}

\* What a call to a service may come to: Authorize, Ping, or a module's service.
Answered(r) ==
    CASE Layer(r) = "requireTenant" ->
            {ServeNext(Passed(r, "granted"), {"tenant"}), Respond(r, "TENANT_ACCESS_DENIED"),
             Respond(r, "INVALID_TENANT"), Respond(r, "INTERNAL_ERROR")}
      [] r.route = "readyz" -> {Respond(r, "OK"), Respond(r, "SERVICE_UNAVAILABLE")}
      [] OTHER -> Concluded(r)

\* What it may come to without a connection: the service refuses what it is
\* asked before it asks the database, or cannot have one.
Unconnected(r) ==
    CASE Layer(r) = "requireTenant" ->
            {Respond(r, "INVALID_TENANT"), Respond(r, "INTERNAL_ERROR")}
      [] r.route = "readyz" -> {Respond(r, "SERVICE_UNAVAILABLE")}
      [] OTHER -> {Respond(r, "REFUSED"), Respond(r, "INTERNAL_ERROR")}

-----------------------------------------------------------------------------
(* The layers, on the way out. *)

\* The layers of a kind around the one the run is in: none or one.
Around(r, layer) == {i \in 1..(r.depth - 1) : Stacks[r.route][i] = layer}

\* The run comes to the next layer with code after next.ServeHTTP, which is
\* AccessLog, or else to its end.
ReturnTo(r) ==
    IF Around(r, "accessLog") = {} THEN {[r EXCEPT !.depth = 0]}
    ELSE {Logged([r EXCEPT !.depth = i], "completed") : i \in Around(r, "accessLog")}

\* A panic comes to the deferred function of Recover, or to net/http's own.
Recover(r) ==
    IF Around(r, "recover") = {} THEN {[r EXCEPT !.depth = 0]}
    ELSE {Respond(Logged([r EXCEPT !.depth = i], "panic"), "INTERNAL_ERROR") :
             i \in Around(r, "recover")}

Outward(r) == IF r.way = "up" THEN ReturnTo(r) ELSE Recover(r)

\* The handler and all its layers have returned or been unwound.
Ended(r) == r.way \in {"up", "panic"} /\ r.depth = 0
=============================================================================
