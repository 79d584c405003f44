------------------------------- MODULE Server -------------------------------
(***************************************************************************)
(* The process of cmd/api: start, service, shutdown.  main opens the pool, *)
(* makes the server, serves in a goroutine of its own and waits for a      *)
(* signal; requests run through the layers of Middleware and take          *)
(* connections of the pool while they ask the database.                    *)
(*                                                                         *)
(* net/http, pgxpool and os/signal are modelled by what main relies on.    *)
(* Time is not counted: the ten seconds of Shutdown and the two of readyz  *)
(* may be over at any moment.  Whether the client reads an answer is left  *)
(* out.  All state dies with the process, so one life of it is modelled.   *)
(***************************************************************************)
EXTENDS Middleware, Config, FiniteSets, Naturals

CONSTANTS
    Clients,        \* connections clients may open
    Visited,        \* bound: the routes they ask for
    Environments    \* bound: the environments the process is started in

ASSUME ServerAssumption == Visited \subseteq Routes /\ Environments \subseteq Environment

VARIABLES
    env,       \* the environment of the process
    main,      \* the next step of the main goroutine
    serving,   \* the goroutine that serves
    pool,      \* the connection pool
    pending,   \* a signal is in the channel
    run,       \* what each client's connection is doing
    held,      \* the clients whose requests hold a connection of the pool
    exit       \* how the process ended, and which requests it had not finished

vars == <<env, main, serving, pool, pending, run, held, exit>>

cfg == Load(env)

\* Before signal.Notify; between it and Shutdown; from Shutdown on.
Starting == {"open", "new", "spawn", "notify"}
Stopping == {"drain", "close", "closing"}
Phases == Starting \cup {"wait", "shutdown"} \cup Stopping \cup {"exited"}

Active(c) == run[c].way \notin {"closed", "idle"}

NotExited == [code |-> "none", unfinished |-> {}]

TypeOK ==
    /\ env \in Environments
    /\ main \in Phases
    /\ serving \in {"none", "started", "listening", "failed", "ended"}
    /\ pool \in {"none", "open", "closed"}
    /\ pending \in BOOLEAN
    /\ DOMAIN run = Clients /\ \A c \in Clients : IsRun(run[c])
    /\ held \subseteq Clients
    /\ exit \in [code : {"none", "0", "1", "signal"}, unfinished : SUBSET Clients]

Init ==
    /\ env \in Environments
    /\ main = "open" /\ serving = "none" /\ pool = "none"
    /\ pending = FALSE
    /\ run = [c \in Clients |-> Quiet("closed")]
    /\ held = {}
    /\ exit = NotExited

-----------------------------------------------------------------------------
(* The main goroutine. *)

\* The process ends, and with it every goroutine and every connection.
Exit(code) ==
    /\ main' = "exited" /\ serving' = "ended" /\ pool' = "none"
    /\ pending' = FALSE
    /\ exit' = [code |-> code, unfinished |-> {c \in Clients : Active(c)}]
    /\ run' = [c \in Clients |-> Quiet("closed")]
    /\ held' = {}
    /\ UNCHANGED env

Goto(phase) ==
    /\ main' = phase
    /\ UNCHANGED <<env, run, held, exit>>

OpenDatabase ==
    /\ main = "open"
    /\ IF CanOpen(cfg)
       THEN pool' = "open" /\ Goto("new") /\ UNCHANGED <<serving, pending>>
       ELSE Exit("1")

NewServer ==
    /\ main = "new"
    /\ IF CanServe(cfg)
       THEN Goto("spawn") /\ UNCHANGED <<serving, pool, pending>>
       ELSE Exit("1")

SpawnServing ==
    /\ main = "spawn"
    /\ serving' = "started"
    /\ Goto("notify")
    /\ UNCHANGED <<pool, pending>>

NotifySignals == main = "notify" /\ Goto("wait") /\ UNCHANGED <<serving, pool, pending>>

ReceiveSignal ==
    /\ main = "wait" /\ pending
    /\ pending' = FALSE
    /\ Goto("shutdown")
    /\ UNCHANGED <<serving, pool>>

\* A variant with the deferred call moved before Shutdown.
BeginShutdownClosing ==
    /\ main = "shutdown"
    /\ serving' = IF serving = "listening" THEN "ended" ELSE serving
    /\ pool' = "closed"
    /\ Goto("drain")
    /\ UNCHANGED pending

\* server.Shutdown: no more connections.  ListenAndServe returns.
BeginShutdown ==
    /\ main = "shutdown"
    /\ serving' = IF serving = "listening" THEN "ended" ELSE serving
    /\ Goto("drain")
    /\ UNCHANGED <<pool, pending>>

\* It closes what is idle, again and again, until nothing else is left.
Drain ==
    /\ main = "drain"
    /\ \/ \E c \in Clients : run[c].way = "idle"
       \/ \A c \in Clients : ~Active(c)
    /\ run' = [c \in Clients |-> IF Active(c) THEN run[c] ELSE Quiet("closed")]
    /\ main' = IF \E c \in Clients : Active(c) THEN "drain" ELSE "close"
    /\ UNCHANGED <<env, serving, pool, pending, held, exit>>

\* Variants: the error is ignored; there is no deadline.
DrainTimeoutIgnored == main = "drain" /\ Goto("close") /\ UNCHANGED <<serving, pool, pending>>
NoDrainTimeout == FALSE

\* Ten seconds: os.Exit runs no deferred call, the pool is not closed.
DrainTimeout == main = "drain" /\ Exit("1")

\* The deferred db.Close: nobody gets a connection any more ...
ClosePool ==
    /\ main = "close"
    /\ pool' = "closed"
    /\ Goto("closing")
    /\ UNCHANGED <<serving, pending>>

\* ... and it waits for those that are out.
PoolClosed == main = "closing" /\ held = {} /\ Exit("0")

Main ==
    \/ OpenDatabase \/ NewServer \/ SpawnServing \/ NotifySignals
    \/ ReceiveSignal \/ BeginShutdown \/ Drain \/ ClosePool \/ PoolClosed

-----------------------------------------------------------------------------
(* The serving goroutine, and signals. *)

\* The address may be taken; the goroutine may come to it after Shutdown.
Listen ==
    /\ serving = "started"
    /\ \/ main \in Stopping /\ serving' = "ended"
       \/ main \notin Stopping /\ serving' \in {"listening", "failed"}
    /\ UNCHANGED <<env, main, pool, pending, run, held, exit>>

AcceptFails ==
    /\ serving = "listening"
    /\ serving' = "failed"
    /\ UNCHANGED <<env, main, pool, pending, run, held, exit>>

\* A variant that only logs the error.
ServeFailsLogged ==
    /\ serving = "failed"
    /\ serving' = "ended"
    /\ UNCHANGED <<env, main, pool, pending, run, held, exit>>

ServeFails == serving = "failed" /\ Exit("1")

\* Before Notify a signal kills the process.  After it one is kept in the
\* channel and any further one is dropped.
Signal ==
    /\ main # "exited"
    /\ \/ main \in Starting /\ Exit("signal")
       \/ /\ main \notin Starting /\ ~pending
          /\ pending' = TRUE
          /\ UNCHANGED <<env, main, serving, pool, run, held, exit>>

-----------------------------------------------------------------------------
(* Clients and their requests. *)

Become(c, r) ==
    /\ run' = [run EXCEPT ![c] = r]
    /\ UNCHANGED <<env, main, serving, pool, pending, exit>>

Connect(c) ==
    /\ run[c].way = "closed" /\ serving = "listening"
    /\ Become(c, Quiet("idle"))
    /\ UNCHANGED held

\* The client or the idle timeout closes a connection.
Disconnect(c) ==
    /\ run[c].way = "idle"
    /\ Become(c, Quiet("closed"))
    /\ UNCHANGED held

\* A request may still come on an idle connection that Shutdown has not closed.
Request(c, route) ==
    /\ run[c].way = "idle"
    /\ Become(c, Enter(route))
    /\ UNCHANGED held

GoIn(c) ==
    /\ run[c].way = "down"
    /\ \E r \in Inward(run[c]) : Become(c, r)
    /\ UNCHANGED held

GoOut(c) ==
    /\ run[c].way \in {"up", "panic"} /\ run[c].depth > 0
    /\ \E r \in Outward(run[c]) : Become(c, r)
    /\ UNCHANGED held

\* After a panic nobody recovered, or once Shutdown has begun, or if the client
\* wants it, the connection is closed.
End(c) ==
    /\ Ended(run[c])
    /\ \E way \in {"idle", "closed"} :
          /\ way = "idle" => run[c].way = "up" /\ main \notin Stopping
          /\ Become(c, Quiet(way))
    /\ UNCHANGED held

Acquire(c) ==
    /\ run[c].way = "call" /\ c \notin held
    /\ pool = "open" /\ Cardinality(held) < cfg.maxConns
    /\ held' = held \cup {c}
    /\ Become(c, run[c])

\* Between two statements outside a transaction the connection goes back.
Release(c) ==
    /\ c \in held
    /\ held' = held \ {c}
    /\ Become(c, run[c])

\* The statements are done, whatever they came to.
ServiceReturns(c) ==
    /\ c \in held
    /\ held' = held \ {c}
    /\ \E r \in Answered(run[c]) : Become(c, r)

\* A request that has no connection does without, or gives up waiting: its client
\* has gone, or the pool is closed.
GivesUp(c) ==
    /\ run[c].way = "call" /\ c \notin held
    /\ \E r \in Unconnected(run[c]) : Become(c, r)
    /\ UNCHANGED held

\* A variant without a deadline.
NoPingTimeout(c) == FALSE

\* The two seconds of HandleReadyz, with a connection or without.
PingTimeout(c) ==
    /\ run[c].way = "call" /\ run[c].route = "readyz"
    /\ \E r \in Unconnected(run[c]) : Become(c, r)
    /\ held' = held \ {c}

\* A variant in which a panicking transaction keeps its connection.
PanicsHolding(c) ==
    /\ MayPanic(run[c])
    /\ Become(c, Panicking(run[c]))
    /\ UNCHANGED held

\* WithinTx rolls back before it panics again.
Panics(c) ==
    /\ MayPanic(run[c])
    /\ Become(c, Panicking(run[c]))
    /\ held' = held \ {c}

\* The steps of a request that wait for nothing.
Local(c) == GoIn(c) \/ GoOut(c) \/ End(c) \/ PingTimeout(c)

Client(c) ==
    \/ Connect(c) \/ Disconnect(c) \/ \E route \in Visited : Request(c, route)
    \/ Local(c) \/ Acquire(c) \/ Release(c) \/ ServiceReturns(c) \/ GivesUp(c) \/ Panics(c)

-----------------------------------------------------------------------------

Next ==
    \/ Main \/ DrainTimeout
    \/ Listen \/ AcceptFails \/ ServeFails \/ Signal
    \/ \E c \in Clients : Client(c)

Spec == Init /\ [][Next]_vars

\* Nothing is asked of clients, of the database or of the operating system.
FairSpec ==
    /\ Spec
    /\ WF_vars(Main) /\ WF_vars(DrainTimeout) /\ WF_vars(ServeFails)
    /\ \A c \in Clients : WF_vars(Local(c))

-----------------------------------------------------------------------------
(* Safety of requests. *)

\* A request that has run to its end was answered exactly once, with a request
\* id and the security headers, whichever layer refused it or panicked.
AnsweredOnce ==
    \A c \in Clients : Ended(run[c]) =>
        /\ run[c].way = "up" /\ Len(run[c].answers) = 1
        /\ SecurityHeaderNames \cup {"X-Request-Id"} \subseteq run[c].answers[1].headers

\* It has left exactly one line in the log; the access log's carries its id.
LoggedOnce ==
    \A c \in Clients : Ended(run[c]) =>
        /\ Len(run[c].log) = 1
        /\ run[c].log[1].line = "completed" => run[c].log[1].id

\* A handler of a route that api/openapi.yaml protects calls no service and answers
\* with no result without the verdicts the route needs: no layer goes on after it
\* refused.
NothingPastRefusal ==
    \A c \in Clients :
        (\/ run[c].way = "call" /\ Layer(run[c]) = "handler"
         \/ \E i \in DOMAIN run[c].answers : run[c].answers[i].code \in {"OK", "REFUSED"})
        => /\ run[c].route \in UserRoutes \cup TenantRoutes => "verified" \in run[c].verdicts
           /\ run[c].route \in TenantRoutes => "granted" \in run[c].verdicts

\* The order in which layers are chained gives every layer and every handler the
\* context it reads: the branches for a missing one are never taken.
ContextComplete ==
    \A c \in Clients : \A i \in DOMAIN run[c].answers :
        run[c].answers[i].code \notin {"UNAUTHENTICATED", "CONTEXT_MISSING"}

\* A connection of the pool is held by a running call only, and no more of them
\* than DB_MAX_CONNS: a panic, a timeout or an error gives it back.
PoolBalanced ==
    /\ \A c \in held : run[c].way = "call"
    /\ held # {} => Cardinality(held) <= cfg.maxConns

-----------------------------------------------------------------------------
(* Safety of the process. *)

\* The pool is open as long as any request runs: nothing is accepted before it
\* is opened, and Shutdown has seen the last request before it is closed.
PoolOutlivesRequests == \A c \in Clients : Active(c) => pool = "open"

\* A process that ends with code 0 has finished every request it accepted.
GracefulExit == exit.code = "0" => exit.unfinished = {}

\* Whatever the environment, nothing is served without a secret of 32 bytes
\* (README.md:47), a pool that has connections, and tokens whose lifetimes are in order.
ServesOnlyConfigured ==
    serving = "listening" =>
        /\ env.secret >= 32
        /\ cfg.maxConns >= 1
        /\ 0 < cfg.accessTTL /\ cfg.accessTTL < cfg.refreshTTL

-----------------------------------------------------------------------------
(* Liveness. *)

\* Once a signal has been taken the process ends, though a handler may hang.
StopsWhenAsked == pending ~> main = "exited"

\* A process that cannot serve, or no longer does, ends.
FailureEndsProcess == serving \in {"failed", "ended"} ~> main = "exited"

\* Readiness is answered though every connection may be held for ever.
ReadyzAnswers ==
    \A c \in Clients : run[c].route = "readyz" ~> run[c].route # "readyz"
=============================================================================
