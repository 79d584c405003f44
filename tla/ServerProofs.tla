---------------------------- MODULE ServerProofs ----------------------------
(***************************************************************************)
(* Proofs about the process of Server: any number of clients, any routes   *)
(* and environments, whatever the layers and services make of a request.   *)
(* LifeInv, for the life of the process, needs nothing of Middleware: a    *)
(* request that runs goes on or ends, whichever layer it is at.            *)
(* RequestInv follows each request layer by layer, through the stacks that *)
(* Chain makes of the routes.                                              *)
(***************************************************************************)
EXTENDS Server, FiniteSetTheorems, SequenceTheorems, TLAPS

\* Where main is, the pool and the serving goroutine are what main has made of
\* them; connections exist only between the start of service and the end of Drain.
PhasesOK ==
    /\ main \in Phases
    /\ pool = IF main \in {"open", "exited"} THEN "none"
              ELSE IF main = "closing" THEN "closed" ELSE "open"
    /\ serving = "listening" => main \in {"notify", "wait", "shutdown"}
    /\ main \in {"open", "new", "spawn"} => serving = "none"
    /\ main = "exited" => serving = "ended"

\* What main has opened and made could be opened and made.
ConfiguredOK ==
    /\ env \in Environment
    /\ main \notin {"open", "exited"} => CanOpen(cfg)
    /\ main \notin {"open", "new", "exited"} => CanServe(cfg)

\* No client is connected outside of service.
Quieted == \A c \in Clients : run[c].way = "closed"
ServiceOK == main \notin {"notify", "wait", "shutdown", "drain"} => Quieted

RunsOK == DOMAIN run = Clients

\* A connection of the pool is with a request that waits for its service.
HeldOK ==
    /\ held \subseteq Clients /\ IsFiniteSet(held)
    /\ PoolBalanced

\* A process that goes on has not recorded how it ended.
ExitOK == exit.code = "0" => exit.unfinished = {}

LifeInv == PhasesOK /\ ConfiguredOK /\ ServiceOK /\ RunsOK /\ HeldOK /\ ExitOK

-----------------------------------------------------------------------------

LEMMA MaxConnsInt == env \in Environment => cfg.maxConns \in Int
BY DEF cfg, Load, GetEnvInt32, Environment, Numeral

LEMMA LifeInit == Init => LifeInv
<1> SUFFICES ASSUME Init PROVE LifeInv
    OBVIOUS
<1> USE DEF Init
<1>1. PhasesOK /\ ServiceOK /\ RunsOK /\ ExitOK
    BY DEF PhasesOK, Phases, Starting, ServiceOK, Quieted, RunsOK, ExitOK, NotExited, Quiet
<1>2. ConfiguredOK
    BY ServerAssumption DEF ConfiguredOK, ServerAssumption
<1>3. HeldOK
    BY FS_EmptySet DEF HeldOK, PoolBalanced
<1> QED
    BY <1>1, <1>2, <1>3 DEF LifeInv

\* The end of the process keeps the invariant, if an end with code 0 leaves
\* nothing behind.
LEMMA ExitKeeps ==
    ASSUME LifeInv, NEW code, Exit(code),
           code = "0" => \A c \in Clients : ~Active(c)
    PROVE  LifeInv'
<1> USE DEF LifeInv, Exit
<1>1. PhasesOK' /\ RunsOK' /\ ServiceOK'
    BY DEF PhasesOK, Phases, Starting, Stopping, RunsOK, ServiceOK, Quieted, Quiet
<1>2. ConfiguredOK'
    BY DEF ConfiguredOK
<1>3. HeldOK'
    BY FS_EmptySet DEF HeldOK, PoolBalanced
<1>4. ExitOK'
    BY DEF ExitOK
<1> QED
    BY <1>1, <1>2, <1>3, <1>4

\* A step after which no run, no connection and no exit is different.
LEMMA QuietStepKeeps ==
    ASSUME LifeInv, UNCHANGED <<env, run, held, exit>>, PhasesOK',
           ConfiguredOK', ServiceOK'
    PROVE  LifeInv'
BY DEF LifeInv, RunsOK, HeldOK, PoolBalanced, ExitOK, cfg

LEMMA MainKeeps ==
    ASSUME LifeInv, Main
    PROVE  LifeInv'
<1> USE DEF PhasesOK, Phases, Starting, Stopping, ConfiguredOK, ServiceOK, Quieted, cfg
<1>0. PhasesOK /\ ConfiguredOK /\ ServiceOK
    BY DEF LifeInv
<1>1. CASE OpenDatabase
    <2>1. CASE CanOpen(cfg)
        BY <1>0, <1>1, <2>1, QuietStepKeeps DEF OpenDatabase, Goto
    <2>2. CASE ~CanOpen(cfg)
        BY <1>1, <2>2, ExitKeeps DEF OpenDatabase
    <2> QED
        BY <2>1, <2>2
<1>2. CASE NewServer
    <2>1. CASE CanServe(cfg)
        BY <1>0, <1>2, <2>1, QuietStepKeeps DEF NewServer, Goto
    <2>2. CASE ~CanServe(cfg)
        BY <1>2, <2>2, ExitKeeps DEF NewServer
    <2> QED
        BY <2>1, <2>2
<1>3. CASE SpawnServing
    BY <1>0, <1>3, QuietStepKeeps DEF SpawnServing, Goto
<1>4. CASE NotifySignals
    BY <1>0, <1>4, QuietStepKeeps DEF NotifySignals, Goto
<1>5. CASE ReceiveSignal
    BY <1>0, <1>5, QuietStepKeeps DEF ReceiveSignal, Goto
<1>6. CASE BeginShutdown
    BY <1>0, <1>6, QuietStepKeeps DEF BeginShutdown, Goto
<1>7. CASE Drain
    <2>1. PhasesOK' /\ ConfiguredOK'
        BY <1>0, <1>7 DEF Drain
    <2>2. ServiceOK'
        BY <1>7 DEF Drain, Active, Quiet
    <2>3. RunsOK' /\ ExitOK'
        BY <1>7 DEF Drain, LifeInv, RunsOK, ExitOK
    <2>4. HeldOK'
        BY <1>7 DEF Drain, LifeInv, HeldOK, PoolBalanced, Active
    <2> QED
        BY <2>1, <2>2, <2>3, <2>4 DEF LifeInv
<1>8. CASE ClosePool
    BY <1>0, <1>8, QuietStepKeeps DEF ClosePool, Goto
<1>9. CASE PoolClosed
    <2>1. main = "closing" /\ Exit("0")
        BY <1>9 DEF PoolClosed
    <2>2. \A c \in Clients : ~Active(c)
        BY <1>0, <2>1 DEF Active
    <2> QED
        BY <2>1, <2>2, ExitKeeps
<1> QED
    BY <1>1, <1>2, <1>3, <1>4, <1>5, <1>6, <1>7, <1>8, <1>9 DEF Main

LEMMA ProcessKeeps ==
    ASSUME LifeInv, DrainTimeout \/ Listen \/ AcceptFails \/ ServeFails \/ Signal
    PROVE  LifeInv'
<1> USE DEF PhasesOK, Phases, Starting, Stopping, ConfiguredOK, ServiceOK, Quieted, cfg
<1>0. PhasesOK /\ ConfiguredOK /\ ServiceOK
    BY DEF LifeInv
<1>1. CASE DrainTimeout
    BY <1>1, ExitKeeps DEF DrainTimeout
<1>2. CASE Listen
    BY <1>0, <1>2, QuietStepKeeps DEF Listen
<1>3. CASE AcceptFails
    BY <1>0, <1>3, QuietStepKeeps DEF AcceptFails
<1>4. CASE ServeFails
    BY <1>4, ExitKeeps DEF ServeFails
<1>5. CASE Signal
    <2>1. CASE main \in Starting /\ Exit("signal")
        BY <2>1, ExitKeeps
    <2>2. CASE UNCHANGED <<env, main, serving, pool, run, held, exit>>
        BY <1>0, <2>2, QuietStepKeeps
    <2> QED
        BY <1>5, <2>1, <2>2 DEF Signal
<1> QED
    BY <1>1, <1>2, <1>3, <1>4, <1>5

-----------------------------------------------------------------------------

\* A step of one client while the server is in service, if connections are
\* with waiting requests again after it.
LEMMA BecomeKeeps ==
    ASSUME LifeInv, NEW c \in Clients, NEW r, Become(c, r),
           main \in {"notify", "wait", "shutdown", "drain"},
           HeldOK'
    PROVE  LifeInv'
<1> USE DEF LifeInv, Become
<1>1. PhasesOK' /\ ConfiguredOK'
    BY DEF PhasesOK, ConfiguredOK, cfg
<1>2. ServiceOK' /\ RunsOK' /\ ExitOK'
    BY DEF ServiceOK, RunsOK, ExitOK
<1> QED
    BY <1>1, <1>2

\* A client that is connected is so in service.
LEMMA ConnectedInService ==
    ASSUME LifeInv, NEW c \in Clients, run[c].way # "closed"
    PROVE  main \in {"notify", "wait", "shutdown", "drain"}
BY DEF LifeInv, ServiceOK, Quieted

\* What one client becomes is no matter to the connections of the others.
LEMMA OthersHold ==
    ASSUME LifeInv, NEW c \in Clients, NEW r, Become(c, r),
           c \notin held', held' \subseteq held
    PROVE  HeldOK'
<1> USE DEF LifeInv, HeldOK, PoolBalanced
<1>1. IsFiniteSet(held') /\ Cardinality(held') <= Cardinality(held)
    BY FS_Subset
<1>2. \A d \in held' : run'[d] = run[d]
    BY DEF Become, RunsOK
<1>3. cfg' = cfg /\ cfg.maxConns \in Int
    BY MaxConnsInt DEF Become, cfg, ConfiguredOK
<1>4. Cardinality(held) \in Nat /\ Cardinality(held') \in Nat
    BY <1>1, FS_CardinalityType
<1> QED
    BY <1>1, <1>2, <1>3, <1>4

LEMMA AcquireKeeps ==
    ASSUME LifeInv, NEW c \in Clients, Acquire(c)
    PROVE  LifeInv'
<1> USE DEF Acquire
<1>1. Become(c, run[c]) /\ held' = held \cup {c} /\ \A d \in Clients : run'[d] = run[d]
    BY DEF Become, LifeInv, RunsOK
<1>2. IsFiniteSet(held') /\ Cardinality(held') = Cardinality(held) + 1
    BY FS_AddElement DEF LifeInv, HeldOK
<1>3. cfg' = cfg /\ cfg.maxConns \in Int /\ Cardinality(held) \in Nat
    BY <1>1, MaxConnsInt, FS_CardinalityType DEF Become, cfg, LifeInv, HeldOK, ConfiguredOK
<1>4. HeldOK'
    BY <1>1, <1>2, <1>3 DEF LifeInv, HeldOK, PoolBalanced
<1> QED
    BY <1>1, <1>4, ConnectedInService, BecomeKeeps

LEMMA ClientKeeps ==
    ASSUME LifeInv, NEW c \in Clients, Client(c)
    PROVE  LifeInv'
<1>1. run[c].way # "call" => c \notin held
    BY DEF LifeInv, HeldOK, PoolBalanced
<1>2. c \in held => run[c].way = "call"
    BY <1>1
<1>3. ASSUME NEW r, Become(c, r), run[c].way # "closed" \/ serving = "listening",
             c \notin held', held' \subseteq held
      PROVE  LifeInv'
    <2>1. main \in {"notify", "wait", "shutdown", "drain"}
        BY <1>3, ConnectedInService DEF LifeInv, PhasesOK
    <2> QED
        BY <1>3, <2>1, OthersHold, BecomeKeeps
<1>4. CASE Connect(c)
    BY <1>1, <1>3, <1>4 DEF Connect
<1>5. CASE Disconnect(c)
    BY <1>1, <1>3, <1>5 DEF Disconnect
<1>6. CASE \E route \in Visited : Request(c, route)
    BY <1>1, <1>3, <1>6 DEF Request
<1>7. CASE GoIn(c)
    BY <1>1, <1>3, <1>7 DEF GoIn
<1>8. CASE GoOut(c)
    BY <1>1, <1>3, <1>8 DEF GoOut
<1>9. CASE End(c)
    BY <1>1, <1>3, <1>9 DEF End, Ended
<1>10. CASE PingTimeout(c)
    BY <1>3, <1>10 DEF PingTimeout
<1>11. CASE Acquire(c)
    BY <1>11, AcquireKeeps
<1>12. CASE Release(c)
    BY <1>2, <1>3, <1>12 DEF Release
<1>13. CASE ServiceReturns(c)
    BY <1>2, <1>3, <1>13 DEF ServiceReturns
<1>14. CASE GivesUp(c)
    BY <1>3, <1>14 DEF GivesUp
<1>15. CASE Panics(c)
    BY <1>3, <1>15 DEF Panics, MayPanic
<1> QED
    BY <1>4, <1>5, <1>6, <1>7, <1>8, <1>9, <1>10, <1>11, <1>12, <1>13, <1>14, <1>15
       DEF Client, Local

-----------------------------------------------------------------------------

LEMMA LifeStep == LifeInv /\ [Next]_vars => LifeInv'
<1> SUFFICES ASSUME LifeInv, [Next]_vars PROVE LifeInv'
    OBVIOUS
<1>1. CASE Main
    BY <1>1, MainKeeps
<1>2. CASE DrainTimeout \/ Listen \/ AcceptFails \/ ServeFails \/ Signal
    BY <1>2, ProcessKeeps
<1>3. CASE \E c \in Clients : Client(c)
    BY <1>3, ClientKeeps
<1>4. CASE UNCHANGED vars
    BY <1>4 DEF vars, LifeInv, PhasesOK, ConfiguredOK, ServiceOK, Quieted, RunsOK, HeldOK,
                PoolBalanced, ExitOK, cfg
<1> QED
    BY <1>1, <1>2, <1>3, <1>4 DEF Next

\* The invariant of the process's life holds whatever clients, services,
\* signals and the listener do (main.go:17-54).
THEOREM LifeInvariance == Spec => []LifeInv
<1>1. Init => LifeInv
    BY LifeInit
<1>2. LifeInv /\ [Next]_vars => LifeInv'
    BY LifeStep
<1> QED
    BY <1>1, <1>2, PTL DEF Spec

\* No request ever runs without an open pool: it is opened before anything is
\* accepted, and the deferred Close comes after the last request (main.go:26).
THEOREM PoolOpenForRequests == Spec => []PoolOutlivesRequests
<1>1. LifeInv => PoolOutlivesRequests
    BY DEF LifeInv, PhasesOK, ServiceOK, Quieted, PoolOutlivesRequests, Active
<1> QED
    BY <1>1, LifeInvariance, PTL

\* An exit with code 0 has cut off no request (main.go:50-54).
THEOREM ExitZeroIsGraceful == Spec => []GracefulExit
<1>1. LifeInv => GracefulExit
    BY DEF LifeInv, ExitOK, GracefulExit
<1> QED
    BY <1>1, LifeInvariance, PTL

\* Connections of the pool are with waiting requests only and never more than
\* DB_MAX_CONNS, for any number of clients (database.go:18, tx.go:26-42).
THEOREM ConnectionsReturned == Spec => []PoolBalanced
<1>1. LifeInv => PoolBalanced
    BY DEF LifeInv, HeldOK
<1> QED
    BY <1>1, LifeInvariance, PTL

\* Whatever the environment holds, a process that listens has a secret, a pool and
\* token lifetimes that are in order (server.go:84-102, config.go:37-108).
THEOREM OnlyConfiguredServes == Spec => []ServesOnlyConfigured
<1>1. LifeInv => ServesOnlyConfigured
    <2> SUFFICES ASSUME LifeInv, serving = "listening" PROVE ServesOnlyConfigured
        BY DEF ServesOnlyConfigured
    <2>1. CanOpen(cfg) /\ CanServe(cfg)
        BY DEF LifeInv, PhasesOK, ConfiguredOK
    <2>2. cfg.secret = env.secret
        BY DEF cfg, Load
    <2> QED
        BY <2>1, <2>2 DEF CanOpen, CanServe, NewTokenManager, ServesOnlyConfigured
<1> QED
    BY <1>1, LifeInvariance, PTL

-----------------------------------------------------------------------------
(* The layers around a handler.                                            *)

\* A layer around what it wraps.
Onto(layer, inner) == <<layer>> \o inner

\* The function that the fold of Chain is the value of, at each set of layers.
Wraps(h, ms, f) ==
    f = [s \in SUBSET DOMAIN ms |-> IF s = {} THEN h ELSE Onto(ms[Min(s)], f[s \ {Min(s)}])]

LEMMA ChainUnfolds ==
    ASSUME NEW h, NEW ms
    PROVE  Chain(h, ms) = (CHOOSE f : Wraps(h, ms, f))[DOMAIN ms]
BY DEF Chain, FoldRight, MapThenFoldSet, Wraps, Onto

LEMMA MinIs ==
    ASSUME NEW s \in SUBSET Int, NEW m \in s, \A y \in s : m <= y
    PROVE  Min(s) = m
<1>1. \A x \in s : (\A y \in s : x <= y) => x = m
    <2> SUFFICES ASSUME NEW x \in s, \A y \in s : x <= y PROVE x = m
        OBVIOUS
    <2>1. x <= m /\ m <= x /\ x \in Int /\ m \in Int
        OBVIOUS
    <2> QED
        BY <2>1
<1>2. \E x \in s : \A y \in s : x =< y
    OBVIOUS
<1>3. Min(s) \in s /\ \A y \in s : Min(s) =< y
    BY <1>2 DEF Min
<1> QED
    BY <1>1, <1>3

\* There is such a function for the four layers and fewer that the server chains.
LEMMA WrapsExists ==
    ASSUME NEW h, NEW ms, NEW n \in 0..4, DOMAIN ms = 1..n
    PROVE  \E f : Wraps(h, ms, f)
<1> DEFINE D(s) == IF 4 \in s THEN Onto(ms[4], h) ELSE h
           C(s) == IF 3 \in s THEN Onto(ms[3], D(s)) ELSE D(s)
           B(s) == IF 2 \in s THEN Onto(ms[2], C(s)) ELSE C(s)
           A(s) == IF 1 \in s THEN Onto(ms[1], B(s)) ELSE B(s)
           g == [s \in SUBSET DOMAIN ms |-> A(s)]
<1>1. ASSUME NEW s \in SUBSET DOMAIN ms, s # {}
      PROVE  A(s) = Onto(ms[Min(s)], A(s \ {Min(s)}))
    <2>0. s \in SUBSET Int /\ s \subseteq {1, 2, 3, 4}
        OBVIOUS
    <2>1. CASE 1 \in s
        <3>1. Min(s) = 1
            BY <2>0, <2>1, MinIs
        <3> QED
            BY <2>1, <3>1
    <2>2. CASE 1 \notin s /\ 2 \in s
        <3>1. Min(s) = 2
            BY <2>0, <2>2, MinIs
        <3> QED
            BY <2>2, <3>1
    <2>3. CASE 1 \notin s /\ 2 \notin s /\ 3 \in s
        <3>1. Min(s) = 3
            BY <2>0, <2>3, MinIs
        <3> QED
            BY <2>3, <3>1
    <2>4. CASE 1 \notin s /\ 2 \notin s /\ 3 \notin s
        <3>1. Min(s) = 4 /\ 4 \in s
            BY <2>0, <1>1, <2>4, MinIs
        <3> QED
            BY <2>4, <3>1
    <2> QED
        BY <2>1, <2>2, <2>3, <2>4
<1>2. A({}) = h
    OBVIOUS
<1> HIDE DEF A
<1>3. \A s \in SUBSET DOMAIN ms : s # {} => g[s \ {Min(s)}] = A(s \ {Min(s)})
    OBVIOUS
<1>4. Wraps(h, ms, g)
    <2>1. \A s \in SUBSET DOMAIN ms :
            A(s) = IF s = {} THEN h ELSE Onto(ms[Min(s)], g[s \ {Min(s)}])
        BY <1>1, <1>2, <1>3
    <2> QED
        BY <2>1 DEF Wraps
<1> QED
    BY <1>4

LEMMA ChainWraps ==
    ASSUME NEW h, NEW ms, NEW n \in 0..4, DOMAIN ms = 1..n
    PROVE  \E f : Wraps(h, ms, f) /\ Chain(h, ms) = f[1..n]
BY ChainUnfolds, WrapsExists

\* The first layer of a set is around what the others make.
LEMMA WrapsStep ==
    ASSUME NEW h, NEW ms, NEW f, Wraps(h, ms, f), NEW s \in SUBSET DOMAIN ms,
           NEW m \in s, Min(s) = m, NEW t, t = s \ {m}, NEW a, a = ms[m]
    PROVE  f[s] = Onto(a, f[t])
BY DEF Wraps

\* Chain wraps the first of its arguments outermost.
LEMMA Chained ==
    /\ \A h : Chain(h, <<>>) = h
    /\ \A h, a : Chain(h, <<a>>) = Onto(a, h)
    /\ \A h, a, b : Chain(h, <<a, b>>) = Onto(a, Onto(b, h))
    /\ \A h, a, b, c, d : Chain(h, <<a, b, c, d>>) = Onto(a, Onto(b, Onto(c, Onto(d, h))))
<1>1. ASSUME NEW h PROVE Chain(h, <<>>) = h
    <2>1. PICK ms, n : ms = <<>> /\ n = 0
        OBVIOUS
    <2>2. n \in 0..4 /\ DOMAIN ms = 1..n /\ n + 1 = 1
        BY <2>1
    <2>3. PICK f : Wraps(h, ms, f) /\ Chain(h, ms) = f[1..n]
        BY <2>2, ChainWraps
    <2>4. PICK s : s = 1..n
        OBVIOUS
    <2>5. s = {}
        BY <2>1, <2>4
    <2>6. f[s] = h
        BY <2>3, <2>5 DEF Wraps
    <2> QED
        BY <2>1, <2>3, <2>4, <2>6
<1>2. ASSUME NEW h, NEW a
      PROVE  Chain(h, <<a>>) = Onto(a, h)
    <2>1. PICK ms, n : ms = <<a>> /\ n = 1
        OBVIOUS
    <2>2. /\ n \in 0..4 /\ DOMAIN ms = 1..n
          /\ ms[1] = a
        BY <2>1
    <2>3. PICK s1, s2 : s1 = 1..n /\ s2 = 2..n
        OBVIOUS
    <2>4. PICK f : Wraps(h, ms, f) /\ Chain(h, ms) = f[s1]
        BY <2>2, <2>3, ChainWraps
    <2>5. s2 = {}
        BY <2>1, <2>3
    <2>6. f[s2] = h
        BY <2>4, <2>5 DEF Wraps
    <2>7. f[s1] = Onto(a, f[s2])
        <3>1. PICK m : m = 1
            OBVIOUS
        <3>2. Min(s1) = m
            BY <2>1, <2>3, <3>1, MinIs
        <3>3. s1 \in SUBSET DOMAIN ms /\ m \in s1 /\ s2 = s1 \ {m} /\ a = ms[m]
            BY <2>1, <2>2, <2>3, <3>1
        <3> QED
            BY <2>4, <3>2, <3>3, WrapsStep
    <2> QED
        BY <2>1, <2>4, <2>6, <2>7
<1>3. ASSUME NEW h, NEW a, NEW b
      PROVE  Chain(h, <<a, b>>) = Onto(a, Onto(b, h))
    <2>1. PICK ms, n : ms = <<a, b>> /\ n = 2
        OBVIOUS
    <2>2. /\ n \in 0..4 /\ DOMAIN ms = 1..n
          /\ ms[1] = a /\ ms[2] = b
        BY <2>1
    <2>3. PICK s1, s2, s3 : s1 = 1..n /\ s2 = 2..n /\ s3 = 3..n
        OBVIOUS
    <2>4. PICK f : Wraps(h, ms, f) /\ Chain(h, ms) = f[s1]
        BY <2>2, <2>3, ChainWraps
    <2>5. s3 = {}
        BY <2>1, <2>3
    <2>6. f[s3] = h
        BY <2>4, <2>5 DEF Wraps
    <2>7. f[s1] = Onto(a, f[s2])
        <3>1. PICK m : m = 1
            OBVIOUS
        <3>2. Min(s1) = m
            BY <2>1, <2>3, <3>1, MinIs
        <3>3. s1 \in SUBSET DOMAIN ms /\ m \in s1 /\ s2 = s1 \ {m} /\ a = ms[m]
            BY <2>1, <2>2, <2>3, <3>1
        <3> QED
            BY <2>4, <3>2, <3>3, WrapsStep
    <2>8. f[s2] = Onto(b, f[s3])
        <3>1. PICK m : m = 2
            OBVIOUS
        <3>2. Min(s2) = m
            BY <2>1, <2>3, <3>1, MinIs
        <3>3. s2 \in SUBSET DOMAIN ms /\ m \in s2 /\ s3 = s2 \ {m} /\ b = ms[m]
            BY <2>1, <2>2, <2>3, <3>1
        <3> QED
            BY <2>4, <3>2, <3>3, WrapsStep
    <2> QED
        BY <2>1, <2>4, <2>6, <2>7, <2>8
<1>4. ASSUME NEW h, NEW a, NEW b, NEW c, NEW d
      PROVE  Chain(h, <<a, b, c, d>>) = Onto(a, Onto(b, Onto(c, Onto(d, h))))
    <2>1. PICK ms, n : ms = <<a, b, c, d>> /\ n = 4
        OBVIOUS
    <2>2. /\ n \in 0..4 /\ DOMAIN ms = 1..n
          /\ ms[1] = a /\ ms[2] = b /\ ms[3] = c /\ ms[4] = d
        BY <2>1
    <2>3. PICK s1, s2, s3, s4, s5 : s1 = 1..n /\ s2 = 2..n /\ s3 = 3..n /\ s4 = 4..n /\ s5 = 5..n
        OBVIOUS
    <2>4. PICK f : Wraps(h, ms, f) /\ Chain(h, ms) = f[s1]
        BY <2>2, <2>3, ChainWraps
    <2>5. s5 = {}
        BY <2>1, <2>3
    <2>6. f[s5] = h
        BY <2>4, <2>5 DEF Wraps
    <2>7. f[s1] = Onto(a, f[s2])
        <3>1. PICK m : m = 1
            OBVIOUS
        <3>2. Min(s1) = m
            BY <2>1, <2>3, <3>1, MinIs
        <3>3. s1 \in SUBSET DOMAIN ms /\ m \in s1 /\ s2 = s1 \ {m} /\ a = ms[m]
            BY <2>1, <2>2, <2>3, <3>1
        <3> QED
            BY <2>4, <3>2, <3>3, WrapsStep
    <2>8. f[s2] = Onto(b, f[s3])
        <3>1. PICK m : m = 2
            OBVIOUS
        <3>2. Min(s2) = m
            BY <2>1, <2>3, <3>1, MinIs
        <3>3. s2 \in SUBSET DOMAIN ms /\ m \in s2 /\ s3 = s2 \ {m} /\ b = ms[m]
            BY <2>1, <2>2, <2>3, <3>1
        <3> QED
            BY <2>4, <3>2, <3>3, WrapsStep
    <2>9. f[s3] = Onto(c, f[s4])
        <3>1. PICK m : m = 3
            OBVIOUS
        <3>2. Min(s3) = m
            BY <2>1, <2>3, <3>1, MinIs
        <3>3. s3 \in SUBSET DOMAIN ms /\ m \in s3 /\ s4 = s3 \ {m} /\ c = ms[m]
            BY <2>1, <2>2, <2>3, <3>1
        <3> QED
            BY <2>4, <3>2, <3>3, WrapsStep
    <2>10. f[s4] = Onto(d, f[s5])
        <3>1. PICK m : m = 4
            OBVIOUS
        <3>2. Min(s4) = m
            BY <2>1, <2>3, <3>1, MinIs
        <3>3. s4 \in SUBSET DOMAIN ms /\ m \in s4 /\ s5 = s4 \ {m} /\ d = ms[m]
            BY <2>1, <2>2, <2>3, <3>1
        <3> QED
            BY <2>4, <3>2, <3>3, WrapsStep
    <2> QED
        BY <2>1, <2>4, <2>6, <2>7, <2>8, <2>9, <2>10
<1> QED
    BY <1>1, <1>2, <1>3, <1>4

\* What Onto makes of layers of S.
Outer(S, layer, inner, w) ==
    /\ w \in Seq(S) /\ Len(w) = Len(inner) + 1 /\ w[1] = layer
    /\ \A i \in 1..Len(inner) : w[i + 1] = inner[i]

LEMMA OntoIs ==
    ASSUME NEW S, NEW layer \in S, NEW inner \in Seq(S), NEW w, w = Onto(layer, inner)
    PROVE  Outer(S, layer, inner, w)
<1>1. PICK head : head = <<layer>>
    OBVIOUS
<1>2. head \in Seq(S)
    BY <1>1
<1>3. Len(head) = 1 /\ head[1] = layer /\ Len(inner) \in Nat
    BY <1>1
<1>4. w = head \o inner
    BY <1>1 DEF Onto
<1>5. /\ w \in Seq(S) /\ Len(w) = Len(head) + Len(inner)
      /\ \A i \in 1..(Len(head) + Len(inner)) :
              w[i] = IF i <= Len(head) THEN head[i] ELSE inner[i - Len(head)]
    BY <1>2, <1>4, ConcatProperties
<1>6. w[1] = layer
    BY <1>3, <1>5
<1>7. ASSUME NEW i \in 1..Len(inner) PROVE w[i + 1] = inner[i]
    <2>1. i + 1 \in 1..(Len(head) + Len(inner)) /\ ~(i + 1 <= Len(head)) /\ i + 1 - Len(head) = i
        BY <1>3
    <2> QED
        BY <1>5, <2>1
<1> QED
    BY <1>3, <1>5, <1>6, <1>7 DEF Outer

LayerNames == {"recover", "requestID", "accessLog", "securityHeaders", "mux",
               "requireAuth", "requireTenant", "handler"}

\* What is registered for a route: its handler behind what the route requires
\* (server.go:39-55).
LEMMA RouteLayers ==
    ASSUME NEW route \in Routes, NEW w, w = Registered(route)
    PROVE  /\ w \in Seq(LayerNames)
           /\ Len(w) = IF route \in TenantRoutes THEN 3
                       ELSE IF route \in UserRoutes THEN 2 ELSE 1
           /\ route \in UserRoutes \cup TenantRoutes => w[1] = "requireAuth"
           /\ route \in TenantRoutes => w[2] = "requireTenant"
           /\ w[Len(w)] = "handler"
<1>1. PICK h, a, t : h = "handler" /\ a = "requireAuth" /\ t = "requireTenant"
    OBVIOUS
<1>2. h \in LayerNames /\ a \in LayerNames /\ t \in LayerNames
    BY <1>1 DEF LayerNames
<1>3. PICK w1 : w1 = <<h>>
    OBVIOUS
<1>4. w1 \in Seq(LayerNames) /\ Len(w1) = 1 /\ w1[1] = h
    BY <1>2, <1>3
<1>5. PICK w2 : w2 = Onto(t, w1)
    OBVIOUS
<1>6. Outer(LayerNames, t, w1, w2)
    BY <1>2, <1>4, <1>5, OntoIs
<1>7. CASE route \in TenantRoutes
    <2>1. Registered(route) = Chain(w1, <<a, t>>)
        <3>1. route \notin UserRoutes
            BY <1>7 DEF TenantRoutes, UserRoutes
        <3> QED
            BY <1>1, <1>3, <1>7, <3>1 DEF Registered
    <2>2. w = Onto(a, w2)
        BY <1>5, <2>1, Chained
    <2>3. w2 \in Seq(LayerNames) /\ Len(w2) = 2 /\ w2[1] = t /\ w2[1 + 1] = h
        BY <1>4, <1>6 DEF Outer
    <2>4. Outer(LayerNames, a, w2, w)
        BY <1>2, <2>2, <2>3, OntoIs
    <2>5. w[1 + 1] = t /\ w[2 + 1] = h
        BY <2>3, <2>4 DEF Outer
    <2>6. w \in Seq(LayerNames) /\ Len(w) = 3 /\ w[1] = a
        BY <2>3, <2>4 DEF Outer
    <2>7. 1 + 1 = 2 /\ 2 + 1 = 3
        OBVIOUS
    <2>8. w[2] = t /\ w[3] = h
        BY <2>5, <2>7
    <2>9. Len(w) = 3 /\ w[Len(w)] = h
        BY <2>6, <2>8
    <2>10. w[1] = "requireAuth" /\ w[2] = "requireTenant" /\ w[Len(w)] = "handler"
        BY <1>1, <2>6, <2>8, <2>9
    <2>11. Len(w) = IF route \in TenantRoutes THEN 3 ELSE IF route \in UserRoutes THEN 2 ELSE 1
        BY <1>7, <2>9
    <2> QED
        BY <2>6, <2>10, <2>11
<1>8. CASE route \in UserRoutes
    <2>1. Registered(route) = Chain(w1, <<a>>)
        <3>1. route \notin TenantRoutes
            BY <1>8 DEF TenantRoutes, UserRoutes
        <3> QED
            BY <1>1, <1>3, <1>8, <3>1 DEF Registered
    <2>2. w = Onto(a, w1)
        BY <2>1, Chained
    <2>3. Outer(LayerNames, a, w1, w)
        BY <1>2, <1>4, <2>2, OntoIs
    <2>4. w[1 + 1] = h /\ w \in Seq(LayerNames) /\ Len(w) = 2 /\ w[1] = a
        BY <1>4, <2>3 DEF Outer
    <2>5. route \notin TenantRoutes
        BY <1>8 DEF UserRoutes, TenantRoutes
    <2> QED
        BY <1>1, <1>8, <2>4, <2>5
<1>9. CASE route \notin UserRoutes \cup TenantRoutes
    <2>1. Registered(route) = Chain(w1, <<>>)
        BY <1>1, <1>3, <1>9 DEF Registered
    <2>2. w = w1
        BY <2>1, Chained
    <2> QED
        BY <1>1, <1>4, <1>9, <2>2
<1> QED
    BY <1>7, <1>8, <1>9

\* The whole stack of a route: the five layers every request passes, around it.
LEMMA StackLayers ==
    ASSUME NEW route \in Routes, NEW w, w = Registered(route), NEW s, s = Stacks[route]
    PROVE  /\ Len(s) = Len(w) + 5
           /\ s[1] = "recover" /\ s[2] = "requestID" /\ s[3] = "accessLog"
           /\ s[4] = "securityHeaders" /\ s[5] = "mux"
           /\ \A i \in 1..Len(w) : s[i + 5] = w[i]
<1>1. PICK a, b, c, d, m : a = "recover" /\ b = "requestID" /\ c = "accessLog"
                           /\ d = "securityHeaders" /\ m = "mux"
    OBVIOUS
<1>2. a \in LayerNames /\ b \in LayerNames /\ c \in LayerNames /\ d \in LayerNames
      /\ m \in LayerNames
    BY <1>1 DEF LayerNames
<1>3. PICK w1 : w1 = Onto(m, w)
    OBVIOUS
<1>4. PICK w2 : w2 = Onto(d, w1)
    OBVIOUS
<1>5. PICK w3 : w3 = Onto(c, w2)
    OBVIOUS
<1>6. PICK w4 : w4 = Onto(b, w3)
    OBVIOUS
<1>7. w \in Seq(LayerNames) /\ Len(w) \in Nat
    BY RouteLayers
<1>8. Outer(LayerNames, m, w, w1)
    BY <1>2, <1>3, <1>7, OntoIs
<1>9. w1 \in Seq(LayerNames) /\ Len(w1) \in Nat
    BY <1>8 DEF Outer
<1>10. Outer(LayerNames, d, w1, w2)
    BY <1>2, <1>4, <1>9, OntoIs
<1>11. w2 \in Seq(LayerNames) /\ Len(w2) \in Nat
    BY <1>10 DEF Outer
<1>12. Outer(LayerNames, c, w2, w3)
    BY <1>2, <1>5, <1>11, OntoIs
<1>13. w3 \in Seq(LayerNames) /\ Len(w3) \in Nat
    BY <1>12 DEF Outer
<1>14. Outer(LayerNames, b, w3, w4)
    BY <1>2, <1>6, <1>13, OntoIs
<1>15. w4 \in Seq(LayerNames) /\ Len(w4) \in Nat
    BY <1>14 DEF Outer
<1>16. s = Onto(a, w4)
    <2>1. Onto(m, w) = <<"mux">> \o Registered(route)
        BY <1>1 DEF Onto
    <2>2. s = Chain(w1, <<a, b, c, d>>)
        BY <1>1, <1>3, <2>1 DEF Stacks, Stack
    <2> QED
        BY <1>4, <1>5, <1>6, <2>2, Chained
<1>17. Outer(LayerNames, a, w4, s)
    BY <1>2, <1>15, <1>16, OntoIs
<1>18. Len(w1) = Len(w) + 1 /\ Len(w2) = Len(w) + 2 /\ Len(w3) = Len(w) + 3
       /\ Len(w4) = Len(w) + 4 /\ Len(s) = Len(w) + 5
    BY <1>7, <1>8, <1>10, <1>12, <1>14, <1>17 DEF Outer
<1>19. s[1] = a
    BY <1>17 DEF Outer
<1>20. s[1 + 1] = b
    <2>1. w4[1] = b /\ 1 \in 1..Len(w4)
        BY <1>7, <1>14, <1>18 DEF Outer
    <2> QED
        BY <1>17, <2>1 DEF Outer
<1>21. s[2 + 1] = c
    <2>1. w3[1] = c /\ 1 \in 1..Len(w3)
        BY <1>7, <1>12, <1>18 DEF Outer
    <2>2. w4[1 + 1] = c
        BY <1>14, <2>1 DEF Outer
    <2>3. 2 \in 1..Len(w4)
        BY <1>7, <1>18
    <2> QED
        BY <1>17, <2>2, <2>3 DEF Outer
<1>22. ASSUME NEW i \in 1..Len(w1) PROVE s[i + 4] = w1[i] /\ s[3 + 1] = d
    <2>1. /\ 1 \in 1..Len(w2) /\ i + 1 \in 1..Len(w2)
          /\ 2 \in 1..Len(w3) /\ i + 2 \in 1..Len(w3)
          /\ 3 \in 1..Len(w4) /\ i + 3 \in 1..Len(w4)
        BY <1>7, <1>18
    <2>2. w2[1] = d /\ w2[i + 1] = w1[i]
        BY <1>10 DEF Outer
    <2>3. w3[1 + 1] = d /\ w3[(i + 1) + 1] = w1[i]
        BY <1>12, <2>1, <2>2 DEF Outer
    <2>4. w4[2 + 1] = d /\ w4[(i + 2) + 1] = w1[i]
        BY <1>14, <2>1, <2>3 DEF Outer
    <2>5. s[3 + 1] = d /\ s[(i + 3) + 1] = w1[i]
        BY <1>17, <2>1, <2>4 DEF Outer
    <2> QED
        BY <2>5
<1>23. /\ s[4] = d /\ s[5] = m
       /\ \A i \in 1..Len(w) : s[i + 5] = w[i]
    <2>1. 1 \in 1..Len(w1) /\ w1[1] = m
        BY <1>7, <1>8, <1>18 DEF Outer
    <2>2. s[4] = d /\ s[5] = m
        BY <1>22, <2>1
    <2>3. ASSUME NEW i \in 1..Len(w) PROVE s[i + 5] = w[i]
        <3>1. w1[i + 1] = w[i] /\ i + 1 \in 1..Len(w1)
            BY <1>7, <1>8, <1>18 DEF Outer
        <3>2. s[(i + 1) + 4] = w1[i + 1]
            BY <1>22, <3>1
        <3> QED
            BY <3>1, <3>2
    <2> QED
        BY <2>2, <2>3
<1> QED
    BY <1>1, <1>18, <1>19, <1>20, <1>21, <1>23

-----------------------------------------------------------------------------
(* What is known of a request by the layers it has entered.                *)

\* The depth of a route's handler.
HandlerAt(route) ==
    IF route \in TenantRoutes THEN 8 ELSE IF route \in UserRoutes THEN 7 ELSE 6

Shown == {"X-Request-Id"} \cup SecurityHeaderNames

\* Each layer entered has left behind it what the layers within read.
EnteredOK(r) ==
    LET n == Len(r.contexts)
    IN  /\ r.contexts \in Seq(SUBSET ContextKeys)
        /\ n \in 1..HandlerAt(r.route)
        /\ r.route = "unknown" => n <= 5
        /\ n >= 3 => "request_id" \in r.contexts[3]
        /\ n >= 7 => "user" \in r.contexts[n]
        /\ n >= 8 => "tenant" \in r.contexts[n]
        /\ r.headers \subseteq HeaderNames
        /\ n >= 3 => "X-Request-Id" \in r.headers
        /\ n >= 5 => SecurityHeaderNames \subseteq r.headers
        /\ r.verdicts \subseteq {"verified", "granted"}
        /\ n >= 7 => "verified" \in r.verdicts
        /\ n >= 8 => "granted" \in r.verdicts

\* Going in, at the innermost layer entered, nothing is answered or logged.
InwardOK(r) ==
    /\ r.depth = Len(r.contexts) /\ r.answers = <<>> /\ r.log = <<>>
    /\ r.way = "panic" => r.depth >= 6
    /\ r.way = "call" => r.depth = HandlerAt(r.route) \/ r.depth = 7

AnswerOK(r, answer) ==
    /\ Shown \subseteq answer.headers
    /\ answer.code \notin {"UNAUTHENTICATED", "CONTEXT_MISSING"}
    /\ answer.code \in {"OK", "REFUSED"} => Len(r.contexts) = HandlerAt(r.route)

\* Coming back, it is answered, and logged by the access log or by Recover.
OutwardOK(r) ==
    /\ r.answers \in Seq(Response) /\ Len(r.answers) = 1 /\ AnswerOK(r, r.answers[1])
    /\ r.log \in Seq(LogLine)
    /\ \/ r.depth = Len(r.contexts) /\ r.depth >= 5 /\ r.log = <<>>
       \/ /\ r.depth \in {0, 1, 3} /\ Len(r.log) = 1
          /\ r.log[1].line = "completed" => r.log[1].id

RunOK(r) ==
    /\ DOMAIN r = {"route", "way", "depth", "contexts", "headers", "answers",
                   "verdicts", "log"}
    /\ r.way \in Ways
    /\ IF r.way \in {"closed", "idle"} THEN r = Quiet(r.way)
       ELSE /\ r.route \in Routes /\ EnteredOK(r)
            /\ IF r.way = "up" THEN OutwardOK(r) ELSE InwardOK(r)

\* What the process keeps beside.
ProcessOK ==
    /\ env \in Environments /\ pending \in BOOLEAN
    /\ serving \in {"none", "started", "listening", "failed", "ended"}
    /\ exit \in [code : {"none", "0", "1", "signal"}, unfinished : SUBSET Clients]

RequestInv == LifeInv /\ ProcessOK /\ \A c \in Clients : RunOK(run[c])

\* Where each layer is.
LayerAt(route, i) ==
    CASE i = 1 -> "recover"
      [] i = 2 -> "requestID"
      [] i = 3 -> "accessLog"
      [] i = 4 -> "securityHeaders"
      [] i = 5 -> "mux"
      [] i = HandlerAt(route) -> "handler"
      [] i = 6 /\ HandlerAt(route) > 6 -> "requireAuth"
      [] i = 7 /\ HandlerAt(route) > 7 -> "requireTenant"

LEMMA HandlerIs ==
    ASSUME NEW route \in Routes
    PROVE  /\ HandlerAt(route) \in 6..8
           /\ route \in TenantRoutes <=> HandlerAt(route) = 8
           /\ route \in UserRoutes <=> HandlerAt(route) = 7
BY DEF HandlerAt, Routes, PublicRoutes, UserRoutes, TenantRoutes

LEMMA Layers ==
    ASSUME NEW route \in Routes
    PROVE  /\ Len(Stacks[route]) = HandlerAt(route)
           /\ \A i \in 1..HandlerAt(route) : Stacks[route][i] = LayerAt(route, i)
<1>1. PICK w, s, n : w = Registered(route) /\ s = Stacks[route] /\ n = HandlerAt(route)
    OBVIOUS
<1>2. n \in 6..8 /\ (route \in TenantRoutes <=> n = 8) /\ (route \in UserRoutes <=> n = 7)
    BY <1>1, HandlerIs
<1>3. /\ Len(w) = n - 5 /\ w[Len(w)] = "handler"
      /\ n >= 7 => w[1] = "requireAuth"
      /\ n = 8 => w[2] = "requireTenant"
    BY <1>1, <1>2, RouteLayers
<1>4. /\ Len(s) = Len(w) + 5
      /\ s[1] = "recover" /\ s[2] = "requestID" /\ s[3] = "accessLog"
      /\ s[4] = "securityHeaders" /\ s[5] = "mux"
      /\ \A i \in 1..Len(w) : s[i + 5] = w[i]
    BY <1>1, StackLayers
<1>5. Len(s) = n /\ s[n] = "handler"
    <2>1. Len(w) \in 1..Len(w) /\ Len(w) + 5 = n
        BY <1>2, <1>3
    <2> QED
        BY <1>3, <1>4, <2>1
<1>6. n >= 7 => s[6] = "requireAuth"
    <2>1. n >= 7 => 1 \in 1..Len(w) /\ 1 + 5 = 6
        BY <1>2, <1>3
    <2> QED
        BY <1>3, <1>4, <2>1
<1>7. n = 8 => s[7] = "requireTenant"
    <2>1. n = 8 => 2 \in 1..Len(w) /\ 2 + 5 = 7
        BY <1>2, <1>3
    <2> QED
        BY <1>3, <1>4, <2>1
<1>8. ASSUME NEW i \in 1..n PROVE s[i] = LayerAt(route, i)
    <2>1. i \in 1..8
        BY <1>2
    <2> QED
        BY <1>1, <1>2, <1>4, <1>5, <1>6, <1>7, <2>1 DEF LayerAt
<1> QED
    BY <1>1, <1>5, <1>8

\* Which layers a request comes back through.
LEMMA AccessLogAround ==
    ASSUME NEW r, r.route \in Routes, r.depth \in 0..HandlerAt(r.route)
    PROVE  /\ Around(r, "accessLog") = IF r.depth > 3 THEN {3} ELSE {}
           /\ r.depth > 1 => Around(r, "recover") = {1}
<1>1. PICK n, d : n = HandlerAt(r.route) /\ d = r.depth
    OBVIOUS
<1>2. n \in 6..8 /\ d \in 0..n
    BY <1>1, HandlerIs
<1>3. \A i \in 1..(d - 1) : Stacks[r.route][i] = LayerAt(r.route, i)
    BY <1>1, <1>2, Layers
<1>4. \A i \in 1..(d - 1) : /\ LayerAt(r.route, i) = "accessLog" <=> i = 3
                            /\ LayerAt(r.route, i) = "recover" <=> i = 1
    BY <1>1, <1>2 DEF LayerAt
<1>5. \A i \in 1..(d - 1) : /\ Stacks[r.route][i] = "accessLog" <=> i = 3
                            /\ Stacks[r.route][i] = "recover" <=> i = 1
    BY <1>3, <1>4
<1>6. /\ Around(r, "accessLog") = {i \in 1..(d - 1) : i = 3}
      /\ Around(r, "recover") = {i \in 1..(d - 1) : i = 1}
    BY <1>1, <1>5 DEF Around
<1> QED
    BY <1>1, <1>2, <1>6

-----------------------------------------------------------------------------
(* What layers do to a request keeps what is known of it.                  *)

\* A request on its way in, or waiting for its service.
Within(r) == RunOK(r) /\ r.way \in {"down", "call"}

LEMMA WithinIs ==
    ASSUME NEW r, Within(r)
    PROVE  /\ r.route \in Routes /\ EnteredOK(r) /\ InwardOK(r)
           /\ HandlerAt(r.route) \in 6..8
           /\ r.depth \in 1..HandlerAt(r.route)
           /\ Context(r) \in SUBSET ContextKeys
           /\ Layer(r) = LayerAt(r.route, r.depth)
<1>1. r.route \in Routes /\ EnteredOK(r) /\ InwardOK(r)
    BY DEF Within, RunOK
<1>2. HandlerAt(r.route) \in 6..8
    BY <1>1, HandlerIs
<1>3. r.depth \in 1..HandlerAt(r.route)
    BY <1>1 DEF EnteredOK, InwardOK
<1>4. Context(r) \in SUBSET ContextKeys
    BY <1>1, <1>3 DEF EnteredOK, InwardOK, Context
<1>5. Layer(r) = LayerAt(r.route, r.depth)
    BY <1>1, <1>3, Layers DEF Layer
<1> QED
    BY <1>1, <1>2, <1>3, <1>4, <1>5

LEMMA QuietKeeps == \A way \in {"closed", "idle"} : RunOK(Quiet(way))
BY DEF Quiet, RunOK, Ways

LEMMA EnterKeeps ==
    ASSUME NEW route \in Routes
    PROVE  RunOK(Enter(route))
<1>1. PICK q, contexts : q = Enter(route) /\ contexts = <<{}>>
    OBVIOUS
<1>2. /\ DOMAIN q = {"route", "way", "depth", "contexts", "headers", "answers",
                     "verdicts", "log"}
      /\ q.route = route /\ q.way = "down" /\ q.depth = 1 /\ q.contexts = contexts
      /\ q.headers = {} /\ q.answers = <<>> /\ q.verdicts = {} /\ q.log = <<>>
    BY <1>1 DEF Enter, Quiet
<1>3. contexts \in Seq(SUBSET ContextKeys) /\ Len(contexts) = 1
    BY <1>1
<1>4. HandlerAt(route) \in 6..8
    BY HandlerIs
<1>5. EnteredOK(q)
    BY <1>2, <1>3, <1>4 DEF EnteredOK
<1>6. InwardOK(q)
    BY <1>2, <1>3 DEF InwardOK
<1> QED
    BY <1>1, <1>2, <1>5, <1>6 DEF RunOK, Ways

LEMMA SetKeeps ==
    ASSUME NEW r, Within(r), NEW names \in SUBSET HeaderNames, NEW q, q = Set(r, names)
    PROVE  /\ Within(q) /\ q.route = r.route /\ q.way = r.way /\ q.depth = r.depth
           /\ q.contexts = r.contexts /\ names \subseteq q.headers
           /\ q.verdicts = r.verdicts
<1>1. /\ DOMAIN q = DOMAIN r
      /\ q.route = r.route /\ q.way = r.way /\ q.depth = r.depth
      /\ q.contexts = r.contexts /\ q.headers = r.headers \cup names
      /\ q.answers = r.answers /\ q.verdicts = r.verdicts /\ q.log = r.log
    BY DEF Set, Within, RunOK
<1>2. EnteredOK(q) /\ InwardOK(q)
    BY <1>1, WithinIs DEF EnteredOK, InwardOK
<1> QED
    BY <1>1, <1>2 DEF Within, RunOK

LEMMA PassedKeeps ==
    ASSUME NEW r, Within(r), NEW verdict \in {"verified", "granted"},
           NEW q, q = Passed(r, verdict)
    PROVE  /\ Within(q) /\ q.route = r.route /\ q.way = r.way /\ q.depth = r.depth
           /\ q.contexts = r.contexts /\ q.headers = r.headers
           /\ q.verdicts = r.verdicts \cup {verdict}
<1>1. /\ DOMAIN q = DOMAIN r
      /\ q.route = r.route /\ q.way = r.way /\ q.depth = r.depth
      /\ q.contexts = r.contexts /\ q.headers = r.headers
      /\ q.answers = r.answers /\ q.verdicts = r.verdicts \cup {verdict} /\ q.log = r.log
    BY DEF Passed, Within, RunOK
<1>2. EnteredOK(q) /\ InwardOK(q)
    BY <1>1, WithinIs DEF EnteredOK, InwardOK
<1> QED
    BY <1>1, <1>2 DEF Within, RunOK

\* A layer may go on to the next when it has done its part.
LEMMA ServeNextKeeps ==
    ASSUME NEW r, Within(r), NEW added \in SUBSET ContextKeys,
           r.depth < HandlerAt(r.route), r.route = "unknown" => r.depth <= 4,
           r.depth = 2 => "request_id" \in added /\ "X-Request-Id" \in r.headers,
           r.depth = 4 => SecurityHeaderNames \subseteq r.headers,
           r.depth = 6 => "user" \in added /\ "verified" \in r.verdicts,
           r.depth = 7 => "tenant" \in added /\ "granted" \in r.verdicts
    PROVE  RunOK(ServeNext(r, added))
<1>1. PICK q, context : q = ServeNext(r, added) /\ context = Context(r) \cup added
    OBVIOUS
<1>2. /\ DOMAIN q = DOMAIN r
      /\ q.route = r.route /\ q.way = "down" /\ q.depth = r.depth + 1
      /\ q.contexts = Append(r.contexts, context) /\ q.headers = r.headers
      /\ q.answers = r.answers /\ q.verdicts = r.verdicts /\ q.log = r.log
    BY <1>1 DEF ServeNext, Within, RunOK
<1>3. PICK n, handler : n = Len(r.contexts) /\ handler = HandlerAt(r.route)
    OBVIOUS
<1>4. /\ n = r.depth /\ n \in 1..handler /\ handler \in 6..8
      /\ r.contexts \in Seq(SUBSET ContextKeys) /\ context \in SUBSET ContextKeys
      /\ r.contexts[n] \subseteq context /\ added \subseteq context
    BY <1>1, <1>3, WithinIs DEF InwardOK, EnteredOK, Context
<1>5. /\ q.contexts \in Seq(SUBSET ContextKeys) /\ Len(q.contexts) = n + 1
      /\ \A i \in 1..n : q.contexts[i] = r.contexts[i]
      /\ q.contexts[n + 1] = context
    <2>1. PICK S, contexts : S = SUBSET ContextKeys /\ contexts = r.contexts
        OBVIOUS
    <2>2. contexts \in Seq(S) /\ context \in S /\ Len(contexts) = n
        BY <1>3, <1>4, <2>1
    <2>3. /\ Append(contexts, context) \in Seq(S)
          /\ Len(Append(contexts, context)) = Len(contexts) + 1
          /\ \A i \in 1..Len(contexts) : Append(contexts, context)[i] = contexts[i]
          /\ Append(contexts, context)[Len(contexts) + 1] = context
        BY <2>2, AppendProperties
    <2> QED
        BY <1>2, <2>1, <2>2, <2>3
<1>6. /\ n >= 3 => "request_id" \in r.contexts[3] /\ "X-Request-Id" \in r.headers
      /\ n >= 5 => SecurityHeaderNames \subseteq r.headers
      /\ n >= 7 => "user" \in r.contexts[n] /\ "verified" \in r.verdicts
      /\ r.headers \subseteq HeaderNames /\ r.verdicts \subseteq {"verified", "granted"}
    BY <1>3, WithinIs DEF EnteredOK
<1>11. /\ n < handler
       /\ n = 2 => "request_id" \in context /\ "X-Request-Id" \in r.headers
       /\ n = 4 => SecurityHeaderNames \subseteq r.headers
       /\ n = 6 => "user" \in context /\ "verified" \in r.verdicts
       /\ n = 7 => "tenant" \in context /\ "granted" \in r.verdicts
    BY <1>3, <1>4
<1>12. n \in 1..7
    BY <1>4, <1>11
<1>7. /\ n + 1 >= 3 => "request_id" \in q.contexts[3]
      /\ n + 1 >= 7 => "user" \in q.contexts[n + 1]
      /\ n + 1 >= 8 => "tenant" \in q.contexts[n + 1]
    <2>1. CASE n = 2
        BY <1>4, <1>5, <2>1
    <2>2. CASE n >= 3
        <3>1. 3 \in 1..n
            BY <1>4, <2>2
        <3>2. "request_id" \in q.contexts[3]
            BY <1>5, <1>6, <2>2, <3>1
        <3>3. n >= 6 => "user" \in q.contexts[n + 1]
            <4>1. n >= 7 => "user" \in context
                BY <1>4, <1>6
            <4> QED
                BY <1>5, <1>11, <1>12, <4>1
        <3>4. n >= 7 => "tenant" \in q.contexts[n + 1]
            BY <1>5, <1>11, <1>12
        <3> QED
            BY <1>12, <3>2, <3>3, <3>4
    <2>3. CASE n = 1
        BY <2>3
    <2> QED
        BY <1>4, <2>1, <2>2, <2>3
<1>8. /\ n + 1 >= 3 => "X-Request-Id" \in q.headers
      /\ n + 1 >= 5 => SecurityHeaderNames \subseteq q.headers
      /\ n + 1 >= 7 => "verified" \in q.verdicts
      /\ n + 1 >= 8 => "granted" \in q.verdicts
      /\ q.headers \subseteq HeaderNames /\ q.verdicts \subseteq {"verified", "granted"}
    <2>1. /\ n >= 2 => "X-Request-Id" \in r.headers
          /\ n >= 4 => SecurityHeaderNames \subseteq r.headers
        BY <1>6, <1>11, <1>12
    <2>2. /\ n >= 6 => "verified" \in r.verdicts
          /\ n >= 7 => "granted" \in r.verdicts
        BY <1>6, <1>11, <1>12
    <2>3. /\ n + 1 >= 3 <=> n >= 2
          /\ n + 1 >= 5 <=> n >= 4
          /\ n + 1 >= 7 <=> n >= 6
          /\ n + 1 >= 8 <=> n >= 7
        BY <1>12
    <2> QED
        BY <1>2, <1>6, <2>1, <2>2, <2>3
<1>9. EnteredOK(q)
    BY <1>2, <1>3, <1>4, <1>5, <1>6, <1>7, <1>8 DEF EnteredOK
<1>10. InwardOK(q)
    BY <1>2, <1>4, <1>5, WithinIs DEF InwardOK
<1> QED
    BY <1>1, <1>2, <1>9, <1>10 DEF Within, RunOK, Ways

\* A layer may answer when the security headers are set; a result only in the
\* handler.
LEMMA RespondKeeps ==
    ASSUME NEW r, Within(r), r.depth >= 5,
           NEW code \in Codes \ {"UNAUTHENTICATED", "CONTEXT_MISSING"},
           code \in {"OK", "REFUSED"} => r.depth = HandlerAt(r.route)
    PROVE  RunOK(Respond(r, code))
<1>1. PICK q, answer, answers : /\ q = Respond(r, code) /\ answers = <<answer>>
                                /\ answer = [code |-> code, headers |-> r.headers]
    OBVIOUS
<1>2. EnteredOK(r) /\ InwardOK(r) /\ r.route \in Routes
    BY WithinIs
<1>3. q.answers = answers
    BY <1>1, <1>2 DEF Respond, Within, RunOK, InwardOK
<1>4. /\ DOMAIN q = DOMAIN r
      /\ q.route = r.route /\ q.way = "up" /\ q.depth = r.depth
      /\ q.contexts = r.contexts /\ q.headers = r.headers
      /\ q.verdicts = r.verdicts /\ q.log = r.log
    BY <1>1 DEF Respond, Within, RunOK
<1>5. EnteredOK(q)
    BY <1>2, <1>4 DEF EnteredOK
<1>6. answer \in Response /\ answer.code = code /\ answer.headers = r.headers
    BY <1>1, <1>2 DEF Response, EnteredOK
<1>7. Shown \subseteq r.headers /\ r.depth = Len(r.contexts)
    BY <1>2 DEF Shown, EnteredOK, InwardOK
<1>8. answers \in Seq(Response) /\ Len(answers) = 1 /\ answers[1] = answer
    BY <1>1, <1>6
<1>9. AnswerOK(q, answer)
    BY <1>4, <1>6, <1>7 DEF AnswerOK
<1>10. q.log = <<>> /\ q.log \in Seq(LogLine)
    BY <1>2, <1>4 DEF InwardOK
<1>11. OutwardOK(q)
    BY <1>3, <1>4, <1>7, <1>8, <1>9, <1>10 DEF OutwardOK
<1> QED
    BY <1>1, <1>2, <1>4, <1>5, <1>11 DEF Within, RunOK, Ways

LEMMA CallKeeps ==
    ASSUME NEW r, Within(r), r.depth >= 6, r.depth = HandlerAt(r.route) \/ r.depth = 7
    PROVE  RunOK(Call(r))
<1>1. PICK q : q = Call(r)
    OBVIOUS
<1>2. /\ DOMAIN q = DOMAIN r
      /\ q.route = r.route /\ q.way = "call" /\ q.depth = r.depth
      /\ q.contexts = r.contexts /\ q.headers = r.headers
      /\ q.answers = r.answers /\ q.verdicts = r.verdicts /\ q.log = r.log
    BY <1>1 DEF Call, Within, RunOK
<1>3. EnteredOK(q) /\ InwardOK(q)
    BY <1>2, WithinIs DEF EnteredOK, InwardOK
<1> QED
    BY <1>1, <1>2, <1>3 DEF Within, RunOK, Ways

LEMMA PanicKeeps ==
    ASSUME NEW r, RunOK(r), MayPanic(r)
    PROVE  RunOK(Panicking(r))
<1>1. PICK q : q = Panicking(r)
    OBVIOUS
<1>2. Within(r)
    BY DEF Within, MayPanic
<1>3. /\ DOMAIN q = DOMAIN r
      /\ q.route = r.route /\ q.way = "panic" /\ q.depth = r.depth
      /\ q.contexts = r.contexts /\ q.headers = r.headers
      /\ q.answers = r.answers /\ q.verdicts = r.verdicts /\ q.log = r.log
    BY <1>1, <1>2 DEF Panicking, Within, RunOK
<1>4. r.depth >= 6
    BY <1>2, WithinIs DEF MayPanic, LayerAt
<1>5. EnteredOK(q) /\ InwardOK(q)
    BY <1>2, <1>3, <1>4, WithinIs DEF EnteredOK, InwardOK
<1> QED
    BY <1>1, <1>2, <1>3, <1>5 DEF Within, RunOK, Ways

\* What a handler does before its service: the context it reads is there.
LEMMA HandleKeeps ==
    ASSUME NEW r, Within(r), r.depth = HandlerAt(r.route), NEW q \in Handle(r)
    PROVE  RunOK(q)
<1>1. /\ r.depth >= 6 /\ r.route # "unknown"
      /\ r.route \in UserRoutes \cup TenantRoutes => "user" \in Context(r)
      /\ r.route \in TenantRoutes => "tenant" \in Context(r)
    <2>1. /\ r.depth = Len(r.contexts) /\ r.depth \in 6..8
          /\ r.route \in TenantRoutes <=> r.depth = 8
          /\ r.route \in UserRoutes <=> r.depth = 7
        BY WithinIs, HandlerIs DEF InwardOK
    <2>2. PICK n : n = Len(r.contexts)
        OBVIOUS
    <2>3. /\ r.route = "unknown" => n <= 5
          /\ n >= 7 => "user" \in r.contexts[n]
          /\ n >= 8 => "tenant" \in r.contexts[n]
        BY <2>2, WithinIs DEF EnteredOK
    <2>4. /\ n \in 6..8 /\ Context(r) = r.contexts[n] /\ r.depth = n
          /\ r.route \in TenantRoutes => n = 8
          /\ r.route \in UserRoutes => n = 7
        BY <2>1, <2>2 DEF Context
    <2> QED
        BY <2>3, <2>4
<1>2. ASSUME NEW code \in {"OK", "BAD_REQUEST"} PROVE RunOK(Respond(r, code))
    <2>1. code \in Codes \ {"UNAUTHENTICATED", "CONTEXT_MISSING"}
        BY DEF Codes
    <2>2. r.depth >= 5
        BY <1>1, WithinIs
    <2> QED
        BY <2>1, <2>2, RespondKeeps
<1>3. RunOK(Call(r))
    BY <1>1, CallKeeps
<1>4. q \in {Respond(r, "OK"), Respond(r, "BAD_REQUEST"), Call(r)}
    BY <1>1, WithinIs
       DEF Handle, HandleMe, HandleCreateOrganization, HandleGetOrganization,
           HandleCreateProduct, HandleGetProduct, HandleReadyz, HandleHealthz,
           HandleCapabilities, DecodeJSON, FromContext, Routes, PublicRoutes,
           UserRoutes, TenantRoutes
<1> QED
    BY <1>2, <1>3, <1>4

\* A layer's refusal, which is no result.
LEMMA RefusalKeeps ==
    ASSUME NEW r, Within(r), r.depth >= 5,
           NEW code \in {"NOT_FOUND", "INVALID_ACCESS_TOKEN", "INVALID_TENANT",
                         "TENANT_ACCESS_DENIED", "SERVICE_UNAVAILABLE", "INTERNAL_ERROR"}
    PROVE  RunOK(Respond(r, code))
<1>1. code \in Codes \ {"UNAUTHENTICATED", "CONTEXT_MISSING"}
    BY DEF Codes
<1>2. code \notin {"OK", "REFUSED"}
    OBVIOUS
<1> QED
    BY <1>1, <1>2, RespondKeeps

\* The verification of an access token goes on, or answers.
LEMMA RequireAuthKeeps ==
    ASSUME NEW r, Within(r), r.depth = 6, HandlerAt(r.route) > 6, NEW q \in RequireAuth(r)
    PROVE  RunOK(q)
<1>1. r.route # "unknown" /\ r.depth >= 5
    BY WithinIs DEF HandlerAt, TenantRoutes, UserRoutes
<1>2. CASE q = ServeNext(Passed(r, "verified"), {"user"})
    <2>1. PICK p, added : p = Passed(r, "verified") /\ added = {"user"}
        OBVIOUS
    <2>2. /\ Within(p) /\ p.route = r.route /\ p.depth = 6 /\ "verified" \in p.verdicts
        BY <2>1, PassedKeeps
    <2>3. added \in SUBSET ContextKeys /\ "user" \in added
        BY <2>1 DEF ContextKeys
    <2>4. p.depth < HandlerAt(p.route) /\ p.route # "unknown"
        BY <1>1, <2>2, WithinIs
    <2>5. RunOK(ServeNext(p, added))
        BY <2>2, <2>3, <2>4, ServeNextKeeps
    <2> QED
        BY <1>2, <2>1, <2>5
<1>3. CASE q = AccessTokenError(r)
    <2>1. PICK p, names : p = Set(r, names) /\ names = {"WWW-Authenticate"}
        OBVIOUS
    <2>2. names \in SUBSET HeaderNames
        BY <2>1 DEF HeaderNames
    <2>3. Within(p) /\ p.depth = 6
        BY <2>1, <2>2, SetKeeps
    <2>4. RunOK(Respond(p, "INVALID_ACCESS_TOKEN"))
        BY <2>3, RefusalKeeps
    <2> QED
        BY <1>3, <2>1, <2>4 DEF AccessTokenError
<1>4. CASE q = Respond(r, "INTERNAL_ERROR")
    BY <1>1, <1>4, RefusalKeeps
<1> QED
    BY <1>2, <1>3, <1>4 DEF RequireAuth

\* What a layer does on the way in.
LEMMA InwardKeeps ==
    ASSUME NEW r, RunOK(r), r.way = "down", NEW q \in Inward(r)
    PROVE  RunOK(q)
<1>1. Within(r)
    BY DEF Within
<1>2. PICK d, n : d = r.depth /\ n = HandlerAt(r.route)
    OBVIOUS
<1>3. /\ d \in 1..n /\ n \in 6..8 /\ Layer(r) = LayerAt(r.route, d)
      /\ r.route = "unknown" => d <= 5
    BY <1>1, <1>2, WithinIs DEF EnteredOK, InwardOK
<1>4. CASE d \in {1, 3}
    <2>1. q = ServeNext(r, {})
        <3>1. Layer(r) \in {"recover", "accessLog"}
            BY <1>2, <1>3, <1>4 DEF LayerAt
        <3> QED
            BY <3>1 DEF Inward
    <2>2. PICK added : added = {}
        OBVIOUS
    <2>3. added \in SUBSET ContextKeys /\ r.depth < HandlerAt(r.route)
          /\ r.depth \notin {2, 4, 6, 7} /\ r.depth <= 4
        BY <1>2, <1>3, <1>4, <2>2
    <2>4. RunOK(ServeNext(r, added))
        BY <1>1, <2>3, ServeNextKeeps
    <2> QED
        BY <2>1, <2>2, <2>4
<1>5. CASE d = 2
    <2>1. q = ServeNext(Set(r, {"X-Request-Id"}), {"request_id"})
        <3>1. Layer(r) = "requestID"
            BY <1>2, <1>3, <1>5 DEF LayerAt
        <3> QED
            BY <3>1 DEF Inward, RequestID
    <2>2. PICK p, names, added : /\ p = Set(r, names) /\ names = {"X-Request-Id"}
                                /\ added = {"request_id"}
        OBVIOUS
    <2>3. names \in SUBSET HeaderNames /\ added \in SUBSET ContextKeys /\ "request_id" \in added
        BY <2>2 DEF HeaderNames, ContextKeys
    <2>4. Within(p) /\ p.depth = 2 /\ p.route = r.route /\ "X-Request-Id" \in p.headers
        <3>1. /\ Within(p) /\ p.depth = r.depth /\ p.route = r.route
              /\ names \subseteq p.headers
            BY <1>1, <2>2, <2>3, SetKeeps
        <3> QED
            BY <1>2, <1>5, <2>2, <3>1
    <2>5. p.depth < HandlerAt(p.route) /\ p.depth \notin {4, 6, 7} /\ p.depth <= 4
        BY <1>2, <1>3, <2>4
    <2>6. RunOK(ServeNext(p, added))
        BY <2>3, <2>4, <2>5, ServeNextKeeps
    <2> QED
        BY <2>1, <2>2, <2>6
<1>6. CASE d = 4
    <2>1. q = ServeNext(Set(r, SecurityHeaderNames), {})
        <3>1. Layer(r) = "securityHeaders"
            BY <1>2, <1>3, <1>6 DEF LayerAt
        <3> QED
            BY <3>1 DEF Inward, SecurityHeaders
    <2>2. PICK p, names, added : /\ p = Set(r, names) /\ names = SecurityHeaderNames
                                /\ added = {}
        OBVIOUS
    <2>3. names \in SUBSET HeaderNames /\ added \in SUBSET ContextKeys
        BY <2>2 DEF HeaderNames
    <2>4. Within(p) /\ p.depth = 4 /\ p.route = r.route /\ SecurityHeaderNames \subseteq p.headers
        <3>1. /\ Within(p) /\ p.depth = r.depth /\ p.route = r.route
              /\ names \subseteq p.headers
            BY <1>1, <2>2, <2>3, SetKeeps
        <3> QED
            BY <1>2, <1>6, <2>2, <3>1
    <2>5. p.depth < HandlerAt(p.route) /\ p.depth \notin {2, 6, 7} /\ p.depth <= 4
        BY <1>2, <1>3, <2>4
    <2>6. RunOK(ServeNext(p, added))
        BY <2>3, <2>4, <2>5, ServeNextKeeps
    <2> QED
        BY <2>1, <2>2, <2>6
<1>7. CASE d = 5
    <2>1. q = IF r.route = "unknown" THEN Respond(r, "NOT_FOUND") ELSE ServeNext(r, {})
        <3>1. Layer(r) = "mux"
            BY <1>2, <1>3, <1>7 DEF LayerAt
        <3> QED
            BY <3>1 DEF Inward, Mux
    <2>2. CASE r.route = "unknown"
        <3>1. r.depth >= 5
            BY <1>2, <1>7
        <3>2. RunOK(Respond(r, "NOT_FOUND"))
            BY <1>1, <3>1, RefusalKeeps
        <3> QED
            BY <2>1, <2>2, <3>2
    <2>3. CASE r.route # "unknown"
        <3>1. PICK added : added = {}
            OBVIOUS
        <3>2. added \in SUBSET ContextKeys /\ r.depth < HandlerAt(r.route)
              /\ r.depth \notin {2, 4, 6, 7}
            BY <1>2, <1>3, <1>7, <3>1
        <3>3. RunOK(ServeNext(r, added))
            BY <1>1, <2>3, <3>2, ServeNextKeeps
        <3> QED
            BY <2>1, <2>3, <3>1, <3>3
    <2> QED
        BY <2>2, <2>3
<1>8. CASE d = n
    <2>1. Layer(r) = "handler"
        BY <1>2, <1>3, <1>8 DEF LayerAt
    <2>2. q \in Handle(r)
        BY <2>1 DEF Inward
    <2> QED
        BY <1>1, <1>2, <1>8, <2>2, HandleKeeps
<1>9. CASE d = 6 /\ d < n
    <2>1. Layer(r) = "requireAuth"
        BY <1>2, <1>3, <1>9 DEF LayerAt
    <2>2. q \in RequireAuth(r) /\ r.depth = 6 /\ HandlerAt(r.route) > 6
        BY <1>2, <1>3, <1>9, <2>1 DEF Inward
    <2> QED
        BY <1>1, <2>2, RequireAuthKeeps
<1>10. CASE d = 7 /\ d < n
    <2>1. Layer(r) = "requireTenant"
        BY <1>2, <1>3, <1>10 DEF LayerAt
    <2>2. "user" \in Context(r)
        <3>1. PICK k : k = Len(r.contexts)
            OBVIOUS
        <3>2. k = r.depth /\ (k >= 7 => "user" \in r.contexts[k])
            BY <1>1, <3>1, WithinIs DEF EnteredOK, InwardOK
        <3>3. k = 7
            BY <1>2, <1>10, <3>2
        <3> QED
            BY <3>2, <3>3 DEF Context
    <2>3. q = Respond(r, "INVALID_TENANT") \/ q = Call(r)
        BY <2>1, <2>2 DEF Inward, RequireTenant
    <2>4. r.depth >= 6 /\ r.depth = 7 /\ r.depth >= 5
        BY <1>2, <1>10
    <2> QED
        BY <1>1, <2>3, <2>4, RefusalKeeps, CallKeeps
<1> QED
    BY <1>3, <1>4, <1>5, <1>6, <1>7, <1>8, <1>9, <1>10

\* Where a request waits for a service, and at which layer.
LEMMA CallIs ==
    ASSUME NEW r, RunOK(r), r.way = "call"
    PROVE  /\ Within(r) /\ r.depth \in 6..8
           /\ \/ r.depth = HandlerAt(r.route) /\ Layer(r) = "handler"
              \/ /\ r.depth = 7 /\ HandlerAt(r.route) = 8 /\ Layer(r) = "requireTenant"
                 /\ r.route # "readyz"
<1>1. Within(r)
    BY DEF Within
<1>2. PICK d, n : d = r.depth /\ n = HandlerAt(r.route)
    OBVIOUS
<1>3. d \in 1..n /\ n \in 6..8 /\ (d = n \/ d = 7) /\ Layer(r) = LayerAt(r.route, d)
    BY <1>1, <1>2, WithinIs DEF InwardOK
<1>4. d = n => Layer(r) = "handler"
    BY <1>2, <1>3 DEF LayerAt
<1>5. d = 7 /\ n = 8 => Layer(r) = "requireTenant"
    BY <1>2, <1>3 DEF LayerAt
<1>6. n = 8 => r.route # "readyz"
    BY <1>2 DEF HandlerAt, TenantRoutes, UserRoutes
<1> QED
    BY <1>1, <1>2, <1>3, <1>4, <1>5, <1>6

\* What a service may come to, as an answer of the handler.
LEMMA ResultKeeps ==
    ASSUME NEW r, Within(r), r.depth = HandlerAt(r.route),
           NEW code \in {"OK", "REFUSED", "INTERNAL_ERROR", "SERVICE_UNAVAILABLE"}
    PROVE  RunOK(Respond(r, code))
<1>1. code \in Codes \ {"UNAUTHENTICATED", "CONTEXT_MISSING"}
    BY DEF Codes
<1>2. r.depth >= 5
    BY WithinIs
<1> QED
    BY <1>1, <1>2, RespondKeeps

\* What a service answers to the tenant check, or to the handler.
LEMMA AnsweredKeeps ==
    ASSUME NEW r, RunOK(r), r.way = "call", NEW q \in Answered(r)
    PROVE  RunOK(q)
<1>1. Within(r) /\ r.depth >= 5
    BY CallIs
<1>2. CASE Layer(r) = "requireTenant"
    <2>1. r.depth = 7 /\ HandlerAt(r.route) = 8
        BY <1>2, CallIs
    <2>2. CASE q = ServeNext(Passed(r, "granted"), {"tenant"})
        <3>1. PICK p, added : p = Passed(r, "granted") /\ added = {"tenant"}
            OBVIOUS
        <3>2. /\ Within(p) /\ p.route = r.route /\ p.depth = 7 /\ "granted" \in p.verdicts
            BY <1>1, <2>1, <3>1, PassedKeeps
        <3>3. added \in SUBSET ContextKeys /\ "tenant" \in added
            BY <3>1 DEF ContextKeys
        <3>4. p.depth < HandlerAt(p.route) /\ p.route # "unknown"
            BY <2>1, <3>2 DEF HandlerAt, TenantRoutes, UserRoutes
        <3>5. RunOK(ServeNext(p, added))
            BY <3>2, <3>3, <3>4, ServeNextKeeps
        <3> QED
            BY <2>2, <3>1, <3>5
    <2>3. CASE q \in {Respond(r, "TENANT_ACCESS_DENIED"), Respond(r, "INVALID_TENANT"),
                      Respond(r, "INTERNAL_ERROR")}
        BY <1>1, <2>3, RefusalKeeps
    <2>4. q \in {ServeNext(Passed(r, "granted"), {"tenant"}),
                 Respond(r, "TENANT_ACCESS_DENIED"), Respond(r, "INVALID_TENANT"),
                 Respond(r, "INTERNAL_ERROR")}
        BY <1>2, CallIs DEF Answered
    <2> QED
        BY <2>2, <2>3, <2>4
<1>3. CASE Layer(r) # "requireTenant"
    <2>1. r.depth = HandlerAt(r.route)
        BY <1>3, CallIs
    <2>2. q \in {Respond(r, "OK"), Respond(r, "REFUSED"), Respond(r, "INTERNAL_ERROR"),
                 Respond(r, "SERVICE_UNAVAILABLE")}
        BY <1>3 DEF Answered, Concluded
    <2> QED
        BY <1>1, <2>1, <2>2, ResultKeeps
<1> QED
    BY <1>2, <1>3

\* What is made of a service that got no connection.
LEMMA UnconnectedKeeps ==
    ASSUME NEW r, RunOK(r), r.way = "call", NEW q \in Unconnected(r)
    PROVE  RunOK(q)
<1>1. Within(r) /\ r.depth >= 5
    BY CallIs
<1>2. CASE Layer(r) = "requireTenant"
    <2>1. q \in {Respond(r, "INVALID_TENANT"), Respond(r, "INTERNAL_ERROR")}
        BY <1>2, CallIs DEF Unconnected
    <2> QED
        BY <1>1, <2>1, RefusalKeeps
<1>3. CASE Layer(r) # "requireTenant"
    <2>1. r.depth = HandlerAt(r.route)
        BY <1>3, CallIs
    <2>2. q \in {Respond(r, "SERVICE_UNAVAILABLE"), Respond(r, "REFUSED"),
                 Respond(r, "INTERNAL_ERROR")}
        BY <1>3 DEF Unconnected
    <2> QED
        BY <1>1, <2>1, <2>2, ResultKeeps
<1> QED
    BY <1>2, <1>3

\* The way out of a request that was answered, past the access log, which is at
\* a layer within that of the request's id.
LEMMA ReturnKeeps ==
    ASSUME NEW r, RunOK(r), r.way = "up", r.depth > 0, NEW q \in ReturnTo(r)
    PROVE  RunOK(q)
<1>1. r.route \in Routes /\ EnteredOK(r) /\ OutwardOK(r)
    BY DEF RunOK
<1>2. PICK d, n, handler : d = r.depth /\ n = Len(r.contexts) /\ handler = HandlerAt(r.route)
    OBVIOUS
<1>3. handler \in 6..8 /\ n \in 1..handler /\ d \in 0..handler /\ (d = n \/ d \in {1, 3})
    BY <1>1, <1>2, HandlerIs DEF EnteredOK, OutwardOK
<1>4. Around(r, "accessLog") = IF d > 3 THEN {3} ELSE {}
    BY <1>1, <1>2, <1>3, AccessLogAround
<1>5. CASE d > 3
    <2>1. PICK p, line, log :
              /\ p = [r EXCEPT !.depth = 3]
              /\ line = [line |-> "completed", id |-> "request_id" \in Context(p)]
              /\ log = <<line>>
        OBVIOUS
    <2>2. /\ DOMAIN p = DOMAIN r
          /\ p.route = r.route /\ p.way = "up" /\ p.depth = 3
          /\ p.contexts = r.contexts /\ p.headers = r.headers
          /\ p.answers = r.answers /\ p.verdicts = r.verdicts /\ p.log = r.log
        BY <2>1 DEF RunOK
    <2>3. q = Logged(p, "completed")
        BY <1>4, <1>5, <2>1 DEF ReturnTo
    <2>4. "request_id" \in Context(p)
        <3>1. n >= 3 /\ (n >= 3 => "request_id" \in r.contexts[3])
            BY <1>1, <1>2, <1>3, <1>5 DEF EnteredOK
        <3> QED
            BY <2>2, <3>1 DEF Context
    <2>5. r.log = <<>>
        BY <1>1, <1>2, <1>3, <1>5 DEF OutwardOK
    <2>6. q = [p EXCEPT !.log = log]
        <3>1. p.log = <<>>
            BY <2>2, <2>5
        <3>2. q = [p EXCEPT !.log = Append(p.log, line)]
            BY <2>1, <2>3 DEF Logged
        <3> QED
            BY <2>1, <3>1, <3>2
    <2>7. /\ DOMAIN q = DOMAIN r
          /\ q.route = r.route /\ q.way = "up" /\ q.depth = 3
          /\ q.contexts = r.contexts /\ q.headers = r.headers
          /\ q.answers = r.answers /\ q.verdicts = r.verdicts /\ q.log = log
        BY <2>2, <2>6 DEF RunOK
    <2>8. line \in LogLine /\ line.line = "completed" /\ line.id
        BY <2>1, <2>4 DEF LogLine
    <2>9. log \in Seq(LogLine) /\ Len(log) = 1 /\ log[1] = line
        BY <2>1, <2>8
    <2>10. EnteredOK(q)
        BY <1>1, <2>7 DEF EnteredOK
    <2>11. OutwardOK(q)
        BY <1>1, <2>7, <2>8, <2>9 DEF OutwardOK, AnswerOK
    <2> QED
        BY <1>1, <2>7, <2>10, <2>11 DEF RunOK, Ways
<1>6. CASE d <= 3
    <2>1. q = [r EXCEPT !.depth = 0]
        BY <1>3, <1>4, <1>6 DEF ReturnTo
    <2>2. /\ DOMAIN q = DOMAIN r
          /\ q.route = r.route /\ q.way = "up" /\ q.depth = 0
          /\ q.contexts = r.contexts /\ q.headers = r.headers
          /\ q.answers = r.answers /\ q.verdicts = r.verdicts /\ q.log = r.log
        BY <2>1 DEF RunOK
    <2>3. EnteredOK(q)
        BY <1>1, <2>2 DEF EnteredOK
    <2>4. OutwardOK(q)
        BY <1>1, <1>2, <1>3, <1>6, <2>2 DEF OutwardOK, AnswerOK
    <2> QED
        BY <1>1, <2>2, <2>3, <2>4 DEF RunOK, Ways
<1> QED
    BY <1>3, <1>5, <1>6

\* What Recover makes of a panic: one line, and one answer.
LEMMA RecoverKeeps ==
    ASSUME NEW r, RunOK(r), r.way = "panic", NEW q \in Recover(r)
    PROVE  RunOK(q)
<1>1. r.route \in Routes /\ EnteredOK(r) /\ InwardOK(r)
    BY DEF RunOK
<1>2. PICK d, n, handler : d = r.depth /\ n = Len(r.contexts) /\ handler = HandlerAt(r.route)
    OBVIOUS
<1>3. handler \in 6..8 /\ n \in 1..handler /\ d = n /\ d >= 6
    BY <1>1, <1>2, HandlerIs DEF EnteredOK, InwardOK
<1>4. Around(r, "recover") = {1}
    <2>1. r.depth > 1 /\ r.depth \in 0..HandlerAt(r.route)
        BY <1>2, <1>3
    <2> QED
        BY <1>1, <2>1, AccessLogAround
<1>5. PICK p, line, log, l :
          /\ p = [r EXCEPT !.depth = 1]
          /\ line = [line |-> "panic", id |-> "request_id" \in Context(p)]
          /\ log = <<line>>
          /\ l = Logged(p, "panic")
    OBVIOUS
<1>6. /\ DOMAIN p = DOMAIN r
      /\ p.route = r.route /\ p.way = "panic" /\ p.depth = 1
      /\ p.contexts = r.contexts /\ p.headers = r.headers
      /\ p.answers = <<>> /\ p.verdicts = r.verdicts /\ p.log = <<>>
    BY <1>1, <1>5 DEF RunOK, InwardOK
<1>7. q = Respond(l, "INTERNAL_ERROR")
    BY <1>4, <1>5 DEF Recover
<1>8. l = [p EXCEPT !.log = log]
    <2>1. l = [p EXCEPT !.log = Append(p.log, line)]
        BY <1>5 DEF Logged
    <2>2. p.log = <<>> /\ log = <<line>>
        BY <1>5, <1>6
    <2> QED
        BY <2>1, <2>2
<1>9. /\ DOMAIN l = DOMAIN r
      /\ l.route = r.route /\ l.way = "panic" /\ l.depth = 1
      /\ l.contexts = r.contexts /\ l.headers = r.headers
      /\ l.answers = <<>> /\ l.verdicts = r.verdicts /\ l.log = log
    BY <1>6, <1>8 DEF RunOK
<1>10. PICK answer, answers : /\ answer = [code |-> "INTERNAL_ERROR", headers |-> l.headers]
                              /\ answers = <<answer>>
    OBVIOUS
<1>11. q = [l EXCEPT !.way = "up", !.answers = answers]
    <2>1. q = [l EXCEPT !.way = "up", !.answers = Append(l.answers, answer)]
        BY <1>7, <1>10 DEF Respond
    <2> QED
        BY <1>9, <1>10, <2>1
<1>12. /\ DOMAIN q = DOMAIN r
       /\ q.route = r.route /\ q.way = "up" /\ q.depth = 1
       /\ q.contexts = r.contexts /\ q.headers = r.headers
       /\ q.answers = answers /\ q.verdicts = r.verdicts /\ q.log = log
    BY <1>9, <1>11 DEF RunOK
<1>13. line \in LogLine /\ line.line # "completed"
    BY <1>5 DEF LogLine
<1>14. log \in Seq(LogLine) /\ Len(log) = 1 /\ log[1] = line
    BY <1>5, <1>13
<1>15. /\ answer \in Response /\ answer.code = "INTERNAL_ERROR"
       /\ answer.headers = r.headers
    BY <1>1, <1>9, <1>10 DEF Response, Codes, EnteredOK
<1>16. answers \in Seq(Response) /\ Len(answers) = 1 /\ answers[1] = answer
    BY <1>10, <1>15
<1>17. Shown \subseteq r.headers
    BY <1>1, <1>2, <1>3 DEF Shown, EnteredOK
<1>18. AnswerOK(q, answer)
    BY <1>15, <1>17 DEF AnswerOK
<1>19. EnteredOK(q)
    BY <1>1, <1>12 DEF EnteredOK
<1>20. OutwardOK(q)
    BY <1>12, <1>13, <1>14, <1>16, <1>18 DEF OutwardOK
<1> QED
    BY <1>1, <1>12, <1>19, <1>20 DEF RunOK, Ways

-----------------------------------------------------------------------------
(* The invariant of requests.                                              *)

LEMMA RequestInit == Init => RequestInv
<1> SUFFICES ASSUME Init PROVE RequestInv
    OBVIOUS
<1>1. ProcessOK
    BY DEF Init, NotExited, ProcessOK
<1>2. \A c \in Clients : RunOK(run[c])
    <2>1. \A c \in Clients : run[c] = Quiet("closed")
        BY DEF Init
    <2> QED
        BY <2>1, QuietKeeps
<1> QED
    BY <1>1, <1>2, LifeInit DEF RequestInv

\* The process ends, or main goes on: connections are as they were, or closed.
LEMMA RunsClosedOrSame ==
    ASSUME LifeInv, Main \/ DrainTimeout \/ Listen \/ AcceptFails \/ ServeFails \/ Signal
    PROVE  \A c \in Clients : run'[c] \in {run[c], Quiet("closed")}
<1>1. ASSUME NEW code, Exit(code)
      PROVE  \A c \in Clients : run'[c] \in {run[c], Quiet("closed")}
    BY <1>1 DEF Exit
<1>2. CASE UNCHANGED run
    BY <1>2
<1>3. CASE Drain
    BY <1>3 DEF Drain
<1>4. CASE Main
    BY <1>1, <1>2, <1>3, <1>4
       DEF Main, OpenDatabase, NewServer, SpawnServing, NotifySignals, ReceiveSignal,
           BeginShutdown, ClosePool, PoolClosed, Goto
<1>5. CASE DrainTimeout \/ Listen \/ AcceptFails \/ ServeFails \/ Signal
    BY <1>1, <1>2, <1>5 DEF DrainTimeout, Listen, AcceptFails, ServeFails, Signal
<1> QED
    BY <1>4, <1>5

\* What one client's connection becomes.
LEMMA ClientBecomes ==
    ASSUME LifeInv, NEW c \in Clients, RunOK(run[c]), Client(c)
    PROVE  \E r : RunOK(r) /\ Become(c, r)
<1> DEFINE Fine == \E r : RunOK(r) /\ Become(c, r)
<1>1. c \in held => run[c].way = "call"
    BY DEF LifeInv, HeldOK, PoolBalanced
<1>2. CASE Connect(c) \/ Disconnect(c) \/ End(c)
    BY <1>2, QuietKeeps DEF Connect, Disconnect, End
<1>3. CASE \E route \in Visited : Request(c, route)
    <2>1. PICK route \in Visited : Request(c, route)
        BY <1>3
    <2>2. route \in Routes
        BY ServerAssumption DEF ServerAssumption
    <2> QED
        BY <2>1, <2>2, EnterKeeps DEF Request
<1>4. CASE GoIn(c)
    BY <1>4, InwardKeeps DEF GoIn
<1>5. CASE GoOut(c)
    <2>1. PICK r \in Outward(run[c]) : Become(c, r)
        BY <1>5 DEF GoOut
    <2>2. CASE run[c].way = "up"
        <3>1. r \in ReturnTo(run[c]) /\ run[c].depth > 0
            BY <1>5, <2>1, <2>2 DEF GoOut, Outward
        <3> QED
            BY <2>1, <2>2, <3>1, ReturnKeeps
    <2>3. CASE run[c].way = "panic"
        <3>1. r \in Recover(run[c])
            BY <2>1, <2>3 DEF Outward
        <3> QED
            BY <2>1, <2>3, <3>1, RecoverKeeps
    <2> QED
        BY <1>5, <2>2, <2>3 DEF GoOut
<1>6. CASE PingTimeout(c)
    BY <1>6, UnconnectedKeeps DEF PingTimeout
<1>7. CASE Acquire(c) \/ Release(c)
    BY <1>7 DEF Acquire, Release
<1>8. CASE ServiceReturns(c)
    BY <1>1, <1>8, AnsweredKeeps DEF ServiceReturns
<1>9. CASE GivesUp(c)
    BY <1>9, UnconnectedKeeps DEF GivesUp
<1>10. CASE Panics(c)
    BY <1>10, PanicKeeps DEF Panics
<1> QED
    BY <1>2, <1>3, <1>4, <1>5, <1>6, <1>7, <1>8, <1>9, <1>10 DEF Client, Local

LEMMA ProcessStep ==
    ASSUME ProcessOK, [Next]_vars
    PROVE  ProcessOK'
<1> USE DEF ProcessOK
<1>1. ASSUME NEW code \in {"0", "1", "signal"}, Exit(code)
      PROVE  ProcessOK'
    <2>1. exit' \in [code : {"none", "0", "1", "signal"}, unfinished : SUBSET Clients]
        BY <1>1 DEF Exit
    <2> QED
        BY <1>1, <2>1 DEF Exit
<1>2. CASE Main
    BY <1>1, <1>2
       DEF Main, OpenDatabase, NewServer, SpawnServing, NotifySignals, ReceiveSignal,
           BeginShutdown, Drain, ClosePool, PoolClosed, Goto
<1>3. CASE DrainTimeout \/ Listen \/ AcceptFails \/ ServeFails \/ Signal
    BY <1>1, <1>3 DEF DrainTimeout, Listen, AcceptFails, ServeFails, Signal
<1>4. CASE \E c \in Clients : Client(c)
    BY <1>4 DEF Client, Local, Connect, Disconnect, Request, GoIn, GoOut, End, PingTimeout,
                Acquire, Release, ServiceReturns, GivesUp, Panics, Become
<1>5. CASE UNCHANGED vars
    BY <1>5 DEF vars
<1> QED
    BY <1>2, <1>3, <1>4, <1>5 DEF Next

LEMMA RequestStep == RequestInv /\ [Next]_vars => RequestInv'
<1> SUFFICES ASSUME RequestInv, [Next]_vars PROVE RequestInv'
    OBVIOUS
<1>1. LifeInv' /\ ProcessOK'
    BY LifeStep, ProcessStep DEF RequestInv
<1>2. \A c \in Clients : RunOK(run'[c])
    <2>1. CASE Main \/ DrainTimeout \/ Listen \/ AcceptFails \/ ServeFails \/ Signal
        BY <2>1, RunsClosedOrSame, QuietKeeps DEF RequestInv
    <2>2. ASSUME NEW d \in Clients, Client(d) PROVE \A c \in Clients : RunOK(run'[c])
        <3>1. PICK r : RunOK(r) /\ Become(d, r)
            BY <2>2, ClientBecomes DEF RequestInv
        <3>2. \A c \in Clients : run'[c] = IF c = d THEN r ELSE run[c]
            BY <3>1 DEF Become, RequestInv, LifeInv, RunsOK
        <3> QED
            BY <3>1, <3>2 DEF RequestInv
    <2>3. CASE UNCHANGED vars
        BY <2>3 DEF vars, RequestInv
    <2> QED
        BY <2>1, <2>2, <2>3 DEF Next
<1> QED
    BY <1>1, <1>2 DEF RequestInv

\* What is known of each request by the layers it has entered holds whatever
\* clients send, services answer and handlers panic over (chain.go, server.go:67-73).
THEOREM RequestInvariance == Spec => []RequestInv
<1>1. Init => RequestInv
    BY RequestInit
<1>2. RequestInv /\ [Next]_vars => RequestInv'
    BY RequestStep
<1> QED
    BY <1>1, <1>2, PTL DEF Spec

\* What is known of a request is more than its type.
LEMMA RunTyped ==
    ASSUME NEW r, RunOK(r)
    PROVE  IsRun(r)
<1>0. \A S : <<>> \in Seq(S)
    OBVIOUS
<1>1. CASE r.way \in {"closed", "idle"}
    <2> PICK way \in {"closed", "idle"} : r = Quiet(way)
        BY <1>1 DEF RunOK
    <2>1. /\ r.route = "none" /\ r.way = way /\ r.depth = 0 /\ r.contexts = <<>>
          /\ r.headers = {} /\ r.answers = <<>> /\ r.verdicts = {} /\ r.log = <<>>
        BY DEF Quiet
    <2>2. 0 \in 0..0
        OBVIOUS
    <2> QED
        BY <1>0, <2>1, <2>2 DEF RunOK, IsRun, Ways
<1>2. CASE r.way \notin {"closed", "idle"}
    <2>1. r.route \in Routes /\ r.route # "none" /\ EnteredOK(r)
        BY <1>2 DEF RunOK, Routes, PublicRoutes, UserRoutes, TenantRoutes
    <2>2. HandlerAt(r.route) \in 6..8 /\ Len(Stacks[r.route]) = HandlerAt(r.route)
        BY <2>1, HandlerIs, Layers
    <2>3. r.way = "up" => OutwardOK(r)
        BY <1>2 DEF RunOK
    <2>4. r.way # "up" => InwardOK(r)
        BY <1>2 DEF RunOK
    <2>5. r.answers \in Seq(Response) /\ r.log \in Seq(LogLine)
        <3>1. CASE r.way = "up"
            BY <2>3, <3>1 DEF OutwardOK
        <3>2. CASE r.way # "up"
            <4>1. r.answers = <<>> /\ r.log = <<>>
                BY <2>4, <3>2 DEF InwardOK
            <4> QED
                BY ONLY <1>0, <4>1
        <3> QED
            BY <3>1, <3>2
    <2>6. r.depth \in 0..HandlerAt(r.route)
        BY <2>1, <2>2, <2>3, <2>4 DEF OutwardOK, InwardOK, EnteredOK
    <2>7. r.depth \in 0..(IF r.route = "none" THEN 0 ELSE Len(Stacks[r.route]))
        BY <2>1, <2>2, <2>6
    <2> QED
        BY <2>1, <2>5, <2>7 DEF RunOK, EnteredOK, IsRun
<1> QED
    BY <1>1, <1>2

\* What the ends of requests, and their answers, have in common.
LEMMA AnswersAre ==
    ASSUME NEW r, RunOK(r)
    PROVE  /\ Ended(r) => r.way = "up" /\ Len(r.answers) = 1
           /\ r.way = "up" => OutwardOK(r) /\ EnteredOK(r) /\ r.route \in Routes
           /\ \A i \in DOMAIN r.answers : r.way = "up" /\ i = 1
<1>1. r.way = "panic" => r.depth >= 6
    BY DEF RunOK, InwardOK
<1>2. Ended(r) => r.way = "up"
    BY <1>1 DEF Ended
<1>3. r.way = "up" => OutwardOK(r) /\ EnteredOK(r) /\ r.route \in Routes
    BY DEF RunOK
<1>4. r.way = "up" => r.answers \in Seq(Response) /\ Len(r.answers) = 1
    BY <1>3 DEF OutwardOK
<1>5. r.way # "up" => r.answers = <<>>
    BY DEF RunOK, InwardOK, Quiet
<1>6. ASSUME NEW i \in DOMAIN r.answers PROVE r.way = "up" /\ i = 1
    BY <1>4, <1>5
<1> QED
    BY <1>2, <1>3, <1>4, <1>6

\* No field of a run and nothing of the process leaves its set (main.go, server.go).
THEOREM ServerTyped == Spec => []TypeOK
<1>1. RequestInv => TypeOK
    BY RunTyped DEF RequestInv, ProcessOK, LifeInv, PhasesOK, RunsOK, HeldOK, TypeOK
<1> QED
    BY <1>1, RequestInvariance, PTL

\* Every request that has run to its end was answered once, with its id and the
\* security headers, also if it panicked (recover.go:10-26).
THEOREM OneAnswer == Spec => []AnsweredOnce
<1>1. RequestInv => AnsweredOnce
    <2> SUFFICES ASSUME RequestInv, NEW c \in Clients, Ended(run[c])
                 PROVE  /\ run[c].way = "up" /\ Len(run[c].answers) = 1
                        /\ Shown \subseteq run[c].answers[1].headers
        BY DEF AnsweredOnce, Shown
    <2>1. run[c].way = "up" /\ Len(run[c].answers) = 1 /\ OutwardOK(run[c])
        BY AnswersAre DEF RequestInv
    <2> QED
        BY <2>1 DEF OutwardOK, AnswerOK
<1> QED
    BY <1>1, RequestInvariance, PTL

\* Every request leaves one line in the log, of AccessLog or of Recover, and that
\* of AccessLog carries its id (access_log.go:11-36, recover.go:15-21).
THEOREM OneLogLine == Spec => []LoggedOnce
<1>1. RequestInv => LoggedOnce
    <2> SUFFICES ASSUME RequestInv, NEW c \in Clients, Ended(run[c])
                 PROVE  /\ Len(run[c].log) = 1
                        /\ run[c].log[1].line = "completed" => run[c].log[1].id
        BY DEF LoggedOnce
    <2>1. OutwardOK(run[c]) /\ run[c].depth = 0
        BY AnswersAre DEF RequestInv, Ended
    <2> QED
        BY <2>1 DEF OutwardOK
<1> QED
    BY <1>1, RequestInvariance, PTL

\* No handler of a protected route is entered, or answers with a result, without
\* the verdicts its route needs (auth/middleware.go:15-45, tenancy/middleware.go:20-60).
THEOREM RefusalsHold == Spec => []NothingPastRefusal
<1>1. ASSUME NEW r, r.route \in Routes, EnteredOK(r), Len(r.contexts) = HandlerAt(r.route)
      PROVE  /\ r.route \in UserRoutes \cup TenantRoutes => "verified" \in r.verdicts
             /\ r.route \in TenantRoutes => "granted" \in r.verdicts
    <2>1. PICK n : n = Len(r.contexts)
        OBVIOUS
    <2>2. /\ n >= 7 => "verified" \in r.verdicts
          /\ n >= 8 => "granted" \in r.verdicts
        BY <1>1, <2>1 DEF EnteredOK
    <2>3. /\ r.route \in UserRoutes => n = 7
          /\ r.route \in TenantRoutes => n = 8
        BY <1>1, <2>1, HandlerIs
    <2> QED
        BY <2>2, <2>3
<1>2. RequestInv => NothingPastRefusal
    <2> SUFFICES ASSUME RequestInv, NEW c \in Clients,
                        \/ run[c].way = "call" /\ Layer(run[c]) = "handler"
                        \/ \E i \in DOMAIN run[c].answers :
                               run[c].answers[i].code \in {"OK", "REFUSED"}
                 PROVE  /\ run[c].route \in UserRoutes \cup TenantRoutes =>
                               "verified" \in run[c].verdicts
                        /\ run[c].route \in TenantRoutes => "granted" \in run[c].verdicts
        BY DEF NothingPastRefusal
    <2>1. RunOK(run[c])
        BY DEF RequestInv
    <2>2. CASE run[c].way = "call" /\ Layer(run[c]) = "handler"
        <3>1. Within(run[c]) /\ run[c].depth = HandlerAt(run[c].route)
            BY <2>1, <2>2, CallIs
        <3>2. /\ run[c].route \in Routes /\ EnteredOK(run[c])
              /\ Len(run[c].contexts) = HandlerAt(run[c].route)
            BY <3>1, WithinIs DEF InwardOK
        <3> QED
            BY <1>1, <3>2
    <2>3. CASE \E i \in DOMAIN run[c].answers : run[c].answers[i].code \in {"OK", "REFUSED"}
        <3>1. /\ run[c].way = "up" /\ OutwardOK(run[c]) /\ EnteredOK(run[c])
              /\ run[c].route \in Routes /\ run[c].answers[1].code \in {"OK", "REFUSED"}
            BY <2>1, <2>3, AnswersAre
        <3>2. Len(run[c].contexts) = HandlerAt(run[c].route)
            BY <3>1 DEF OutwardOK, AnswerOK
        <3> QED
            BY <1>1, <3>1, <3>2
    <2> QED
        BY <2>2, <2>3
<1> QED
    BY <1>2, RequestInvariance, PTL

\* The order of Chain gives every layer and handler the context it reads
\* (chain.go:7-14, server.go:67-73).
THEOREM ContextIsThere == Spec => []ContextComplete
<1>1. RequestInv => ContextComplete
    <2> SUFFICES ASSUME RequestInv, NEW c \in Clients, NEW i \in DOMAIN run[c].answers
                 PROVE  run[c].answers[i].code \notin {"UNAUTHENTICATED", "CONTEXT_MISSING"}
        BY DEF ContextComplete
    <2>1. i = 1 /\ OutwardOK(run[c])
        BY AnswersAre DEF RequestInv
    <2> QED
        BY <2>1 DEF OutwardOK, AnswerOK
<1> QED
    BY <1>1, RequestInvariance, PTL
=============================================================================
