------------------------------- MODULE Config -------------------------------
(***************************************************************************)
(* What the environment variables come to (internal/config/config.go) and  *)
(* whether a server can be made of it (httpserver.newAuthHandler,          *)
(* auth.NewBcryptPasswordHasher, auth.NewTokenManager, database.Open).     *)
(* Durations are counted in minutes.                                       *)
(***************************************************************************)
EXTENDS Integers

CONSTANT MaxInt32    \* 2^31 - 1; an instance may be narrower

ASSUME ConfigAssumption == MaxInt32 \in Nat

\* A variable that holds a number may be unset, no number, or any number.
Unset == <<"unset", 0>>
Junk == <<"junk", 0>>
Number(n) == <<"number", n>>

\* A variable that holds a name may be unset, blank, or a name.
Names == {"unset", "blank", "name"}

Numeral == {"unset", "junk", "number"} \X Int

Environment ==
    [databaseURL : {"unset", "malformed", "url"}, maxConns : Numeral,
     bcryptCost : Numeral, issuer : Names, audience : Names,
     secret : Nat,      \* its length in bytes, 0 if it is not set
     accessTTL : Numeral, refreshTTL : Numeral]

-----------------------------------------------------------------------------

\* What is not set, or cannot be parsed, is silently the default.
GetEnvInt(raw, fallback) == IF raw \in {Unset, Junk} THEN fallback ELSE raw[2]
GetEnvDuration(raw, fallback) == GetEnvInt(raw, fallback)

GetEnvInt32(raw, fallback) ==
    IF raw \in {Unset, Junk} \/ raw[2] \notin (-MaxInt32 - 1)..MaxInt32
    THEN fallback ELSE raw[2]

GetEnv(raw, fallback) == IF raw = "unset" THEN fallback ELSE raw

Load(env) ==
    [databaseURL |-> GetEnv(env.databaseURL, "url"),
     maxConns    |-> GetEnvInt32(env.maxConns, 25),
     bcryptCost  |-> GetEnvInt(env.bcryptCost, 12),
     issuer      |-> GetEnv(env.issuer, "name"),
     audience    |-> GetEnv(env.audience, "name"),
     secret      |-> env.secret,
     accessTTL   |-> GetEnvDuration(env.accessTTL, 15),
     refreshTTL  |-> GetEnvDuration(env.refreshTTL, 30 * 24 * 60)]

-----------------------------------------------------------------------------

\* database.Open makes no connection: it fails on what it is given only.
CanOpen(cfg) == cfg.databaseURL = "url" /\ cfg.maxConns >= 1

NewBcryptPasswordHasher(cfg) == cfg.bcryptCost \in 4..31

\* A variant that leaves the tokens' lifetimes to the operator.
NewTokenManagerAnyTTL(cfg) ==
    cfg.issuer = "name" /\ cfg.audience = "name" /\ cfg.secret >= 32

NewTokenManager(cfg) ==
    /\ cfg.issuer = "name" /\ cfg.audience = "name"
    /\ cfg.secret >= 32
    /\ cfg.accessTTL > 0 /\ cfg.refreshTTL > cfg.accessTTL

\* httpserver.New succeeds.
CanServe(cfg) == NewBcryptPasswordHasher(cfg) /\ NewTokenManager(cfg)
=============================================================================
