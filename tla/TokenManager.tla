---------------------------- MODULE TokenManager ----------------------------
(***************************************************************************)
(* What the token manager (internal/modules/auth/token.go) computes:       *)
(* when a token pair may be issued, when its two tokens expire, and when   *)
(* an access token verifies.  Signing, encoding and hashing are left out:  *)
(* a token string is the claims it carries.                                *)
(*                                                                         *)
(* Time is counted in ticks, TicksPerSecond of them to the second, because *)
(* expiries are kept with the database's resolution while the claims of an *)
(* access token are whole Unix seconds.                                    *)
(***************************************************************************)
EXTENDS Integers

CONSTANTS
    AccessTTL,       \* TokenConfig.AccessTokenTTL, in ticks
    RefreshTTL,      \* TokenConfig.RefreshTokenTTL, in ticks
    TicksPerSecond,  \* clock ticks in a second
    Null             \* no value: a zero time, a NULL column

\* What NewTokenManager demands of its configuration.
ValidTokenConfig(access, refresh) == access > 0 /\ refresh > access

ASSUME TokenAssumption ==
    /\ AccessTTL \in Int /\ RefreshTTL \in Int
    /\ ValidTokenConfig(AccessTTL, RefreshTTL)
    /\ TicksPerSecond \in Nat \ {0}
    /\ Null \notin Int

-----------------------------------------------------------------------------

\* time.Time.Unix(): the fraction of a second is dropped.
Unix(t) == t \div TicksPerSecond

MinTime(a, b) == IF a < b THEN a ELSE b

\* A pair for a session that has an expiry is refused once it has passed.
CanIssue(now, sessionExpiresAt) ==
    sessionExpiresAt # Null => sessionExpiresAt > now

\* A variant that forgets the cap, for checking SessionWindow.
Uncapped(t, sessionExpiresAt) == t

\* An expiry never lies beyond the session's own, when it has one.
CapToSession(t, sessionExpiresAt) ==
    IF sessionExpiresAt = Null THEN t ELSE MinTime(t, sessionExpiresAt)

AccessExpiry(now, sessionExpiresAt) ==
    CapToSession(now + AccessTTL, sessionExpiresAt)

RefreshExpiry(now, sessionExpiresAt) ==
    CapToSession(now + RefreshTTL, sessionExpiresAt)

IssueTokenPair(now, sessionExpiresAt) ==
    [issuedAt         |-> now,
     accessExpiresAt  |-> AccessExpiry(now, sessionExpiresAt),
     refreshExpiresAt |-> RefreshExpiry(now, sessionExpiresAt)]

Pairs == [issuedAt : Int, accessExpiresAt : Int, refreshExpiresAt : Int]

\* The claims signed into the pair's access token.
AccessTokenClaims(pair) ==
    [issuedAt |-> Unix(pair.issuedAt), expiresAt |-> Unix(pair.accessExpiresAt)]

ValidAccessTokenClaims(claims, now) ==
    /\ claims.issuedAt > 0
    /\ claims.expiresAt > claims.issuedAt
    /\ claims.expiresAt > Unix(now)

\* VerifyAccessToken accepts the access token of `pair' at time `now'.
VerifyAccessToken(pair, now) ==
    ValidAccessTokenClaims(AccessTokenClaims(pair), now)
=============================================================================
