------------------------------ MODULE MCServer ------------------------------
(***************************************************************************)
(* Instance of Server for TLC.                                             *)
(***************************************************************************)
EXTENDS Server

\* What a server can be made of: one connection, a lifetime that cannot be
\* parsed, defaults.
Usable ==
    [databaseURL |-> "unset", maxConns |-> Number(1), bcryptCost |-> Unset,
     issuer |-> "unset", audience |-> "name", secret |-> 32,
     accessTTL |-> Junk, refreshTTL |-> Unset]

\* One setting is wrong, by itself or beside the default of another.  A number
\* that is no int32 is silently the default.
Unusable ==
    {[Usable EXCEPT !.databaseURL = "malformed"],
     [Usable EXCEPT !.maxConns = Number(0)],
     [Usable EXCEPT !.maxConns = Number(-1)],
     [Usable EXCEPT !.bcryptCost = Number(3)],
     [Usable EXCEPT !.bcryptCost = Number(32)],
     [Usable EXCEPT !.issuer = "blank"],
     [Usable EXCEPT !.secret = 0, !.maxConns = Number(MaxInt32 + 1)],
     [Usable EXCEPT !.secret = 31],
     [Usable EXCEPT !.accessTTL = Number(0)],
     [Usable EXCEPT !.accessTTL = Number(30 * 24 * 60)],
     [Usable EXCEPT !.refreshTTL = Number(15)]}

Started == {Usable} \cup Unusable

\* One route of each kind: a deadline, a user and no service, a tenant and a
\* body, no route at all.
Sample == {"readyz", "me", "createProduct", "unknown"}
=============================================================================
