----------------------- MODULE AuthServiceRefinement -----------------------
(***************************************************************************)
(* AuthService implements SessionFamily.  The abstract state is read off   *)
(* the committed tables, except that a token is pledged while a refresh    *)
(* that found it good, in a session it found open, is under way.           *)
(***************************************************************************)
EXTENDS AuthService

\* Request r has found its token good and has not ended yet.
Exchanging(r) ==
    /\ req[r].op = "refresh"
    /\ pc[r] \in {"readUserInTx", "issueInTx", "markTokenUsed", "createToken",
                  "markSessionUsed", "commit"}

AbstractSession ==
    [s \in SessionIDs |->
        IF sessions[s] = Null THEN "none"
        ELSE IF sessions[s].revoked = Null THEN "open" ELSE "closed"]

AbstractFamily ==
    [t \in TokenIDs |-> IF tokens[t] = Null THEN Null ELSE tokens[t].session]

AbstractStatus ==
    [t \in TokenIDs |->
        IF tokens[t] = Null THEN "none"
        ELSE IF tokens[t].revoked # Null THEN "revoked"
        ELSE IF tokens[t].lastUsed # Null THEN "spent"
        ELSE IF \E r \in Requests : Exchanging(r) /\ req[r].token = t THEN "pledged"
        ELSE "live"]

Family == INSTANCE SessionFamily
    WITH None <- Null, session <- AbstractSession, family <- AbstractFamily,
         status <- AbstractStatus

abstract == <<AbstractSession, AbstractFamily, AbstractStatus>>

\* Every step of the service is a step of the family or changes nothing of it:
\* login opens, the read of the session admits, commit rotates or closes, and
\* any failure withdraws.  (Family!Spec, with the stutter tried first.)
ImplementsSessionFamily ==
    Family!Init /\ [][abstract' = abstract \/ Family!Next]_vars
=============================================================================
