--------------------------- MODULE SessionFamily ---------------------------
(***************************************************************************)
(* What the auth module promises about refresh tokens, without statements, *)
(* locks or transactions: the tokens of a session form a family of which   *)
(* one at most is good, a token is exchanged at most once and only after   *)
(* it was found good in an open session, and a session that was closed     *)
(* admits no exchange any more.                                            *)
(*                                                                         *)
(* Between finding a token good and exchanging it (Admit, then Rotate or   *)
(* Withdraw) the session may be closed through another token of the        *)
(* family: that one exchange still goes through, and the token it yields   *)
(* is never admitted.                                                      *)
(***************************************************************************)
CONSTANTS SessionIDs, TokenIDs, None

VARIABLES
    session,  \* none, open or closed
    family,   \* the session a token belongs to
    status    \* none, live, pledged (to one exchange), spent or revoked

vars == <<session, family, status>>

TypeOK ==
    /\ session \in [SessionIDs -> {"none", "open", "closed"}]
    /\ family \in [TokenIDs -> SessionIDs \cup {None}]
    /\ status \in [TokenIDs -> {"none", "live", "pledged", "spent", "revoked"}]

Init ==
    /\ session = [s \in SessionIDs |-> "none"]
    /\ family = [t \in TokenIDs |-> None]
    /\ status = [t \in TokenIDs |-> "none"]

\* A login opens a session with its first token.
Open(s, t) ==
    /\ session[s] = "none" /\ status[t] = "none"
    /\ session' = [session EXCEPT ![s] = "open"]
    /\ family' = [family EXCEPT ![t] = s]
    /\ status' = [status EXCEPT ![t] = "live"]

\* A refresh finds a live token in an open session: nobody else may now.
Admit(t) ==
    /\ status[t] = "live" /\ session[family[t]] = "open"
    /\ status' = [status EXCEPT ![t] = "pledged"]
    /\ UNCHANGED <<session, family>>

\* The exchange is given up: the token is as good as before.
Withdraw(t) ==
    /\ status[t] = "pledged"
    /\ status' = [status EXCEPT ![t] = "live"]
    /\ UNCHANGED <<session, family>>

\* The exchange itself: the old token is spent and its one successor is live.
Rotate(t, u) ==
    /\ status[t] = "pledged" /\ status[u] = "none"
    /\ status' = [status EXCEPT ![t] = "spent", ![u] = "live"]
    /\ family' = [family EXCEPT ![u] = family[t]]
    /\ UNCHANGED session

\* A logout: any token of the family closes the session, spent ones included.
Close(t) ==
    /\ status[t] \in {"live", "spent", "revoked"}
    /\ status' = [status EXCEPT ![t] = "revoked"]
    /\ session' = [session EXCEPT ![family[t]] = "closed"]
    /\ UNCHANGED family

Next ==
    \/ \E s \in SessionIDs, t \in TokenIDs : Open(s, t)
    \/ \E t \in TokenIDs : Admit(t) \/ Withdraw(t) \/ Close(t)
    \/ \E t, u \in TokenIDs : Rotate(t, u)

Spec == Init /\ [][Next]_vars

-----------------------------------------------------------------------------

\* A family never has two good tokens, pledged or not: what a second exchange
\* of one token would leave behind (service.go:180-225).
OneGoodToken ==
    \A t, u \in TokenIDs :
        (status[t] \in {"live", "pledged"} /\ status[u] \in {"live", "pledged"}
            /\ family[t] = family[u]) => t = u
=============================================================================
