--------------------------- MODULE MCAuthService ---------------------------
(***************************************************************************)
(* Instances of AuthService for TLC.                                       *)
(***************************************************************************)
EXTENDS AuthServiceInvariant, AuthServiceRefinement, TLC

\* Requests, users and ids are interchangeable.  A run that checks liveness
\* does without this.
Interchangeable ==
    Permutations(Requests) \cup Permutations(Users)
        \cup Permutations(SessionIDs) \cup Permutations(TokenIDs)

=============================================================================
