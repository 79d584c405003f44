---------------------------- MODULE MCDirectory ----------------------------
(***************************************************************************)
(* Instances of Directory for TLC.                                         *)
(***************************************************************************)
EXTENDS Directory, TLC

CONSTANTS u1, u2, o1, o2

\* The operator adds the second user to the first organization as a member,
\* or disables and re-enables that membership and that organization.
Guest == {<<o1, u2, "member">>}

Interchangeable == 
    Permutations(Requests) \cup Permutations(Emails) \cup Permutations(Slugs)
        \cup Permutations(SKUs) \cup Permutations(ProductIDs)
=============================================================================
