------------------------ MODULE SessionFamilyProofs ------------------------
(***************************************************************************)
(* What the abstract specification guarantees, for any number of sessions  *)
(* and tokens.                                                             *)
(***************************************************************************)
EXTENDS SessionFamily, TLAPS

\* A token that was given out belongs to a session that was opened.
FamiliesOpened ==
    \A t \in TokenIDs :
        status[t] # "none" => family[t] \in SessionIDs /\ session[family[t]] # "none"

FamilyInv == TypeOK /\ FamiliesOpened /\ OneGoodToken

\* The conjunction is inductive: a token becomes live only in a session that
\* had none, or in the place of the one token that was pledged.
LEMMA FamilyInductive == FamilyInv /\ [Next]_vars => FamilyInv'
<1> SUFFICES ASSUME FamilyInv, [Next]_vars PROVE FamilyInv'
  OBVIOUS
<1> USE DEF FamilyInv, TypeOK, FamiliesOpened, OneGoodToken
<1>1. CASE UNCHANGED vars
  BY <1>1 DEF vars
<1>2. ASSUME NEW s \in SessionIDs, NEW t \in TokenIDs, Open(s, t)
      PROVE  FamilyInv'
  BY <1>2 DEF Open
<1>3. ASSUME NEW t \in TokenIDs, Admit(t) PROVE FamilyInv'
  BY <1>3 DEF Admit
<1>4. ASSUME NEW t \in TokenIDs, Withdraw(t) PROVE FamilyInv'
  BY <1>4 DEF Withdraw
<1>5. ASSUME NEW t \in TokenIDs, NEW u \in TokenIDs, Rotate(t, u)
      PROVE  FamilyInv'
  BY <1>5 DEF Rotate
<1>6. ASSUME NEW t \in TokenIDs, Close(t) PROVE FamilyInv'
  BY <1>6 DEF Close
<1> QED
  BY <1>1, <1>2, <1>3, <1>4, <1>5, <1>6 DEF Next

\* A family never has two good tokens: what every implementation inherits.
THEOREM FamilyHasOneGoodToken == Spec => []OneGoodToken
<1>1. Init => FamilyInv
  BY DEF Init, FamilyInv, TypeOK, FamiliesOpened, OneGoodToken
<1>2. FamilyInv => OneGoodToken
  BY DEF FamilyInv
<1> QED
  BY <1>1, <1>2, FamilyInductive, PTL DEF Spec
=============================================================================
