--------------------------- MODULE MCIntentVerdicts --------------------------
(* A finite instance of IntentVerdicts: challenge A has two instance       *)
(* generations and B one; the table has room for two of the three rows.       *)
EXTENDS IntentVerdicts, TLC

CONSTANTS A, B, a1, a2, b1

MCChallengeOf == (a1 :> A) @@ (a2 :> A) @@ (b1 :> B)

InstanceSymmetry == Permutations({a1, a2})

=============================================================================
