------------------------- MODULE MCSubmissionProtocol ------------------------
(* A finite instance of SubmissionProtocol: one challenge with two instance   *)
(* generations, a right and a wrong candidate, one attempt in each pass, and  *)
(* room in the table for two of the four rows they could fill.                *)
EXTENDS SubmissionProtocol, TLC

CONSTANTS A, a1, a2, good, bad, main

MCChallengeOf == (a1 :> A) @@ (a2 :> A)
MCFlag == (a1 :> good) @@ (a2 :> good)

=============================================================================
