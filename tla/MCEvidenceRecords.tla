-------------------------- MODULE MCEvidenceRecords --------------------------
(* A finite instance of EvidenceRecords: two candidates that may be sent and  *)
(* one whose evidence is not complete, two sender threads and two writers.    *)
EXTENDS EvidenceRecords, TLC

CONSTANTS k1, k2, k3, t1, t2, w1, w2, full, partial

MCProvenance == (k1 :> {full}) @@ (k2 :> {full}) @@ (k3 :> {full, partial})

Says(outcome, definitive) == [outcome |-> outcome, definitive |-> definitive]

\* Contradictory verdicts and an acceptance nobody vouches for; or a verdict and
\* the account's history, which may also come before the request.
MCAnswers ==
    (k1 :> {Says("accepted", TRUE), Says("wrong", TRUE), Says("accepted", FALSE)}) @@
    (k2 :> {Says("accepted", TRUE), Says("account_already_solved", FALSE)}) @@
    (k3 :> {})

=============================================================================
