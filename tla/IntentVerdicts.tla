---------------------------- MODULE IntentVerdicts ---------------------------
(***************************************************************************)
(* The intent store of runtime_state.py on its own, for callers in any     *)
(* order: late, repeated and contradictory reconciliations included.  Two  *)
(* history variables remember what the rows are supposed to stand for.     *)
(***************************************************************************)
EXTENDS SubmissionIntents

VARIABLES
  verdicts,      \* what has been reconciled into each present row
  concluded      \* challenges with a "correct" or "already_solved" verdict
                 \* since the catalogue last showed them solved

vars == <<intents, verdicts, concluded>>

Reserve(s, c) ==
  /\ ReserveSubmission(s, c)
  /\ UNCHANGED <<verdicts, concluded>>

Mark(s, c) ==
  /\ MarkDispatchPossible(s, c)
  /\ UNCHANGED <<verdicts, concluded>>

Reconcile(s, c, v) ==
  /\ ReconcileSubmission(s, c, v)
  /\ verdicts' = [verdicts EXCEPT ![s][c] = @ \cup {v}]
  /\ concluded' = IF v \in Concluding THEN concluded \cup {ChallengeOf[s]} ELSE concluded

ReadCatalogue(listed, solvedIds) ==
  /\ ReconcileCatalogue(listed, solvedIds)
  /\ verdicts' = [s \in Scope |-> [c \in Candidate |->
                    IF intents'[s][c] = NoRow THEN {} ELSE verdicts[s][c]]]
  /\ concluded' = concluded \ (listed \cap solvedIds)

Age ==
  /\ AgeIntents
  /\ UNCHANGED <<verdicts, concluded>>

Init ==
  /\ IntentsInit
  /\ verdicts = [s \in Scope |-> [c \in Candidate |-> {}]]
  /\ concluded = {}

Next ==
  \/ \E s \in Scope, c \in Candidate :
        Reserve(s, c) \/ Mark(s, c) \/ \E v \in Verdict : Reconcile(s, c, v)
  \/ \E listed, solvedIds \in SUBSET Challenge : ReadCatalogue(listed, solvedIds)
  \/ Age

Spec == Init /\ [][Next]_vars

-----------------------------------------------------------------------------
(* Properties. *)

\* Type invariant of the table and its history.
TypeOK ==
  /\ IntentsTypeOK
  /\ verdicts \in [Scope -> [Candidate -> SUBSET Verdict]]
  /\ concluded \in SUBSET Challenge

\* What a set of verdicts means, whatever order they came in.
Meaning(vs) ==
  IF {"correct", "incorrect"} \subseteq vs THEN {"conflict"}
  ELSE IF "correct" \in vs THEN {"accepted"}
  ELSE IF "incorrect" \in vs THEN {"rejected"}
  ELSE IF "already_solved" \in vs THEN {"already_solved"}
  ELSE {"unavailable", "uncertain"}

\* A row is a function of the SET of verdicts reconciled into it: a delayed,
\* repeated or reordered call to reconcile_submission cannot erase an
\* attributable acceptance or refusal, nor the account-level flag.
VerdictOrderIrrelevant ==
  \A s \in Scope, c \in Candidate :
    verdicts[s][c] # {} =>
      /\ intents[s][c].status \in Meaning(verdicts[s][c])
      /\ intents[s][c].terminal <=> "already_solved" \in verdicts[s][c]

\* Once a challenge was reported solved to this agent, no scope of it, however
\* many instances are generated later and whatever verdicts follow, may reserve
\* again until a catalogue read has shown the challenge solved.
ConcludedStaysBlocked ==
  \A s \in Scope : ChallengeOf[s] \in concluded => Blocked(s)

=============================================================================
