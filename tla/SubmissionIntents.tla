-------------------------- MODULE SubmissionIntents --------------------------
(***************************************************************************)
(* The submission intents of agent_ext/runtime_state.py: one durable row   *)
(* per (scope, candidate) that remembers how far a flag submission went.   *)
(*                                                                         *)
(* Every operation is one BEGIN IMMEDIATE ... COMMIT transaction, so each  *)
(* is one atomic action here; a commit that fails rolls back and raises,   *)
(* which is a step that changes nothing.  The row's updated_at is kept as  *)
(* the row's age in ticks, and only while its status is Unresolved: no     *)
(* other row's timestamp is ever read.  Ages stop growing at ReconcileAge, *)
(* the bound that stands for _SUBMISSION_RECONCILE_SECONDS.                *)
(***************************************************************************)
EXTENDS Naturals, FiniteSets

CONSTANTS
  Challenge,     \* challenge ids
  Scope,         \* scope keys: one per material and instance generation
  Candidate,     \* candidate fingerprints
  ChallengeOf,   \* the challenge a scope key belongs to
  MaxIntents,    \* _MAX_SUBMISSION_INTENTS
  ReconcileAge   \* _SUBMISSION_RECONCILE_SECONDS, in ticks

ASSUME IntentsAssumption ==
  /\ ChallengeOf \in [Scope -> Challenge]
  /\ MaxIntents \in Nat
  /\ ReconcileAge \in Nat

VARIABLE
  intents        \* the table runtime_submission_intents

Verdict == {"correct", "incorrect", "already_solved",
            "ratelimited", "error", "uncertain"}

Concluding == {"correct", "already_solved"}

Unresolved == {"dispatch_possible", "uncertain", "unavailable"}
Concluded  == {"accepted", "already_solved", "conflict"}
Status     == Unresolved \cup Concluded \cup {"absent", "reserved", "rejected"}

Row == [status : Status, terminal : BOOLEAN, age : 0 .. ReconcileAge]

NoRow == [status |-> "absent", terminal |-> FALSE, age |-> 0]
ReservedRow == [status |-> "reserved", terminal |-> FALSE, age |-> 0]

Siblings(s) == {t \in Scope : ChallengeOf[t] = ChallengeOf[s]}

-----------------------------------------------------------------------------
(* Reads. *)

\* Variant: a concluding verdict blocks only the scope it was given in.
BlockedByScopeOnly(s) ==
  \E c \in Candidate : intents[s][c].status \in Unresolved \cup Concluded

\* The SELECT shared by submission_reconciled (negated) and reserve_submission:
\* this scope has an effect of unknown outcome, or any scope of its challenge
\* has a concluding verdict.
Blocked(s) ==
  \/ \E c \in Candidate : intents[s][c].status \in Unresolved
  \/ \E t \in Siblings(s), c \in Candidate :
        intents[t][c].status \in Concluded \/ intents[t][c].terminal

Present == {p \in Scope \X Candidate : intents[p[1]][p[2]].status # "absent"}

AtCapacity == Cardinality(Present) >= MaxIntents

\* reserve_submission answers "rejected": an attributable refusal is on record.
AlreadyRejected(s, c) ==
  ~Blocked(s) /\ intents[s][c].status = "rejected"

\* reserve_submission raises "submission intent capacity reached".
OutOfCapacity(s, c) ==
  ~Blocked(s) /\ intents[s][c].status = "absent" /\ AtCapacity

-----------------------------------------------------------------------------
(* Writes. *)

\* Variant: the capacity check is missing.
ReserveBeyondCapacity(s, c) ==
  /\ ~Blocked(s)
  /\ intents[s][c].status \in {"absent", "reserved"}
  /\ intents' = [intents EXCEPT ![s][c] = ReservedRow]

\* reserve_submission answers "reserved".  A row another attempt left in
\* "reserved" is replaced, which is how a crash before the marker resumes.
ReserveSubmission(s, c) ==
  /\ ~Blocked(s)
  /\ \/ intents[s][c].status = "absent" /\ ~AtCapacity
     \/ intents[s][c].status = "reserved"
  /\ intents' = [intents EXCEPT ![s][c] = ReservedRow]

\* mark_submission_dispatch_possible returns True.
MarkDispatchPossible(s, c) ==
  /\ intents[s][c].status = "reserved"
  /\ intents' = [intents EXCEPT ![s][c].status = "dispatch_possible", ![s][c].age = 0]

Classified(v) ==
  CASE v = "correct"                   -> "accepted"
    [] v = "incorrect"                 -> "rejected"
    [] v = "already_solved"            -> "already_solved"
    [] v \in {"ratelimited", "error"}  -> "unavailable"
    [] v = "uncertain"                 -> "uncertain"

\* Variant: a late verdict overwrites what an earlier one established.
LastVerdictWins(current, v) == Classified(v)

\* How reconcile_submission merges a verdict into the row's status: definitive
\* verdicts are kept and contradict into "conflict", account-level
\* already_solved outlives transport failures.
Resolved(current, v) ==
  LET new == Classified(v) IN
  IF current = "conflict" \/ {current, new} = {"accepted", "rejected"}
    THEN "conflict"
  ELSE IF current \in {"accepted", "rejected"} THEN current
  ELSE IF new \in {"accepted", "rejected"} THEN new
  ELSE IF current = "already_solved" THEN "already_solved"
  ELSE new

\* reconcile_submission.  It raises on a missing row and on one whose dispatch
\* was never committed; updated_at moves only when the row really changes.
ReconcileSubmission(s, c, v) ==
  LET row  == intents[s][c]
      now  == Resolved(row.status, v)
      term == row.terminal \/ v = "already_solved"
  IN  /\ row.status \notin {"absent", "reserved"}
      /\ intents' = [intents EXCEPT ![s][c] =
            [status |-> now, terminal |-> term,
             age |-> IF now = row.status /\ term = row.terminal THEN row.age ELSE 0]]

\* Variant: an unsolved catalogue clears an unknown outcome at once.
ClearsAnyAge(s, c, solvedIds) ==
  \/ ChallengeOf[s] \in solvedIds
  \/ ~intents[s][c].terminal /\ intents[s][c].status \in Unresolved

\* Variant: only a solved challenge clears anything.
ClearsSolvedOnly(s, c, solvedIds) == ChallengeOf[s] \in solvedIds

\* Which rows a trusted catalogue read may forget.
Clears(s, c, solvedIds) ==
  \/ ChallengeOf[s] \in solvedIds
  \/ /\ ~intents[s][c].terminal
     /\ intents[s][c].status \in Unresolved
     /\ intents[s][c].age >= ReconcileAge

\* reconcile_submission_catalogue, for a catalogue that lists the challenges
\* `listed` and shows those in `solvedIds` as solved.
ReconcileCatalogue(listed, solvedIds) ==
  intents' = [s \in Scope |-> [c \in Candidate |->
                IF ChallengeOf[s] \in listed /\ Clears(s, c, solvedIds)
                  THEN NoRow ELSE intents[s][c]]]

\* Time passes for the rows whose updated_at is ever compared.
Aged(row) ==
  IF row.status \in Unresolved /\ row.age < ReconcileAge
    THEN [row EXCEPT !.age = @ + 1] ELSE row

AgeIntents ==
  intents' = [s \in Scope |-> [c \in Candidate |-> Aged(intents[s][c])]]

IntentsInit == intents = [s \in Scope |-> [c \in Candidate |-> NoRow]]

\* The table under any callers.
TableNext ==
  \/ \E s \in Scope, c \in Candidate :
        \/ ReserveSubmission(s, c) \/ MarkDispatchPossible(s, c)
        \/ \E v \in Verdict : ReconcileSubmission(s, c, v)
  \/ \E listed, solvedIds \in SUBSET Challenge : ReconcileCatalogue(listed, solvedIds)
  \/ AgeIntents

TableSpec == IntentsInit /\ [][TableNext]_intents

IntentsTypeOK == intents \in [Scope -> [Candidate -> Row]]

-----------------------------------------------------------------------------
(* Properties. *)

\* The table never holds more rows than _MAX_SUBMISSION_INTENTS: at the limit
\* new candidates are refused and no evidence is evicted.
CapacityRespected == Cardinality(Present) <= MaxIntents

=============================================================================
