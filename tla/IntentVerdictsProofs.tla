------------------------ MODULE IntentVerdictsProofs -------------------------
(***************************************************************************)
(* Proofs about the intent store of runtime_state.py for every set of      *)
(* scopes, candidates and challenges: its type, the order-independence of  *)
(* reconciled verdicts, and the block a concluded challenge is under.      *)
(***************************************************************************)
EXTENDS IntentVerdicts, FiniteSetTheorems, TLAPS

USE IntentsAssumption

-----------------------------------------------------------------------------
(* What the pure operators do. *)

\* reconcile_submission only ever stores a known status, and never one that
\* stands for a row that was not dispatched.
LEMMA ResolvedType ==
  ASSUME NEW current \in Status, NEW v \in Verdict
  PROVE  /\ Resolved(current, v) \in Status
         /\ Resolved(current, v) \in {"absent", "reserved"}
              => Resolved(current, v) = current
BY DEF Resolved, Classified, Status, Verdict, Unresolved, Concluded

\* One more verdict moves a row from the meaning of the old set of verdicts to
\* the meaning of the new one.  The row of an empty set is a marked dispatch.
LEMMA ResolvedMeans ==
  ASSUME NEW vs \in SUBSET Verdict, NEW v \in Verdict, NEW current \in Status,
         vs = {} => current = "dispatch_possible",
         vs # {} => current \in Meaning(vs)
  PROVE  Resolved(current, v) \in Meaning(vs \cup {v})
<1> DEFINE new == vs \cup {v}
<1>1. CASE vs = {}
  <2>1. /\ ("correct" \in new) <=> v = "correct"
        /\ ("incorrect" \in new) <=> v = "incorrect"
        /\ ("already_solved" \in new) <=> v = "already_solved"
    BY <1>1
  <2> QED
    BY <2>1, <1>1 DEF Meaning, Resolved, Classified, Verdict
<1>2. CASE vs # {}
  <2>1. /\ ("correct" \in new) <=> ("correct" \in vs \/ v = "correct")
        /\ ("incorrect" \in new) <=> ("incorrect" \in vs \/ v = "incorrect")
        /\ ("already_solved" \in new) <=> ("already_solved" \in vs \/ v = "already_solved")
    OBVIOUS
  <2> QED
    BY <2>1, <1>2 DEF Meaning, Resolved, Classified, Verdict
<1> QED
  BY <1>1, <1>2

-----------------------------------------------------------------------------
(* Type correctness. *)

\* Every reachable table holds well-typed rows: whatever a caller does, ages,
\* statuses and flags stay in the sets the reads of the store expect.
THEOREM TypeCorrect == Spec => []TypeOK
<1>1. Init => TypeOK
  BY DEF Init, IntentsInit, TypeOK, IntentsTypeOK, NoRow, Row, Status
<1>2. TypeOK /\ [Next]_vars => TypeOK'
  <2> SUFFICES ASSUME TypeOK, [Next]_vars PROVE TypeOK'
    OBVIOUS
  <2> USE DEF TypeOK, IntentsTypeOK
  <2>1. ASSUME NEW s \in Scope, NEW c \in Candidate, Reserve(s, c) PROVE TypeOK'
    <3>1. ReservedRow \in Row
      BY DEF ReservedRow, Row, Status
    <3> QED
      BY <2>1, <3>1 DEF Reserve, ReserveSubmission
  <2>2. ASSUME NEW s \in Scope, NEW c \in Candidate, Mark(s, c) PROVE TypeOK'
    BY SMTT(20), <2>2 DEF Mark, MarkDispatchPossible, Row, Status, Unresolved
  <2>3. ASSUME NEW s \in Scope, NEW c \in Candidate, NEW v \in Verdict, Reconcile(s, c, v)
        PROVE  TypeOK'
    <3>1. intents[s][c] \in Row
      OBVIOUS
    <3>2. intents' \in [Scope -> [Candidate -> Row]]
      BY <2>3, <3>1, ResolvedType DEF Reconcile, ReconcileSubmission, Row
    <3>3. verdicts' \in [Scope -> [Candidate -> SUBSET Verdict]]
      BY <2>3 DEF Reconcile
    <3>4. concluded' \in SUBSET Challenge
      BY <2>3 DEF Reconcile
    <3> QED
      BY <3>2, <3>3, <3>4
  <2>4. ASSUME NEW listed \in SUBSET Challenge, NEW solvedIds \in SUBSET Challenge,
               ReadCatalogue(listed, solvedIds)
        PROVE  TypeOK'
    <3>1. NoRow \in Row
      BY DEF NoRow, Row, Status
    <3> QED
      BY <2>4, <3>1 DEF ReadCatalogue, ReconcileCatalogue
  <2>5. CASE Age
    <3>1. \A row \in Row : Aged(row) \in Row
      BY DEF Aged, Row
    <3> QED
      BY <2>5, <3>1 DEF Age, AgeIntents
  <2>6. CASE UNCHANGED vars
    BY <2>6 DEF vars
  <2> QED
    BY <2>1, <2>2, <2>3, <2>4, <2>5, <2>6 DEF Next
<1> QED
  BY <1>1, <1>2, PTL DEF Spec

-----------------------------------------------------------------------------
(* The inductive invariant. *)

\* A row nobody reconciled is still before or at its dispatch marker; a
\* reconciled one means what its verdicts mean.
RowsMeanTheirVerdicts ==
  \A s \in Scope, c \in Candidate :
    /\ verdicts[s][c] = {} => intents[s][c].status \in {"absent", "reserved", "dispatch_possible"}
    /\ verdicts[s][c] # {} => intents[s][c].status \in Meaning(verdicts[s][c])
    /\ intents[s][c].terminal <=> "already_solved" \in verdicts[s][c]

\* Every concluded challenge still has the row that concluded it.
ConcludedHasRow ==
  \A ch \in concluded : \E t \in Scope, c \in Candidate :
    ChallengeOf[t] = ch /\ verdicts[t][c] \cap Concluding # {}

HistoryInv == TypeOK /\ RowsMeanTheirVerdicts /\ ConcludedHasRow

\* A row with a concluding verdict in its history shows it, whatever else was
\* reconciled into it before or after.
LEMMA ConcludedRowShowsIt ==
  ASSUME HistoryInv, NEW t \in Scope, NEW c \in Candidate,
         verdicts[t][c] \cap Concluding # {}
  PROVE  intents[t][c].status \in Concluded \/ intents[t][c].terminal
<1>1. CASE "already_solved" \in verdicts[t][c]
  BY <1>1 DEF HistoryInv, RowsMeanTheirVerdicts
<1>2. CASE "already_solved" \notin verdicts[t][c]
  <2>1. "correct" \in verdicts[t][c]
    BY <1>2 DEF Concluding
  <2>2. intents[t][c].status \in Meaning(verdicts[t][c])
    BY <2>1 DEF HistoryInv, RowsMeanTheirVerdicts
  <2> QED
    BY <2>1, <2>2 DEF Meaning, Concluded
<1> QED
  BY <1>1, <1>2

\* The invariant holds of an empty table.
LEMMA HistoryInit == Init => HistoryInv
BY DEF Init, IntentsInit, HistoryInv, TypeOK, IntentsTypeOK, NoRow, Row, Status,
       RowsMeanTheirVerdicts, ConcludedHasRow

\* Reserving and marking touch rows without verdicts only.
LEMMA ReserveKeepsHistory ==
  ASSUME HistoryInv, TypeOK', NEW s \in Scope, NEW c \in Candidate,
         Reserve(s, c) \/ Mark(s, c)
  PROVE  HistoryInv'
<1>1. intents[s][c].status \in {"absent", "reserved"}
  BY DEF Reserve, Mark, ReserveSubmission, MarkDispatchPossible
<1>2. verdicts[s][c] = {}
  BY <1>1 DEF HistoryInv, RowsMeanTheirVerdicts, Meaning
<1>3. UNCHANGED <<verdicts, concluded>>
  BY DEF Reserve, Mark
<1>4. /\ intents'[s][c].status \in {"reserved", "dispatch_possible"}
      /\ intents'[s][c].terminal = FALSE
  <2>1. intents[s][c] \in Row /\ intents[s][c].terminal = FALSE
    BY <1>2 DEF HistoryInv, TypeOK, IntentsTypeOK, Row, RowsMeanTheirVerdicts
  <2>2. CASE Reserve(s, c)
    BY <2>2 DEF Reserve, ReserveSubmission, ReservedRow, HistoryInv, TypeOK, IntentsTypeOK
  <2>3. CASE Mark(s, c)
    BY <2>1, <2>3 DEF Mark, MarkDispatchPossible, Row, HistoryInv, TypeOK, IntentsTypeOK
  <2> QED
    BY <2>2, <2>3
<1>5. \A t \in Scope, d \in Candidate :
        <<t, d>> # <<s, c>> => intents'[t][d] = intents[t][d]
  BY DEF Reserve, Mark, ReserveSubmission, MarkDispatchPossible, HistoryInv, TypeOK, IntentsTypeOK
<1>6. RowsMeanTheirVerdicts'
  <2> SUFFICES ASSUME NEW t \in Scope, NEW d \in Candidate
               PROVE  /\ verdicts[t][d] = {} => intents'[t][d].status
                                                \in {"absent", "reserved", "dispatch_possible"}
                      /\ verdicts[t][d] # {} => intents'[t][d].status \in Meaning(verdicts[t][d])
                      /\ intents'[t][d].terminal <=> "already_solved" \in verdicts[t][d]
    BY <1>3 DEF RowsMeanTheirVerdicts
  <2>1. CASE t = s /\ d = c
    BY <2>1, <1>2, <1>4
  <2>2. CASE <<t, d>> # <<s, c>>
    BY <2>2, <1>5 DEF HistoryInv, RowsMeanTheirVerdicts
  <2> QED
    BY <2>1, <2>2
<1> QED
  BY <1>3, <1>6 DEF HistoryInv, ConcludedHasRow

\* reconcile_submission moves one row to the meaning of one more verdict.
LEMMA ReconcileKeepsHistory ==
  ASSUME HistoryInv, TypeOK', NEW s \in Scope, NEW c \in Candidate, NEW v \in Verdict,
         Reconcile(s, c, v)
  PROVE  HistoryInv'
<1> DEFINE row == intents[s][c]
<1>1. /\ row \in Row /\ row.status \in Status
      /\ row.status \notin {"absent", "reserved"}
      /\ verdicts[s][c] \in SUBSET Verdict
  BY DEF HistoryInv, TypeOK, IntentsTypeOK, Row, Reconcile, ReconcileSubmission
<1>2. Resolved(row.status, v) \in Meaning(verdicts[s][c] \cup {v})
  BY <1>1, ResolvedMeans DEF HistoryInv, RowsMeanTheirVerdicts
<1>3. /\ verdicts'[s][c] = verdicts[s][c] \cup {v}
      /\ intents'[s][c].status = Resolved(row.status, v)
      /\ intents'[s][c].terminal = (row.terminal \/ v = "already_solved")
  BY DEF Reconcile, ReconcileSubmission, HistoryInv, TypeOK, IntentsTypeOK
<1>4. \A t \in Scope, d \in Candidate : <<t, d>> # <<s, c>> =>
        intents'[t][d] = intents[t][d] /\ verdicts'[t][d] = verdicts[t][d]
  BY DEF Reconcile, ReconcileSubmission, HistoryInv, TypeOK, IntentsTypeOK
<1>5. RowsMeanTheirVerdicts'
  <2> SUFFICES ASSUME NEW t \in Scope, NEW d \in Candidate
               PROVE  /\ verdicts'[t][d] = {} => intents'[t][d].status
                                                \in {"absent", "reserved", "dispatch_possible"}
                      /\ verdicts'[t][d] # {} => intents'[t][d].status \in Meaning(verdicts'[t][d])
                      /\ intents'[t][d].terminal <=> "already_solved" \in verdicts'[t][d]
    BY DEF RowsMeanTheirVerdicts, Meaning
  <2>1. CASE t = s /\ d = c
    BY <2>1, <1>2, <1>3 DEF HistoryInv, RowsMeanTheirVerdicts
  <2>2. CASE <<t, d>> # <<s, c>>
    BY <2>2, <1>4 DEF HistoryInv, RowsMeanTheirVerdicts
  <2> QED
    BY <2>1, <2>2
<1>6. ConcludedHasRow'
  <2> SUFFICES ASSUME NEW ch \in concluded'
               PROVE  \E t \in Scope, d \in Candidate :
                        ChallengeOf[t] = ch /\ verdicts'[t][d] \cap Concluding # {}
    BY DEF ConcludedHasRow
  <2>1. CASE ch \in concluded
    <3>1. PICK t \in Scope, d \in Candidate :
             ChallengeOf[t] = ch /\ verdicts[t][d] \cap Concluding # {}
      BY <2>1 DEF HistoryInv, ConcludedHasRow
    <3> QED
      BY <3>1, <1>3, <1>4
  <2>2. CASE ch \notin concluded
    BY <2>2, <1>3 DEF Reconcile
  <2> QED
    BY <2>1, <2>2
<1> QED
  BY <1>5, <1>6 DEF HistoryInv

\* A catalogue read forgets whole rows, and a row with a concluding verdict
\* only when it shows the challenge solved.
LEMMA CatalogueKeepsHistory ==
  ASSUME HistoryInv, TypeOK', NEW listed \in SUBSET Challenge,
         NEW solvedIds \in SUBSET Challenge, ReadCatalogue(listed, solvedIds)
  PROVE  HistoryInv'
<1>1. \A t \in Scope, d \in Candidate :
         \/ intents'[t][d] = NoRow /\ verdicts'[t][d] = {}
         \/ intents'[t][d] = intents[t][d] /\ verdicts'[t][d] = verdicts[t][d]
  BY DEF ReadCatalogue, ReconcileCatalogue
<1>2. RowsMeanTheirVerdicts'
  <2> SUFFICES ASSUME NEW t \in Scope, NEW d \in Candidate
               PROVE  /\ verdicts'[t][d] = {} => intents'[t][d].status
                                                \in {"absent", "reserved", "dispatch_possible"}
                      /\ verdicts'[t][d] # {} => intents'[t][d].status \in Meaning(verdicts'[t][d])
                      /\ intents'[t][d].terminal <=> "already_solved" \in verdicts'[t][d]
    BY DEF RowsMeanTheirVerdicts, Meaning
  <2> QED
    BY <1>1 DEF HistoryInv, RowsMeanTheirVerdicts, NoRow
<1>3. ConcludedHasRow'
  <2> SUFFICES ASSUME NEW ch \in concluded'
               PROVE  \E t \in Scope, d \in Candidate :
                        ChallengeOf[t] = ch /\ verdicts'[t][d] \cap Concluding # {}
    BY DEF ConcludedHasRow
  <2>1. ch \in concluded /\ ch \notin (listed \cap solvedIds)
    BY DEF ReadCatalogue
  <2>2. PICK t \in Scope, d \in Candidate :
          ChallengeOf[t] = ch /\ verdicts[t][d] \cap Concluding # {}
    BY <2>1 DEF HistoryInv, ConcludedHasRow
  <2>3. intents[t][d].status \in Concluded \/ intents[t][d].terminal
    BY <2>2, ConcludedRowShowsIt
  <2>4. ~(ChallengeOf[t] \in listed /\ Clears(t, d, solvedIds))
    BY <2>1, <2>2, <2>3 DEF Clears, Concluded, Unresolved
  <2>5. intents'[t][d] = intents[t][d] /\ intents[t][d] # NoRow
    BY <2>3, <2>4 DEF ReadCatalogue, ReconcileCatalogue, NoRow, Concluded
  <2>6. verdicts'[t][d] = verdicts[t][d]
    BY <2>5 DEF ReadCatalogue
  <2> QED
    BY <2>2, <2>6
<1> QED
  BY <1>2, <1>3 DEF HistoryInv

\* Time changes no row's status.
LEMMA AgeKeepsHistory ==
  ASSUME HistoryInv, TypeOK', Age
  PROVE  HistoryInv'
<1>1. \A row \in Row : Aged(row).status = row.status /\ Aged(row).terminal = row.terminal
  BY DEF Aged, Row
<1>2. \A t \in Scope, d \in Candidate :
        /\ intents'[t][d].status = intents[t][d].status
        /\ intents'[t][d].terminal = intents[t][d].terminal
  BY <1>1 DEF Age, AgeIntents, HistoryInv, TypeOK, IntentsTypeOK
<1>3. UNCHANGED <<verdicts, concluded>>
  BY DEF Age
<1>4. RowsMeanTheirVerdicts'
  BY <1>2, <1>3 DEF HistoryInv, RowsMeanTheirVerdicts, Meaning
<1>5. ConcludedHasRow'
  BY <1>3 DEF HistoryInv, ConcludedHasRow
<1> QED
  BY <1>4, <1>5 DEF HistoryInv

\* The inductive invariant holds in every reachable state.
THEOREM HistoryInvariant == Spec => []HistoryInv
<1>1. HistoryInv /\ TypeOK' /\ [Next]_vars => HistoryInv'
  <2>1. CASE UNCHANGED vars
    BY <2>1 DEF vars, HistoryInv, RowsMeanTheirVerdicts, ConcludedHasRow
  <2> QED
    BY <2>1, ReserveKeepsHistory, ReconcileKeepsHistory, CatalogueKeepsHistory,
       AgeKeepsHistory DEF Next
<1> QED
  BY <1>1, HistoryInit, TypeCorrect, PTL DEF Spec

\* reconcile_submission's merge is order-independent for every number of
\* scopes, candidates and verdicts: a row means the set of its verdicts.
THEOREM VerdictOrderTheorem == Spec => []VerdictOrderIrrelevant
<1>1. HistoryInv => VerdictOrderIrrelevant
  BY DEF HistoryInv, RowsMeanTheirVerdicts, VerdictOrderIrrelevant
<1> QED
  BY <1>1, HistoryInvariant, PTL

\* A challenge with a concluding verdict stays closed to every reservation, in
\* every scope, until a catalogue read shows it solved.
THEOREM ConcludedBlockTheorem == Spec => []ConcludedStaysBlocked
<1>1. HistoryInv => ConcludedStaysBlocked
  <2> SUFFICES ASSUME HistoryInv, NEW s \in Scope, ChallengeOf[s] \in concluded
               PROVE  Blocked(s)
    BY DEF ConcludedStaysBlocked
  <2>1. PICK t \in Scope, c \in Candidate :
          ChallengeOf[t] = ChallengeOf[s] /\ verdicts[t][c] \cap Concluding # {}
    BY DEF HistoryInv, ConcludedHasRow
  <2> QED
    BY <2>1, ConcludedRowShowsIt DEF Blocked, Siblings
<1> QED
  BY <1>1, HistoryInvariant, PTL

-----------------------------------------------------------------------------
(* Capacity. *)

\* The table is finite and within its capacity.
CapacityInv == IsFiniteSet(Present) /\ Cardinality(Present) <= MaxIntents

\* A step that adds no row keeps the capacity.
LEMMA NoNewRow ==
  ASSUME CapacityInv, Present' \subseteq Present
  PROVE  CapacityInv'
<1>1. /\ IsFiniteSet(Present')
      /\ Cardinality(Present') <= Cardinality(Present)
      /\ Cardinality(Present') \in Nat /\ Cardinality(Present) \in Nat
  BY FS_Subset, FS_CardinalityType DEF CapacityInv
<1> QED
  BY <1>1 DEF CapacityInv

\* One operation of the table keeps its rows well-typed and within its capacity:
\* the check and the insertion are one transaction.
LEMMA TableStep ==
  ASSUME IntentsTypeOK, CapacityInv, [TableNext]_intents
  PROVE  IntentsTypeOK' /\ CapacityInv'
<1> USE DEF IntentsTypeOK
<1>1. ASSUME NEW s \in Scope, NEW c \in Candidate, ReserveSubmission(s, c)
      PROVE  IntentsTypeOK' /\ CapacityInv'
  <2>1. ReservedRow \in Row
    BY DEF ReservedRow, Row, Status
  <2>2. intents' \in [Scope -> [Candidate -> Row]]
    BY <1>1, <2>1 DEF ReserveSubmission
  <2>3. Present' = Present \cup {<<s, c>>}
    BY <1>1 DEF Present, ReserveSubmission, ReservedRow
  <2>4. CASE <<s, c>> \in Present
    BY <2>2, <2>3, <2>4, NoNewRow
  <2>5. CASE <<s, c>> \notin Present
    <3>1. ~AtCapacity
      BY <1>1, <2>5 DEF ReserveSubmission, Present
    <3>2. /\ IsFiniteSet(Present')
          /\ Cardinality(Present') = Cardinality(Present) + 1
          /\ Cardinality(Present) \in Nat
      BY <2>3, <2>5, FS_AddElement, FS_CardinalityType DEF CapacityInv
    <3> QED
      BY <2>2, <3>1, <3>2 DEF AtCapacity, CapacityInv
  <2> QED
    BY <2>4, <2>5
<1>2. ASSUME NEW s \in Scope, NEW c \in Candidate, MarkDispatchPossible(s, c)
      PROVE  IntentsTypeOK' /\ CapacityInv'
  <2>1. intents' \in [Scope -> [Candidate -> Row]]
    <3> DEFINE marked == [intents EXCEPT ![s][c].status = "dispatch_possible"]
    <3>1. marked \in [Scope -> [Candidate -> Row]]
      BY DEF Row, Status, Unresolved
    <3>2. intents' = [marked EXCEPT ![s][c].age = 0]
      BY <1>2 DEF MarkDispatchPossible
    <3> HIDE DEF marked
    <3>3. marked[s][c] \in Row
      BY <3>1
    <3>4. [marked[s][c] EXCEPT !.age = 0] \in Row
      BY <3>3 DEF Row
    <3>5. intents' = [marked EXCEPT ![s] = [marked[s] EXCEPT ![c] = [marked[s][c] EXCEPT !.age = 0]]]
      BY <3>2
    <3> QED
      BY <3>1, <3>4, <3>5
  <2>2. Present' \subseteq Present
    BY <1>2 DEF Present, MarkDispatchPossible
  <2> QED
    BY <2>1, <2>2, NoNewRow
<1>3. ASSUME NEW s \in Scope, NEW c \in Candidate, NEW v \in Verdict,
             ReconcileSubmission(s, c, v)
      PROVE  IntentsTypeOK' /\ CapacityInv'
  <2>1. PICK row \in Row : intents' = [intents EXCEPT ![s][c] = row]
    <3> DEFINE old == intents[s][c]
               now == Resolved(old.status, v)
               term == old.terminal \/ v = "already_solved"
               age == IF now = old.status /\ term = old.terminal THEN old.age ELSE 0
    <3>1. old.status \in Status /\ old.terminal \in BOOLEAN /\ old.age \in 0 .. ReconcileAge
      BY DEF Row
    <3>2. now \in Status
      BY <3>1, ResolvedType
    <3>3. term \in BOOLEAN /\ age \in 0 .. ReconcileAge
      BY <3>1
    <3>4. intents' = [intents EXCEPT ![s][c] = [status |-> now, terminal |-> term, age |-> age]]
      BY <1>3 DEF ReconcileSubmission
    <3> HIDE DEF now, term, age
    <3> QED
      BY <3>2, <3>3, <3>4 DEF Row
  <2>2. Present' \subseteq Present
    BY <1>3 DEF Present, ReconcileSubmission
  <2> QED
    BY <2>1, <2>2, NoNewRow
<1>4. ASSUME NEW listed \in SUBSET Challenge, NEW solvedIds \in SUBSET Challenge,
             ReconcileCatalogue(listed, solvedIds)
      PROVE  IntentsTypeOK' /\ CapacityInv'
  <2>1. NoRow \in Row
    BY DEF NoRow, Row, Status
  <2>2. intents' \in [Scope -> [Candidate -> Row]]
    BY <1>4, <2>1 DEF ReconcileCatalogue
  <2>3. Present' \subseteq Present
    BY <1>4 DEF Present, ReconcileCatalogue, NoRow
  <2> QED
    BY <2>2, <2>3, NoNewRow
<1>5. CASE AgeIntents
  <2>1. \A row \in Row : Aged(row) \in Row /\ Aged(row).status = row.status
    BY DEF Aged, Row
  <2>2. intents' \in [Scope -> [Candidate -> Row]]
    BY <1>5, <2>1 DEF AgeIntents
  <2>3. Present' \subseteq Present
    BY <1>5, <2>1 DEF Present, AgeIntents
  <2> QED
    BY <2>2, <2>3, NoNewRow
<1>6. CASE UNCHANGED intents
  <2>1. Present' = Present
    BY <1>6 DEF Present
  <2> QED
    BY <1>6, <2>1, NoNewRow
<1> QED
  BY <1>1, <1>2, <1>3, <1>4, <1>5, <1>6 DEF TableNext

\* _MAX_SUBMISSION_INTENTS bounds the table whatever it is set to and whoever
\* calls its operations, in any order.
THEOREM TableBounded == TableSpec => []CapacityRespected
<1>1. IntentsInit => IntentsTypeOK /\ CapacityInv
  <2> SUFFICES ASSUME IntentsInit PROVE IntentsTypeOK /\ CapacityInv
    OBVIOUS
  <2>1. IntentsTypeOK
    BY DEF IntentsInit, IntentsTypeOK, NoRow, Row, Status
  <2>2. Present = {}
    BY DEF IntentsInit, Present, NoRow
  <2> QED
    BY <2>1, <2>2, FS_EmptySet DEF CapacityInv
<1>2. IntentsTypeOK /\ CapacityInv /\ [TableNext]_intents => (IntentsTypeOK /\ CapacityInv)'
  BY TableStep
<1>3. CapacityInv => CapacityRespected
  BY DEF CapacityInv, CapacityRespected
<1> QED
  BY <1>1, <1>2, <1>3, PTL DEF TableSpec

\* The callers of this module, histories and all, use the table so.
THEOREM VerdictsUseTheTable == Spec => TableSpec
<1>1. Init => IntentsInit
  BY DEF Init
<1>2. [Next]_vars => [TableNext]_intents
  BY DEF Next, vars, TableNext, Reserve, Mark, Reconcile, ReadCatalogue, Age
<1> QED
  BY <1>1, <1>2, PTL DEF Spec, TableSpec

\* So no interleaving of them exceeds the capacity.
THEOREM CapacityTheorem == Spec => []CapacityRespected
BY VerdictsUseTheTable, TableBounded, PTL

=============================================================================
