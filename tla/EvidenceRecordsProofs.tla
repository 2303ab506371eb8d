------------------------ MODULE EvidenceRecordsProofs ------------------------
(***************************************************************************)
(* Proofs about submission_state.py and about results.py next to it, for   *)
(* every set of keys, threads and adapter answers and any number of        *)
(* writers, entries, crashes and lost files.                               *)
(*                                                                         *)
(* The store: the dispatch flag and the state of a row tell the same       *)
(* story, and a thread that holds the permission to send is the only one   *)
(* and has not sent yet.  The projector: the composition uses the store as *)
(* SubmissionState says, the bookkeeping never runs ahead of the file, and *)
(* a replacement never takes the file back.                                *)
(***************************************************************************)
EXTENDS EvidenceRecords, FiniteSetTheorems, TLAPS

USE SubmissionAssumption

-----------------------------------------------------------------------------
(* The inductive invariants. *)

\* What the marker was set for is never a row that counts as unsent.
FlagMatchesState ==
    \A k \in Key : intents[k].dispatch => intents[k].state \notin NotSentYet \cup {"none"}

\* mark_dispatch_possible returned True: once for a key, and not used so far.
PermissionIsUnique ==
    \A t \in Thread : sender[t].pc = "marked" =>
        /\ intents[sender[t].key].dispatch
        /\ sent[sender[t].key] = 0
        /\ \A u \in Thread :
             sender[u].pc = "marked" /\ sender[u].key = sender[t].key => u = t

SentIsFlagged == \A k \in Key : sent[k] > 0 => intents[k].dispatch

BusyHasKey == \A t \in Thread : sender[t].pc # "idle" => sender[t].key \in Key

DispatchInv ==
    /\ StoreTypeOK /\ BusyHasKey
    /\ FlagMatchesState /\ PermissionIsUnique /\ SentIsFlagged /\ SentAtMostOnce

-----------------------------------------------------------------------------
(* record_outcome's rule. *)

\* What an event makes of a row is a status, and never that of an unsent row.
LEMMA NewStateType ==
    ASSUME NEW state \in IntentState, NEW a \in Answer
    PROVE  /\ NewState(state, a) \in IntentState
           /\ NewState(state, a) \notin NotSentYet \cup {"none"}
BY DEF NewState, IntentState, Answer, AdapterOutcome, IsVerdict, Opposite, NotSentYet

\* A new row, and a row whose flag and state change together, is well-typed.
LEMMA IntentType ==
    ASSUME NEW row \in Intent, NEW state \in IntentState, NEW flag \in BOOLEAN
    PROVE  /\ [row EXCEPT !.state = state] \in Intent
           /\ [row EXCEPT !.state = state, !.dispatch = flag] \in Intent
BY DEF Intent

\* A thread that goes on is well-typed, and so is one that rests.
LEMMA SenderType ==
    /\ Resting \in Sender
    /\ \A pc \in Step, k \in Key : [pc |-> pc, key |-> k] \in Sender
BY DEF Resting, Sender, Step

-----------------------------------------------------------------------------
(* Type correctness and the permission to send. *)

\* One step of the store keeps the invariant, an operation at a time.
LEMMA DispatchStep ==
    ASSUME DispatchInv, [StoreNext]_storeVars
    PROVE  DispatchInv'
<1> USE DEF DispatchInv, StoreTypeOK, BusyHasKey, FlagMatchesState, PermissionIsUnique,
            SentIsFlagged, SentAtMostOnce
<1>1. ASSUME NEW t \in Thread, NEW k \in Key, Begin(t, k) PROVE DispatchInv'
  <2>1. sender' = [sender EXCEPT ![t] = [pc |-> "admitted", key |-> k]]
    BY <1>1 DEF Begin, Move
  <2>2. sender' \in [Thread -> Sender]
    BY <2>1, SenderType DEF Step
  <2> QED
    BY <1>1, <2>1, <2>2 DEF Begin
<1>2. ASSUME NEW t \in Thread, NotCommitted(t) PROVE DispatchInv'
  BY <1>2, SenderType DEF NotCommitted, Rest, Resting
<1>3. ASSUME NEW t \in Thread, Reserve(t) PROVE DispatchInv'
  <2> DEFINE k == sender[t].key
  <2>1. k \in Key /\ sender[t].pc = "admitted"
    BY <1>3 DEF Reserve
  <2>2. sender' \in [Thread -> Sender]
    BY <1>3, <2>1, SenderType DEF Reserve, Move, Rest, Step
  <2>3. /\ \A u \in Thread : u # t => sender'[u] = sender[u]
        /\ sender'[t] = Resting \/ sender'[t] = [pc |-> "reserved", key |-> k]
    BY <1>3 DEF Reserve, Move, Rest
  <2>4. CASE Exists(k)
    BY <1>3, <2>1, <2>2, <2>3, <2>4 DEF Reserve, Resting
  <2>5. CASE ~Exists(k)
    <3>1. intents' = [intents EXCEPT ![k].state = "reserved"]
      BY <1>3, <2>5 DEF Reserve
    <3>2. intents' \in [Key -> Intent]
      BY <2>1, <3>1, IntentType DEF IntentState
    <3>3. /\ \A l \in Key : intents'[l].dispatch = intents[l].dispatch
          /\ intents'[k].state = "reserved"
          /\ \A l \in Key : l # k => intents'[l] = intents[l]
      BY <2>1, <3>1 DEF Intent
    <3>4. ~intents[k].dispatch
      BY <2>1, <2>5 DEF Exists
    <3> QED
      BY <1>3, <2>1, <2>2, <2>3, <3>2, <3>3, <3>4 DEF Reserve, Resting, NotSentYet
  <2> QED
    BY <2>4, <2>5
<1>4. ASSUME NEW t \in Thread, MarkDispatchPossible(t) PROVE DispatchInv'
  <2> DEFINE k == sender[t].key
  <2>1. k \in Key /\ sender[t].pc = "reserved"
    BY <1>4 DEF MarkDispatchPossible
  <2>2. CASE intents[k].state \in NotSentYet
    <3>1. /\ intents' = [intents EXCEPT ![k].state = "dispatch_possible", ![k].dispatch = TRUE]
          /\ sender' = [sender EXCEPT ![t] = [pc |-> "marked", key |-> k]]
          /\ UNCHANGED <<events, sent>>
      BY <1>4, <2>2 DEF MarkDispatchPossible, Move
    <3>2. intents' \in [Key -> Intent] /\ sender' \in [Thread -> Sender]
      BY <2>1, <3>1, IntentType, SenderType DEF IntentState, Step
    <3>3. ~intents[k].dispatch /\ sent[k] = 0
      BY <2>1, <2>2
    <3>4. /\ intents'[k].dispatch /\ intents'[k].state = "dispatch_possible"
          /\ \A l \in Key : l # k => intents'[l] = intents[l]
      BY <2>1, <3>1 DEF Intent
    <3>5. FlagMatchesState' /\ SentIsFlagged' /\ SentAtMostOnce'
      BY <3>1, <3>4 DEF NotSentYet
    <3>6. PermissionIsUnique'
      BY <2>1, <3>1, <3>3, <3>4
    <3> QED
      BY SMTT(20), <2>1, <3>1, <3>2, <3>5, <3>6
  <2>3. CASE intents[k].state \notin NotSentYet
    BY <1>4, <2>1, <2>3, SenderType DEF MarkDispatchPossible, Rest, Resting
  <2> QED
    BY <2>2, <2>3
<1>5. ASSUME NEW t \in Thread, Send(t) PROVE DispatchInv'
  <2> DEFINE k == sender[t].key
  <2>1. /\ k \in Key /\ sender[t].pc = "marked"
        /\ sent' = [sent EXCEPT ![k] = @ + 1]
        /\ sender' = [sender EXCEPT ![t] = Resting]
        /\ UNCHANGED <<intents, events>>
    BY <1>5 DEF Send, Rest
  <2>2. intents[k].dispatch /\ sent[k] = 0 /\ sent'[k] = 1
    BY <2>1
  <2>3. sender' \in [Thread -> Sender] /\ sent' \in [Key -> Nat]
    BY <2>1, SenderType
  <2> QED
    BY <2>1, <2>2, <2>3 DEF Resting
<1>6. ASSUME NEW k \in Key, ProveNotSent(k) PROVE DispatchInv'
  <2>1. /\ ~intents[k].dispatch
        /\ intents' = [intents EXCEPT ![k].state = "proven_not_sent"]
        /\ UNCHANGED <<events, sender, sent>>
    BY <1>6 DEF ProveNotSent
  <2>2. intents' \in [Key -> Intent]
    BY <2>1, IntentType DEF IntentState
  <2>3. /\ \A l \in Key : intents'[l].dispatch = intents[l].dispatch
        /\ intents'[k].state = "proven_not_sent"
        /\ \A l \in Key : l # k => intents'[l] = intents[l]
    BY <2>1 DEF Intent
  <2> QED
    BY <2>1, <2>2, <2>3 DEF NotSentYet
<1>7. ASSUME NEW k \in Key, NEW a \in Answers[k], Answered(k, a) PROVE DispatchInv'
  <2>1. a \in Answer
    OBVIOUS
  <2>2. /\ events' = events \cup {[key |-> k, answer |-> a]}
        /\ intents' = [intents EXCEPT ![k].state = NewState(@, a)]
        /\ UNCHANGED <<sender, sent>>
    BY <1>7 DEF Answered, RecordOutcome
  <2>3. events' \subseteq Event
    BY <2>1, <2>2 DEF Event
  <2>4. intents[k].state \in IntentState
    BY DEF Intent
  <2>5. intents' \in [Key -> Intent]
    BY <2>1, <2>2, <2>4, IntentType, NewStateType
  <2>6. /\ \A l \in Key : intents'[l].dispatch = intents[l].dispatch
        /\ intents'[k].state = NewState(intents[k].state, a)
        /\ \A l \in Key : l # k => intents'[l] = intents[l]
    BY <2>2 DEF Intent
  <2> QED
    BY <2>1, <2>2, <2>3, <2>4, <2>5, <2>6, NewStateType
<1>8. CASE StoreCrash
  BY <1>8, SenderType DEF StoreCrash, Resting
<1>9. CASE UNCHANGED storeVars
  BY <1>9 DEF storeVars
<1> QED
  BY <1>1, <1>2, <1>3, <1>4, <1>5, <1>6, <1>7, <1>8, <1>9 DEF StoreNext, ThreadStep

\* Whatever interleaving of threads, failed commits, crashes, proofs and late
\* events: types hold, and flags, permissions and sends agree.
THEOREM DispatchInvariant == StoreSpec => []DispatchInv
<1>1. StoreInit => DispatchInv
  BY DEF StoreInit, DispatchInv, StoreTypeOK, BusyHasKey, FlagMatchesState, PermissionIsUnique,
         SentIsFlagged, SentAtMostOnce, NoIntent, Intent, IntentState, Resting, Sender, Step
<1>2. DispatchInv /\ [StoreNext]_storeVars => DispatchInv'
  BY DispatchStep
<1> QED
  BY <1>1, <1>2, PTL DEF StoreSpec

\* The callback is invoked at most once for a key, for any number of threads
\* and crashes (mark_dispatch_possible).
THEOREM SentOnce == StoreSpec => []SentAtMostOnce
<1>1. DispatchInv => SentAtMostOnce
  BY DEF DispatchInv
<1> QED
  BY <1>1, DispatchInvariant, PTL

\* A key whose candidate was sent is never offered as new or unsent again
\* (recover, duplicate_disposition).
THEOREM SendsRemembered == StoreSpec => []SentIsNotForgotten
<1>1. DispatchInv => SentIsNotForgotten
  BY DEF DispatchInv, SentIsFlagged, FlagMatchesState, StoreTypeOK, SentIsNotForgotten,
         Recovery, DuplicateDisposition, NotSentYet, Intent, IntentState
<1> QED
  BY <1>1, DispatchInvariant, PTL

-----------------------------------------------------------------------------
(* Verdicts. *)

\* One more event adds its outcome to the verdicts of its key, if it is one.
LEMMA VerdictsGrow ==
    ASSUME NEW k \in Key, NEW a \in Answer, events \subseteq Event,
           events' = events \cup {[key |-> k, answer |-> a]}
    PROVE  /\ Verdicts(k)' = Verdicts(k) \cup (IF IsVerdict(a) THEN {a.outcome} ELSE {})
           /\ \A l \in Key : l # k => Verdicts(l)' = Verdicts(l)
<1>1. \A l \in Key : \A o : o \in Verdicts(l) <=>
        \E f \in events : f.key = l /\ IsVerdict(f.answer) /\ f.answer.outcome = o
  BY DEF Verdicts
<1>2. \A l \in Key : \A o : o \in Verdicts(l)' <=>
        \E f \in events' : f.key = l /\ IsVerdict(f.answer) /\ f.answer.outcome = o
  BY DEF Verdicts
<1>3. \A l \in Key : \A o : o \in Verdicts(l)' <=>
        o \in Verdicts(l) \/ (l = k /\ IsVerdict(a) /\ o = a.outcome)
  <2> SUFFICES ASSUME NEW l \in Key, NEW o
               PROVE  o \in Verdicts(l)' <=>
                        o \in Verdicts(l) \/ (l = k /\ IsVerdict(a) /\ o = a.outcome)
    OBVIOUS
  <2> DEFINE new == [key |-> k, answer |-> a]
             Says(f) == f.key = l /\ IsVerdict(f.answer) /\ f.answer.outcome = o
  <2>1. Says(new) <=> l = k /\ IsVerdict(a) /\ o = a.outcome
    OBVIOUS
  <2>2. o \in Verdicts(l) <=> \E f \in events : Says(f)
    BY <1>1
  <2>3. o \in Verdicts(l)' <=> \E f \in events' : Says(f)
    BY <1>2
  <2> HIDE DEF Says, new
  <2>4. events' = events \cup {new}
    BY DEF new
  <2> QED
    BY <2>1, <2>2, <2>3, <2>4
<1>4. \A l \in Key : l # k => Verdicts(l)' = Verdicts(l)
  BY <1>3
<1>5. Verdicts(k)' = Verdicts(k) \cup (IF IsVerdict(a) THEN {a.outcome} ELSE {})
  BY <1>3
<1> QED
  BY <1>4, <1>5

\* Only the two definitive outcomes are verdicts.
LEMMA VerdictsType ==
    ASSUME NEW k \in Key
    PROVE  Verdicts(k) \subseteq {"accepted", "wrong"}
BY DEF Verdicts, IsVerdict

\* The state of a row, as the set of its verdicts determines it.
Reflects(state, vs) ==
    /\ state = "conflict" <=> vs = {"accepted", "wrong"}
    /\ state = "accepted" <=> vs = {"accepted"}
    /\ state = "wrong" <=> vs = {"wrong"}

\* record_outcome's rule moves a row from what the old events say to what the
\* new ones say.
LEMMA NewStateReflects ==
    ASSUME NEW state \in IntentState, NEW vs \in SUBSET {"accepted", "wrong"},
           NEW a \in Answer, Reflects(state, vs)
    PROVE  Reflects(NewState(state, a), vs \cup (IF IsVerdict(a) THEN {a.outcome} ELSE {}))
<1>1. vs = {} \/ vs = {"accepted"} \/ vs = {"wrong"} \/ vs = {"accepted", "wrong"}
  OBVIOUS
<1>2. CASE ~IsVerdict(a)
  BY <1>2 DEF Reflects, NewState, Opposite
<1>3. CASE IsVerdict(a)
  <2>1. a.outcome = "accepted" \/ a.outcome = "wrong"
    BY <1>3 DEF IsVerdict
  <2>2. NewState(state, a) = IF state = "conflict" \/ state = Opposite(a.outcome)
                             THEN "conflict" ELSE a.outcome
    BY <1>3 DEF NewState
  <2>3. CASE a.outcome = "accepted"
    <3>1. NewState(state, a) = IF state = "conflict" \/ state = "wrong"
                               THEN "conflict" ELSE "accepted"
      BY <2>2, <2>3 DEF Opposite
    <3>2. vs \cup {a.outcome} = IF "wrong" \in vs THEN {"accepted", "wrong"} ELSE {"accepted"}
      BY <2>3
    <3>3. ("wrong" \in vs) <=> (state = "conflict" \/ state = "wrong")
      BY <1>1 DEF Reflects
    <3> QED
      BY <1>3, <3>1, <3>2, <3>3 DEF Reflects
  <2>4. CASE a.outcome = "wrong"
    <3>1. NewState(state, a) = IF state = "conflict" \/ state = "accepted"
                               THEN "conflict" ELSE "wrong"
      BY <2>2, <2>4 DEF Opposite
    <3>2. vs \cup {a.outcome} = IF "accepted" \in vs THEN {"accepted", "wrong"} ELSE {"wrong"}
      BY <2>4
    <3>3. ("accepted" \in vs) <=> (state = "conflict" \/ state = "accepted")
      BY <1>1 DEF Reflects
    <3> QED
      BY <1>3, <3>1, <3>2, <3>3 DEF Reflects
  <2> QED
    BY <2>1, <2>3, <2>4
<1> QED
  BY <1>2, <1>3

\* The state of a row stands for the set of its definitive events, whatever
\* order they were recorded in (record_outcome).
THEOREM VerdictsReflected == StoreSpec => []VerdictIsOfEvents
<1>1. StoreInit => VerdictIsOfEvents
  BY DEF StoreInit, VerdictIsOfEvents, Verdicts, NoIntent
<1>2. DispatchInv /\ VerdictIsOfEvents /\ [StoreNext]_storeVars => VerdictIsOfEvents'
  <2> SUFFICES ASSUME DispatchInv, VerdictIsOfEvents, [StoreNext]_storeVars
               PROVE  VerdictIsOfEvents'
    OBVIOUS
  <2> USE DEF DispatchInv, StoreTypeOK, BusyHasKey
  <2>1. ASSUME UNCHANGED events,
               \A k \in Key : \/ intents'[k].state = intents[k].state
                              \/ /\ intents[k].state \in NotSentYet \cup {"none"}
                                 /\ intents'[k].state \notin {"conflict", "accepted", "wrong"}
        PROVE  VerdictIsOfEvents'
    BY <2>1 DEF VerdictIsOfEvents, Verdicts, NotSentYet
  <2>2. ASSUME NEW t \in Thread, Reserve(t) PROVE VerdictIsOfEvents'
    <3>1. sender[t].key \in Key
      BY <2>2 DEF Reserve
    <3> QED
      BY SMTT(20), <2>1, <2>2, <3>1 DEF Reserve, Exists, Intent
  <2>3. ASSUME NEW t \in Thread, MarkDispatchPossible(t) PROVE VerdictIsOfEvents'
    <3>1. sender[t].key \in Key
      BY <2>3 DEF MarkDispatchPossible
    <3> QED
      BY <2>1, <2>3, <3>1 DEF MarkDispatchPossible, Intent
  <2>4. ASSUME NEW k \in Key, ProveNotSent(k) PROVE VerdictIsOfEvents'
    BY <2>1, <2>4 DEF ProveNotSent, Intent
  <2>5. ASSUME NEW k \in Key, NEW a \in Answers[k], Answered(k, a) PROVE VerdictIsOfEvents'
    <3>1. a \in Answer
      OBVIOUS
    <3>2. /\ events' = events \cup {[key |-> k, answer |-> a]}
          /\ intents' = [intents EXCEPT ![k].state = NewState(@, a)]
      BY <2>5 DEF Answered, RecordOutcome
    <3>3. /\ intents'[k].state = NewState(intents[k].state, a)
          /\ \A l \in Key : l # k => intents'[l] = intents[l]
      BY <3>2 DEF Intent
    <3>4. intents[k].state \in IntentState
      BY DEF Intent
    <3>5. Reflects(intents[k].state, Verdicts(k))
      BY DEF VerdictIsOfEvents, Reflects
    <3>6. Reflects(intents'[k].state, Verdicts(k)')
      BY <3>1, <3>2, <3>3, <3>4, <3>5, VerdictsGrow, VerdictsType, NewStateReflects
    <3>7. ASSUME NEW l \in Key PROVE Reflects(intents'[l].state, Verdicts(l)')
      BY <3>1, <3>2, <3>3, <3>6, VerdictsGrow DEF VerdictIsOfEvents, Reflects
    <3> QED
      BY <3>7 DEF VerdictIsOfEvents, Reflects
  <2>6. ASSUME UNCHANGED <<intents, events>> PROVE VerdictIsOfEvents'
    BY <2>1, <2>6
  <2> QED
    BY <2>2, <2>3, <2>4, <2>5, <2>6
       DEF StoreNext, ThreadStep, Begin, NotCommitted, Send, StoreCrash, storeVars
<1> QED
  BY <1>1, <1>2, DispatchInvariant, PTL DEF StoreSpec

-----------------------------------------------------------------------------
(* The limit of the table. *)

Rows == {k \in Key : Exists(k)}

\* Threads that passed enforce_capacity for a row they have not made yet.
Newcomers == {t \in Thread : sender[t].pc = "admitted" /\ ~Exists(sender[t].key)}

\* enforce_capacity and reserve are two transactions: every thread but one may
\* have looked before the last free row was taken.
OvershootBounded == Cardinality(Rows) < MaxIntents + Cardinality(Thread)

RowsInv ==
    /\ IsFiniteSet(Rows)
    /\ Cardinality(Rows) + Cardinality(Newcomers) < MaxIntents + Cardinality(Thread)

\* The threads that are on their way are finitely many.
LEMMA NewcomersType ==
    ASSUME NEW ts \in SUBSET Thread
    PROVE  /\ IsFiniteSet(ts) /\ Cardinality(ts) \in Nat /\ Cardinality(Thread) \in Nat
           /\ Cardinality(ts) <= Cardinality(Thread)
           /\ \A us \in SUBSET ts : Cardinality(us) \in Nat /\ Cardinality(us) <= Cardinality(ts)
<1>1. IsFiniteSet(ts) /\ Cardinality(ts) <= Cardinality(Thread)
  BY SubmissionAssumption, FS_Subset
<1>2. \A us \in SUBSET ts : IsFiniteSet(us) /\ Cardinality(us) <= Cardinality(ts)
  BY <1>1, FS_Subset
<1> QED
  BY <1>1, <1>2, SubmissionAssumption, FS_CardinalityType

\* A step that makes no row and admits nobody for a new one keeps the bound.
LEMMA NoRowMade ==
    ASSUME RowsInv, Rows' = Rows, Newcomers' \subseteq Newcomers
    PROVE  RowsInv'
<1>1. Newcomers \in SUBSET Thread
  BY DEF Newcomers
<1>2. /\ Cardinality(Newcomers') \in Nat /\ Cardinality(Newcomers) \in Nat
      /\ Cardinality(Newcomers') <= Cardinality(Newcomers)
      /\ Cardinality(Rows) \in Nat /\ Cardinality(Thread) \in Nat
  BY <1>1, NewcomersType, FS_CardinalityType DEF RowsInv
<1> QED
  BY <1>2, SubmissionAssumption DEF RowsInv

\* The operations: a thread is admitted, makes the row it was admitted for, or
\* moves on; no operation takes a row away.
LEMMA RowsStep ==
    ASSUME DispatchInv, RowsInv, [StoreNext]_storeVars
    PROVE  RowsInv'
<1> USE DEF DispatchInv, StoreTypeOK
<1>1. ASSUME NEW t \in Thread, NEW k \in Key, Begin(t, k) PROVE RowsInv'
  <2>1. /\ sender' = [sender EXCEPT ![t] = [pc |-> "admitted", key |-> k]]
        /\ UNCHANGED intents
    BY <1>1 DEF Begin, Move
  <2>2. Rows' = Rows
    BY <2>1 DEF Rows, Exists
  <2>3. CASE Exists(k)
    <3>1. Newcomers' \subseteq Newcomers
      BY <2>1, <2>3 DEF Newcomers, Exists
    <3> QED
      BY <2>2, <3>1, NoRowMade
  <2>4. CASE ~Exists(k)
    <3>1. Cardinality(Rows) < MaxIntents
      <4>1. Recovery(k) # "proven_not_sent"
        BY <2>4 DEF Recovery, Exists, NotSentYet
      <4> QED
        BY <1>1, <4>1 DEF Begin, HasCapacity, Rows
    <3>2. Newcomers' \in SUBSET Thread
      BY DEF Newcomers
    <3>3. /\ Cardinality(Newcomers') \in Nat /\ Cardinality(Thread) \in Nat
          /\ Cardinality(Newcomers') <= Cardinality(Thread) /\ Cardinality(Rows) \in Nat
      BY <3>2, NewcomersType, FS_CardinalityType DEF RowsInv
    <3> QED
      BY <2>2, <3>1, <3>3, SubmissionAssumption DEF RowsInv
  <2> QED
    BY <2>3, <2>4
<1>2. ASSUME NEW t \in Thread, Reserve(t) PROVE RowsInv'
  <2> DEFINE k == sender[t].key
  <2>1. /\ sender[t].pc = "admitted" /\ k \in Key
        /\ \/ sender' = [sender EXCEPT ![t] = [pc |-> "reserved", key |-> k]]
           \/ sender' = [sender EXCEPT ![t] = Resting]
    BY <1>2 DEF Reserve, Move, Rest, BusyHasKey
  <2>2. CASE Exists(k)
    <3>1. UNCHANGED intents
      BY <1>2, <2>2 DEF Reserve
    <3>2. Rows' = Rows
      BY <3>1 DEF Rows, Exists
    <3>3. Newcomers' \subseteq Newcomers
      BY <2>1, <3>1 DEF Newcomers, Exists, Resting
    <3> QED
      BY <3>2, <3>3, NoRowMade
  <2>3. CASE ~Exists(k)
    <3>1. /\ intents'[k].state = "reserved"
          /\ \A l \in Key : l # k => intents'[l] = intents[l]
      BY <1>2, <2>1, <2>3 DEF Reserve, Intent
    <3>2. Rows' = Rows \cup {k} /\ k \notin Rows
      BY <2>1, <2>3, <3>1 DEF Rows, Exists
    <3>3. t \in Newcomers
      BY <2>1, <2>3 DEF Newcomers
    <3>4. Newcomers' \subseteq Newcomers \ {t}
      <4>1. ASSUME NEW u \in Newcomers' PROVE u \in Newcomers \ {t}
        <5>1. u \in Thread /\ sender'[u].pc = "admitted" /\ ~Exists(sender[u].key)'
          BY <4>1 DEF Newcomers
        <5>2. u # t
          BY <2>1, <5>1 DEF Resting
        <5>3. sender'[u] = sender[u]
          BY <2>1, <5>1, <5>2
        <5>4. sender[u].key \in Key
          BY <5>1, <5>3 DEF BusyHasKey
        <5>5. ~Exists(sender[u].key)
          BY <5>1, <5>3, <5>4, <3>1, <2>3 DEF Exists
        <5> QED
          BY <5>1, <5>2, <5>3, <5>5 DEF Newcomers
      <4> QED
        BY <4>1
    <3>5. /\ IsFiniteSet(Rows') /\ Cardinality(Rows) \in Nat
          /\ Cardinality(Rows') = Cardinality(Rows) + 1
      BY <3>2, FS_AddElement, FS_CardinalityType DEF RowsInv
    <3>6. /\ IsFiniteSet(Newcomers) /\ Newcomers \ {t} \in SUBSET Newcomers
          /\ Newcomers \in SUBSET Thread /\ Newcomers \ {t} \in SUBSET Thread
      BY NewcomersType DEF Newcomers
    <3>7. /\ Cardinality(Newcomers \ {t}) = Cardinality(Newcomers) - 1
          /\ Cardinality(Newcomers) \in Nat /\ Cardinality(Thread) \in Nat
          /\ Cardinality(Newcomers') \in Nat
          /\ Cardinality(Newcomers') <= Cardinality(Newcomers \ {t})
      BY <3>3, <3>4, <3>6, NewcomersType, FS_RemoveElement
    <3> QED
      BY <3>5, <3>7, SubmissionAssumption DEF RowsInv
  <2> QED
    BY <2>2, <2>3
<1>3. ASSUME NEW t \in Thread, NotCommitted(t) \/ Send(t) PROVE RowsInv'
  <2>1. sender' = [sender EXCEPT ![t] = Resting] /\ UNCHANGED intents
    BY <1>3 DEF NotCommitted, Send, Rest
  <2>2. Rows' = Rows /\ Newcomers' \subseteq Newcomers
    BY <2>1 DEF Rows, Newcomers, Exists, Resting
  <2> QED
    BY <2>2, NoRowMade
<1>4. ASSUME NEW k \in Key, NEW t \in Thread,
             \A l \in Key : Exists(l)' <=> Exists(l),
             \/ UNCHANGED sender
             \/ \E pc \in Step \ {"admitted"} :
                   sender' = [sender EXCEPT ![t] = [pc |-> pc, key |-> k]]
             \/ sender' = [sender EXCEPT ![t] = Resting]
      PROVE  RowsInv'
  <2>1. Rows' = Rows
    BY <1>4 DEF Rows
  <2>2. ASSUME NEW u \in Newcomers' PROVE u \in Newcomers
    <3>1. u \in Thread /\ sender'[u].pc = "admitted" /\ ~Exists(sender[u].key)'
      BY <2>2 DEF Newcomers
    <3>2. sender'[u] = sender[u]
      BY <1>4, <3>1 DEF Resting
    <3> QED
      BY <1>4, <3>1, <3>2 DEF Newcomers, BusyHasKey
  <2> QED
    BY <2>1, <2>2, NoRowMade
<1>5. ASSUME NEW t \in Thread, MarkDispatchPossible(t) PROVE RowsInv'
  <2> DEFINE k == sender[t].key
  <2>1. k \in Key
    BY <1>5 DEF MarkDispatchPossible, BusyHasKey
  <2>2. \A l \in Key : Exists(l)' <=> Exists(l)
    BY <1>5 DEF MarkDispatchPossible, Exists, NotSentYet, Intent
  <2>3. \/ sender' = [sender EXCEPT ![t] = [pc |-> "marked", key |-> k]]
        \/ sender' = [sender EXCEPT ![t] = Resting]
    BY <1>5 DEF MarkDispatchPossible, Move, Rest
  <2> QED
    BY <1>4, <2>1, <2>2, <2>3 DEF Step
<1>6. ASSUME NEW k \in Key, ProveNotSent(k) \/ \E a \in Answers[k] : Answered(k, a)
      PROVE  RowsInv'
  <2>1. \A l \in Key : Exists(l)' <=> Exists(l)
    <3>1. CASE ProveNotSent(k)
      BY <3>1 DEF ProveNotSent, Exists, NotSentYet, Intent
    <3>2. ASSUME NEW a \in Answers[k], Answered(k, a)
          PROVE  \A l \in Key : Exists(l)' <=> Exists(l)
      <4>1. a \in Answer /\ intents[k].state \in IntentState
        BY SubmissionAssumption DEF Intent
      <4>2. NewState(intents[k].state, a) # "none"
        BY <4>1, NewStateType
      <4> QED
        BY <3>2, <4>2 DEF Answered, RecordOutcome, Exists, Intent
    <3> QED
      BY <1>6, <3>1, <3>2
  <2>2. UNCHANGED sender
    BY <1>6 DEF ProveNotSent, Answered, RecordOutcome
  <2>3. Rows' = Rows
    BY <2>1 DEF Rows
  <2>4. Newcomers' \subseteq Newcomers
    BY <2>1, <2>2 DEF Newcomers, BusyHasKey
  <2> QED
    BY <2>3, <2>4, NoRowMade
<1>7. CASE StoreCrash
  <2>1. Rows' = Rows /\ Newcomers' \subseteq Newcomers
    BY <1>7 DEF StoreCrash, Rows, Exists, Newcomers, Resting
  <2> QED
    BY <2>1, NoRowMade
<1>8. CASE UNCHANGED storeVars
  <2>1. Rows' = Rows /\ Newcomers' \subseteq Newcomers
    BY <1>8 DEF storeVars, Rows, Exists, Newcomers
  <2> QED
    BY <2>1, NoRowMade
<1> QED
  BY <1>1, <1>2, <1>3, <1>5, <1>6, <1>7, <1>8 DEF StoreNext, ThreadStep

\* The table exceeds the limit of enforce_capacity by less than one row for each
\* thread of the sender, whatever the threads, crashes and failed commits
\* (enforce_capacity, reserve).
THEOREM CapacityOvershoot == StoreSpec => []OvershootBounded
<1>1. StoreInit => RowsInv
  <2> SUFFICES ASSUME StoreInit PROVE RowsInv
    OBVIOUS
  <2>1. Rows = {} /\ Newcomers = {}
    BY DEF StoreInit, Rows, Newcomers, Exists, NoIntent, Resting
  <2>2. Thread \in SUBSET Thread
    OBVIOUS
  <2> QED
    BY <2>1, <2>2, NewcomersType, FS_EmptySet, SubmissionAssumption DEF RowsInv
<1>2. DispatchInv /\ RowsInv /\ [StoreNext]_storeVars => RowsInv'
  BY RowsStep
<1>3. ASSUME RowsInv PROVE OvershootBounded
  <2>1. Newcomers \in SUBSET Thread
    BY DEF Newcomers
  <2>2. /\ Cardinality(Newcomers) \in Nat /\ Cardinality(Thread) \in Nat
        /\ Cardinality(Rows) \in Nat
    BY <1>3, <2>1, NewcomersType, FS_CardinalityType DEF RowsInv
  <2> QED
    BY <1>3, <2>2, SubmissionAssumption DEF RowsInv, OvershootBounded
<1> QED
  BY <1>1, <1>2, <1>3, DispatchInvariant, PTL DEF StoreSpec

-----------------------------------------------------------------------------
(* The store inside the composition. *)

\* A step of the projector leaves the store alone; every other step is one of
\* its operations or the death of its process.
THEOREM StoreImplemented == Spec => StoreSpec
<1>1. Init => StoreInit
  BY DEF Init
<1>2. [Next]_vars => [StoreNext]_storeVars
  <2> USE DEF vars, storeVars
  <2>1. Sends => StoreNext
    BY DEF Sends, StoreNext
  <2>2. Crash => StoreNext
    BY DEF Crash, StoreNext
  <2>3. ASSUME NEW w \in Writer, Projects(w) \/ Starts(w) \/ WriteFails(w)
        PROVE  UNCHANGED storeVars
    BY <2>3 DEF Projects, Starts, WriteFails, Snapshot, Replace, MarkPublished, Reconcile,
                CommitAndProject, BeginProject, BeginReconcile
  <2>4. FileLost \/ (\E k \in Key : CommitOnly(k)) => UNCHANGED storeVars
    BY DEF FileLost, CommitOnly
  <2>5. UNCHANGED vars => UNCHANGED storeVars
    OBVIOUS
  <2> HIDE DEF vars, storeVars
  <2> QED
    BY <2>1, <2>2, <2>3, <2>4, <2>5 DEF Next
<1> QED
  BY <1>1, <1>2, PTL DEF Spec, StoreSpec

\* Threads of the sender, late events and crashes, with entries committed and
\* projected next to them: one send per key (mark_dispatch_possible).
THEOREM SentOnceHere == Spec => []SentAtMostOnce
BY StoreImplemented, SentOnce, PTL

\* The same for what recover and the duplicate disposition remember.
THEOREM SendsRememberedHere == Spec => []SentIsNotForgotten
BY StoreImplemented, SendsRemembered, PTL

\* The same for the states of the rows an entry is committed from.
THEOREM VerdictsReflectedHere == Spec => []VerdictIsOfEvents
BY StoreImplemented, VerdictsReflected, PTL

\* The same for the rows of the table.
THEOREM CapacityOvershootHere == Spec => []OvershootBounded
BY StoreImplemented, CapacityOvershoot, PTL

-----------------------------------------------------------------------------
(* The file and its bookkeeping. *)

\* _path_lock has one holder, and only its holder is anywhere in project.
OneProjector == \A w \in Writer : writer[w].pc # "idle" => lock = {w}

\* What each writer knows of the file it is about to replace, or has replaced.
KnowsItsRevision ==
    \A w \in Writer :
        LET r == writer[w].revision
        IN /\ r \in 0..Len(entries)
           /\ writer[w].pc = "snapshot" =>
                  published <= r /\ (file # NoFile => file <= r)
           /\ writer[w].pc = "replaced" => (file # NoFile => file = r)

RevisionsAgree ==
    /\ Len(entries) \in Nat /\ published \in 0..Len(entries)
    /\ file # NoFile => file \in 0..Len(entries)
    /\ writer \in [Writer -> [pc : Place, revision : Nat]]

FileInv == RevisionsAgree /\ OneProjector /\ KnowsItsRevision /\ PublishedIsOnDisk

\* A commit only makes the list of entries longer.
LEMMA CommitGrows ==
    ASSUME NEW k \in Key, CommitEntry(k), entries \in Seq(Entry), intents \in [Key -> Intent]
    PROVE  entries' \in Seq(Entry) /\ Len(entries') = Len(entries) + 1
BY DEF CommitEntry, Entry

\* The entries are a sequence, and so their number is a revision.
EntriesOK == entries \in Seq(Entry) /\ intents \in [Key -> Intent]

LEMMA EntriesStep ==
    ASSUME EntriesOK, DispatchInv', [Next]_vars
    PROVE  EntriesOK' /\ Len(entries) \in Nat /\ Len(entries') \in Nat
             /\ Len(entries) <= Len(entries')
<1>1. intents' \in [Key -> Intent]
  BY DEF DispatchInv, StoreTypeOK
<1>2. ASSUME NEW k \in Key, CommitEntry(k)
      PROVE  entries' \in Seq(Entry) /\ Len(entries') = Len(entries) + 1
  BY <1>2, CommitGrows DEF EntriesOK
<1>3. (\E k \in Key : CommitEntry(k)) \/ UNCHANGED entries
  BY DEF Next, vars, projectorVars, Sends, Crash, FileLost, CommitOnly, Projects, Starts,
         WriteFails, Snapshot, Replace, MarkPublished, Reconcile, CommitAndProject,
         BeginProject, BeginReconcile
<1>4. Len(entries) \in Nat
  BY DEF EntriesOK
<1> QED
  BY <1>1, <1>2, <1>3, <1>4 DEF EntriesOK

\* A step of a writer, of the owner or of the environment keeps the file and
\* its bookkeeping in order, and takes no revision back.
LEMMA FileStep ==
    ASSUME FileInv, [Next]_vars, Len(entries') \in Nat, Len(entries) <= Len(entries')
    PROVE  FileInv' /\ (file # NoFile /\ file' # NoFile => file <= file')
<1> USE DEF FileInv, RevisionsAgree, OneProjector, KnowsItsRevision, PublishedIsOnDisk
<1>1. /\ \A pc \in Place, r \in Nat : [pc |-> pc, revision |-> r] \in [pc : Place, revision : Nat]
      /\ Waiting \in [pc : Place, revision : Nat]
      /\ Waiting.pc = "idle" /\ Waiting.revision = 0
  BY DEF Waiting, Place
<1>2. ASSUME NEW w \in Writer, LockIsFree(w), lock' = lock \cup {w},
             NEW pc \in {"locked", "reconcile"}, NEW r \in 0..Len(entries), MoveTo(w, pc, r),
             UNCHANGED <<published, file>>
      PROVE  FileInv' /\ (file # NoFile /\ file' # NoFile => file <= file')
  <2>1. writer' \in [Writer -> [pc : Place, revision : Nat]]
    BY <1>1, <1>2 DEF MoveTo, Place
  <2>2. \A v \in Writer : writer[v].pc = "idle"
    BY <1>2 DEF LockIsFree
  <2>3. /\ writer'[w].pc = pc /\ writer'[w].revision = r
        /\ \A v \in Writer : v # w => writer'[v] = writer[v]
    BY <1>2 DEF MoveTo
  <2>4. lock' = {w}
    BY <1>2 DEF LockIsFree
  <2>5. RevisionsAgree' /\ PublishedIsOnDisk'
    BY <1>2, <2>1
  <2>6. OneProjector'
    BY <2>2, <2>3, <2>4
  <2>7. KnowsItsRevision'
    BY <1>2, <2>2, <2>3
  <2> QED
    BY <1>2, <2>5, <2>6, <2>7
<1>3. ASSUME NEW w \in Writer, Leave(w), UNCHANGED <<published, file>>
      PROVE  FileInv' /\ (file # NoFile /\ file' # NoFile => file <= file')
  <2>1. /\ writer' \in [Writer -> [pc : Place, revision : Nat]]
        /\ writer'[w] = Waiting
        /\ \A v \in Writer : v # w => writer'[v] = writer[v]
    BY <1>1, <1>3 DEF Leave
  <2>2. \A v \in Writer : v # w /\ writer[v].pc # "idle" => lock' = {v}
    BY <1>3 DEF Leave
  <2>3. RevisionsAgree' /\ PublishedIsOnDisk'
    BY <1>3, <2>1
  <2>4. OneProjector'
    BY <1>1, <2>1, <2>2
  <2>5. KnowsItsRevision'
    <3>1. 0 \in 0..Len(entries')
      OBVIOUS
    <3>2. ASSUME NEW v \in Writer, v # w
          PROVE  /\ writer'[v].revision \in 0..Len(entries')
                 /\ writer'[v].pc = "snapshot" => published' <= writer'[v].revision
                        /\ (file' # NoFile => file' <= writer'[v].revision)
                 /\ writer'[v].pc = "replaced" => (file' # NoFile => file' = writer'[v].revision)
      <4>1. writer'[v] = writer[v] /\ writer[v].revision \in 0..Len(entries)
        BY <2>1, <3>2
      <4> QED
        BY <1>3, <4>1
    <3> QED
      BY <1>1, <2>1, <3>1, <3>2
  <2> QED
    BY <1>3, <2>3, <2>4, <2>5
<1>4. ASSUME NEW w \in Writer, Snapshot(w) PROVE FileInv' /\ UNCHANGED file
  <2>1. writer' = [writer EXCEPT ![w] = [pc |-> "snapshot", revision |-> Len(entries)]]
    BY <1>4 DEF Snapshot, MoveTo, StateRevision
  <2>2. writer' \in [Writer -> [pc : Place, revision : Nat]]
    BY <1>1, <2>1 DEF Place
  <2> QED
    BY <1>4, <2>1, <2>2 DEF Snapshot
<1>5. ASSUME NEW w \in Writer, Replace(w)
      PROVE  FileInv' /\ (file # NoFile /\ file' # NoFile => file <= file')
  <2> DEFINE r == writer[w].revision
  <2>1. /\ writer[w].pc = "snapshot" /\ lock = {w}
        /\ writer' = [writer EXCEPT ![w] = [pc |-> "replaced", revision |-> r]]
        /\ file' = r /\ UNCHANGED <<entries, published, lock>>
    BY <1>5 DEF Replace, MoveTo
  <2>2. writer' \in [Writer -> [pc : Place, revision : Nat]]
    BY <1>1, <2>1 DEF Place
  <2>3. \A v \in Writer : v # w => writer[v].pc = "idle"
    BY <2>1
  <2> QED
    BY <2>1, <2>2, <2>3
<1>6. ASSUME NEW w \in Writer, MarkPublished(w) PROVE FileInv' /\ UNCHANGED file
  <2> DEFINE r == writer[w].revision
  <2>1. /\ writer[w].pc = "replaced" /\ lock = {w}
        /\ writer' = [writer EXCEPT ![w] = Waiting] /\ lock' = lock \ {w}
        /\ published' = Greater(published, r) /\ UNCHANGED <<entries, file>>
    BY <1>6 DEF MarkPublished, Leave
  <2>2. \A v \in Writer : v # w => writer[v].pc = "idle"
    BY <2>1
  <2>3. \A v \in Writer : writer'[v].pc = "idle"
    BY <1>1, <2>1, <2>2
  <2> QED
    BY <1>1, <2>1, <2>2, <2>3 DEF Greater
<1>7. ASSUME NEW w \in Writer, Reconcile(w) PROVE FileInv' /\ UNCHANGED file
  <2> DEFINE r == writer[w].revision
  <2>1. /\ writer[w].pc = "reconcile" /\ lock = {w}
        /\ UNCHANGED <<entries, published, file, lock>>
        /\ \/ file = r /\ writer' = [writer EXCEPT ![w] = [pc |-> "replaced", revision |-> r]]
           \/ writer' = [writer EXCEPT ![w] = [pc |-> "locked", revision |-> 0]]
    BY <1>7 DEF Reconcile, MoveTo
  <2>2. writer' \in [Writer -> [pc : Place, revision : Nat]]
    BY <1>1, <2>1 DEF Place
  <2>3. RevisionsAgree' /\ PublishedIsOnDisk'
    BY <2>1, <2>2
  <2>4. OneProjector'
    BY <2>1
  <2>5. KnowsItsRevision'
    BY <2>1
  <2> QED
    BY <2>1, <2>3, <2>4, <2>5
<1>8. ASSUME NEW w \in Writer, Starts(w)
      PROVE  FileInv' /\ (file # NoFile /\ file' # NoFile => file <= file')
  <2>1. CASE \E k \in Key : CommitAndProject(w, k)
    BY <1>2, <2>1 DEF CommitAndProject
  <2>2. CASE BeginProject(w)
    BY <1>2, <2>2 DEF BeginProject
  <2>3. CASE BeginReconcile(w)
    BY <1>2, <2>3 DEF BeginReconcile, StateRevision
  <2> QED
    BY <1>8, <2>1, <2>2, <2>3 DEF Starts
<1>9. ASSUME NEW w \in Writer, WriteFails(w)
      PROVE  FileInv' /\ (file # NoFile /\ file' # NoFile => file <= file')
  BY <1>3, <1>9 DEF WriteFails
<1>10. CASE Crash
  <2>1. /\ writer' = [w \in Writer |-> Waiting] /\ UNCHANGED <<entries, published, file>>
    BY <1>10 DEF Crash
  <2> QED
    BY <1>1, <2>1
<1>11. CASE FileLost
  BY <1>11 DEF FileLost
<1>12. CASE Sends \/ (\E k \in Key : CommitOnly(k)) \/ UNCHANGED vars
  <2>1. UNCHANGED <<published, file, lock, writer>>
    BY <1>12 DEF Sends, CommitOnly, vars, projectorVars
  <2> QED
    BY <2>1
<1> QED
  BY <1>4, <1>5, <1>6, <1>7, <1>8, <1>9, <1>10, <1>11, <1>12 DEF Next, Projects

\* The bookkeeping, the file and every writer agree, and revisions only grow.
THEOREM FileInvariant == Spec => [](FileInv /\ EntriesOK)
<1>1. Init => FileInv /\ EntriesOK
  BY DEF Init, StoreInit, FileInv, RevisionsAgree, OneProjector, KnowsItsRevision,
         PublishedIsOnDisk, EntriesOK, Waiting, Place, NoIntent, Intent, IntentState
<1>2. FileInv /\ EntriesOK /\ DispatchInv' /\ [Next]_vars => (FileInv /\ EntriesOK)'
  BY EntriesStep, FileStep
<1> QED
  BY <1>1, <1>2, StoreImplemented, DispatchInvariant, PTL DEF Spec

\* Writers hold the lock, and no more is lost than the bound says.
LocksOK == lock \subseteq Writer /\ losses \in 0..MaxLosses

\* Every variable of the store and the projector keeps its type: no revision
\* that is published, written or remembered is beyond the entries there are.
THEOREM EvidenceTyped == Spec => []TypeOK
<1>1. Init => LocksOK
  BY LossesAssumption DEF Init, LocksOK
<1>2. LocksOK /\ [Next]_vars => LocksOK'
  BY LossesAssumption
     DEF LocksOK, Next, vars, projectorVars, Sends, Crash, FileLost, CommitOnly, Projects,
         Starts, WriteFails, Snapshot, Replace, MarkPublished, Reconcile, CommitAndProject,
         BeginProject, BeginReconcile, Leave
<1>3. ASSUME DispatchInv, FileInv, EntriesOK, LocksOK PROVE TypeOK
  <2>1. writer \in [Writer -> [pc : Place, revision : 0..Len(entries)]]
    <3>1. \A w \in Writer : writer[w] \in [pc : Place, revision : 0..Len(entries)]
      BY <1>3 DEF FileInv, RevisionsAgree, KnowsItsRevision
    <3> QED
      BY <1>3, <3>1 DEF FileInv, RevisionsAgree
  <2> QED
    BY <1>3, <2>1
       DEF TypeOK, DispatchInv, FileInv, RevisionsAgree, EntriesOK, LocksOK
<1> QED
  BY <1>1, <1>2, <1>3, FileInvariant, StoreImplemented, DispatchInvariant, PTL DEF Spec

\* A revision counts as published only when the file has it
\* (project, _mark_published, reconcile).
THEOREM BookkeepingFollowsFile == Spec => []PublishedIsOnDisk
<1>1. FileInv => PublishedIsOnDisk
  BY DEF FileInv
<1> QED
  BY <1>1, FileInvariant, PTL

\* No replacement takes back what an earlier one showed, however many threads
\* project at the same time (project under _path_lock).
THEOREM FileGrows == Spec => FileNeverGoesBack
<1>1. FileInv /\ EntriesOK /\ DispatchInv' /\ [Next]_vars
        => [file # NoFile /\ file' # NoFile => file <= file']_file
  BY EntriesStep, FileStep
<1> QED
  BY <1>1, FileInvariant, StoreImplemented, DispatchInvariant, PTL DEF Spec, FileNeverGoesBack

=============================================================================
