--------------------------- MODULE SubmissionState ---------------------------
(* submission_state.py and the qualification gate of verification.py: the     *)
(* durable table of candidate intents and of the outcome events about them,   *)
(* with the threads of the sender the module asks for, which reserves, marks  *)
(* and only then calls the trusted callback.  A commit may fail and a process *)
(* may die between any two steps; events arrive late, twice, out of order,    *)
(* and contradict each other.                                                 *)
EXTENDS Naturals, FiniteSets

CONSTANTS
    Key,        \* duplicate keys: a scope with the exact bytes of a candidate
    Applies,    \* keys whose scope applies to the current one
    WellFormed, \* keys whose candidate the format validator accepts
    Provenance, \* the evidence each key refers to
    Complete,   \* the evidence that is known and complete
    Answers,    \* what the adapter may say of a request for each key
    Early,      \* keys it may say something of before their request is sent
    Thread, NoKey,
    MaxIntents  \* the argument of enforce_capacity

VARIABLES
    intents,    \* submission_intents: key -> state, dispatch_possible
    events,     \* submission_events: what they say of which key
    sender,     \* where each thread of the sender is, and on which key
    sent        \* how often the callback was invoked for each key

storeVars == <<intents, events, sender, sent>>

IntentState == {"none", "reserved", "proven_not_sent", "dispatch_possible", "unknown",
                "wrong", "accepted", "reconcile", "conflict"}
AdapterOutcome == {"accepted", "wrong", "account_already_solved", "unknown"}

Intent == [state : IntentState, dispatch : BOOLEAN]
NoIntent == [state |-> "none", dispatch |-> FALSE]

\* definitive: the event is authoritative and attributable to the candidate.
Answer == [outcome : AdapterOutcome, definitive : BOOLEAN]
Event == [key : Key, answer : Answer]

ASSUME SubmissionAssumption ==
    /\ Applies \subseteq Key /\ WellFormed \subseteq Key /\ Early \subseteq Key
    /\ NoKey \notin Key /\ Answers \in [Key -> SUBSET Answer]
    /\ MaxIntents \in Nat \ {0}
    /\ IsFiniteSet(Thread)

Step == {"idle", "admitted", "reserved", "marked"}
Sender == [pc : Step, key : Key \cup {NoKey}]
Resting == [pc |-> "idle", key |-> NoKey]

StoreTypeOK ==
    /\ intents \in [Key -> Intent]
    /\ events \subseteq Event
    /\ sender \in [Thread -> Sender]
    /\ sent \in [Key -> Nat]

StoreInit ==
    /\ intents = [k \in Key |-> NoIntent]
    /\ events = {}
    /\ sender = [t \in Thread |-> Resting]
    /\ sent = [k \in Key |-> 0]

Exists(k) == intents[k].state # "none"
NotSentYet == {"reserved", "proven_not_sent"}

-----------------------------------------------------------------------------
(* qualify_candidate, duplicate_disposition, recover and enforce_capacity:    *)
(* what a thread reads before it reserves, and may find changed afterwards.   *)

DuplicateDisposition(k) ==
    CASE intents[k].state = "none" -> "new"
      [] intents[k].state \in NotSentYet -> "reserved"
      [] intents[k].state \in {"unknown", "reconcile"} -> "unknown"
      [] OTHER -> intents[k].state

Recovery(k) ==
    CASE intents[k].state = "none" -> "no_intent"
      [] intents[k].state \in NotSentYet -> "proven_not_sent"
      [] intents[k].state \in {"accepted", "wrong"} -> "settled"
      [] OTHER -> "reconcile"

Qualified(k) ==
    /\ k \in Applies
    /\ k \in WellFormed
    /\ Provenance[k] # {} /\ Provenance[k] \subseteq Complete
    /\ DuplicateDisposition(k) = "new"

HasCapacity == Cardinality({k \in Key : Exists(k)}) < MaxIntents

Move(t, pc, k) == sender' = [sender EXCEPT ![t] = [pc |-> pc, key |-> k]]
Rest(t) == sender' = [sender EXCEPT ![t] = Resting]

\* A new candidate is qualified; an intent that was never sent is resumed.
Begin(t, k) ==
    /\ sender[t].pc = "idle"
    /\ \/ Qualified(k) /\ HasCapacity
       \/ Recovery(k) = "proven_not_sent"
    /\ Move(t, "admitted", k)
    /\ UNCHANGED <<intents, events, sent>>

-----------------------------------------------------------------------------
(* The writing operations.  A commit that fails rolls back and raises, and    *)
(* the thread gives up.                                                       *)

NotCommitted(t) ==
    /\ sender[t].pc \in {"admitted", "reserved"}
    /\ Rest(t)
    /\ UNCHANGED <<intents, events, sent>>

\* reserve; the row of a duplicate is returned with dispatch_allowed
Reserve(t) ==
    LET k == sender[t].key
    IN /\ sender[t].pc = "admitted"
       /\ IF Exists(k)
          THEN UNCHANGED intents
          ELSE intents' = [intents EXCEPT ![k].state = "reserved"]
       /\ IF ~Exists(k) \/ intents[k].state \in NotSentYet
          THEN Move(t, "reserved", k) ELSE Rest(t)
       /\ UNCHANGED <<events, sent>>

\* Variant: a marker that is already there is no reason not to send.
MarkAnyway(t) ==
    LET k == sender[t].key
    IN /\ sender[t].pc = "reserved"
       /\ IF intents[k].state \in NotSentYet
          THEN intents' = [intents EXCEPT ![k].state = "dispatch_possible",
                                          ![k].dispatch = TRUE]
          ELSE UNCHANGED intents
       /\ Move(t, "marked", k)
       /\ UNCHANGED <<events, sent>>

MarkDispatchPossible(t) ==
    LET k == sender[t].key
    IN /\ sender[t].pc = "reserved"
       /\ IF intents[k].state \in NotSentYet
          THEN /\ intents' = [intents EXCEPT ![k].state = "dispatch_possible",
                                             ![k].dispatch = TRUE]
               /\ Move(t, "marked", k)
          ELSE UNCHANGED intents /\ Rest(t)
       /\ UNCHANGED <<events, sent>>

\* The trusted callback; what it answers comes as an event, now or later.
Send(t) ==
    /\ sender[t].pc = "marked"
    /\ sent' = [sent EXCEPT ![sender[t].key] = @ + 1]
    /\ Rest(t)
    /\ UNCHANGED <<intents, events>>

\* Variant: a proof is accepted for an intent whose dispatch was marked.
ProveAnyIntent(k) ==
    /\ intents[k].state \in NotSentYet \cup {"dispatch_possible"}
    /\ intents' = [intents EXCEPT ![k].state = "proven_not_sent"]
    /\ UNCHANGED <<events, sender, sent>>

ProveNotSent(k) ==
    /\ ~intents[k].dispatch
    /\ intents[k].state \in NotSentYet
    /\ intents' = [intents EXCEPT ![k].state = "proven_not_sent"]
    /\ UNCHANGED <<events, sender, sent>>

Opposite(state) == CASE state = "accepted" -> "wrong"
                     [] state = "wrong" -> "accepted"
                     [] OTHER -> "none"

IsVerdict(a) == a.definitive /\ a.outcome \in {"accepted", "wrong"}

\* Variant: the latest verdict is the one that counts.
LatestState(state, a) ==
    CASE IsVerdict(a) -> a.outcome
      [] ~IsVerdict(a) /\ state \in {"accepted", "wrong"} -> state
      [] OTHER -> "unknown"

NewState(state, a) ==
    CASE state = "conflict" -> "conflict"
      [] state # "conflict" /\ IsVerdict(a) ->
             IF state = Opposite(a.outcome) THEN "conflict" ELSE a.outcome
      [] ~IsVerdict(a) /\ state \in {"accepted", "wrong"} -> state
      [] OTHER -> IF a.outcome = "account_already_solved" THEN "reconcile" ELSE "unknown"

\* record_outcome, under an identity that is new; one that was recorded before
\* changes nothing, and is refused if it now stands for something else.
RecordOutcome(k, a) ==
    /\ Exists(k)
    /\ events' = events \cup {[key |-> k, answer |-> a]}
    /\ intents' = [intents EXCEPT ![k].state = NewState(@, a)]
    /\ UNCHANGED <<sender, sent>>

\* The adapter classifies what became of a request, or of an intent alone.
Answered(k, a) == (k \in Early \/ sent[k] > 0) /\ RecordOutcome(k, a)

\* Every thread of the sender's process dies.
StoreCrash ==
    /\ sender' = [t \in Thread |-> Resting]
    /\ UNCHANGED <<intents, events, sent>>

ThreadStep(t) ==
    \/ \E k \in Key : Begin(t, k)
    \/ NotCommitted(t) \/ Reserve(t) \/ MarkDispatchPossible(t) \/ Send(t)

StoreNext ==
    \/ \E t \in Thread : ThreadStep(t)
    \/ \E k \in Key : ProveNotSent(k)
    \/ \E k \in Key : \E a \in Answers[k] : Answered(k, a)
    \/ StoreCrash

StoreSpec == StoreInit /\ [][StoreNext]_storeVars

-----------------------------------------------------------------------------
(* Properties. *)

(* The callback is invoked at most once for a candidate in a scope, however   *)
(* many threads reserve it, resume it after a crash or fail to commit:        *)
(* mark_dispatch_possible answers True only once.                             *)
SentAtMostOnce == \A k \in Key : sent[k] <= 1

(* What was sent is never taken for unsent again: recover and the duplicate   *)
(* disposition keep asking for reconciliation or know the verdict.            *)
SentIsNotForgotten ==
    \A k \in Key : sent[k] > 0 =>
        /\ Recovery(k) \in {"reconcile", "settled"}
        /\ DuplicateDisposition(k) \notin {"new", "reserved"}

Verdicts(k) ==
    {e.answer.outcome : e \in {f \in events : f.key = k /\ IsVerdict(f.answer)}}

(* The verdict of a row is that of the set of its events, whatever order they *)
(* came in and how much vague evidence came between: one kind of definitive   *)
(* outcome is kept, two are a conflict for good, none settles nothing         *)
(* (record_outcome).                                                          *)
VerdictIsOfEvents ==
    \A k \in Key :
        /\ intents[k].state = "conflict" <=> Verdicts(k) = {"accepted", "wrong"}
        /\ intents[k].state = "accepted" <=> Verdicts(k) = {"accepted"}
        /\ intents[k].state = "wrong" <=> Verdicts(k) = {"wrong"}

=============================================================================
