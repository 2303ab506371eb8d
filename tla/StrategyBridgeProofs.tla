------------------------ MODULE StrategyBridgeProofs -------------------------
(***************************************************************************)
(* Proofs about the strategy bridge over the controller, for any scopes,   *)
(* candidates, limits, failures, catalogues and interrupts.  The argument  *)
(* is about who may touch an entry: the attempt in flight owns one that is *)
(* active or retired, the handoff one that awaits its candidate, and only  *)
(* its owner settles an open effect.                                       *)
(***************************************************************************)
EXTENDS StrategyBridge, FiniteSetTheorems, SequenceTheorems, WellFoundedInduction, TLAPS

-----------------------------------------------------------------------------
(* The inductive invariant. *)

\* A listed entry is filed under its own scope, a scope that was never listed
\* has no history, and a current scope is listed.
EntryFacts ==
    /\ \A s \in Scope :
           /\ entries[s].state # "unlisted" => entries[s].task.scope = s
           /\ entries[s].state = "unlisted" => entries[s].settled = {}
    /\ \A c \in Challenge :
           current[c] # NoScope => entries[current[c]].state # "unlisted"

\* The attempt in flight belongs to the bridge once it has started, its entry
\* has no open effect, and no sibling of it has one.
AttemptFacts ==
    /\ active # NoAttempt =>
           /\ active.scope \in Scope
           /\ entries[active.scope].state \in {"active", "superseded"}
           /\ \A t \in Siblings(active.scope) : entries[t].state \notin OpenStates
    /\ BeforeReport => active = bridge.attempt /\ active # NoAttempt
    /\ HandingOff => active = NoAttempt /\ Own \in Scope

\* What is used and what the attempt may still use fit the run's budgets.
BudgetFacts ==
    /\ used.models <= InTotal.models /\ used.tools <= InTotal.tools
    /\ active # NoAttempt =>
           /\ used.models + active.budget.models <= InTotal.models
           /\ used.tools + active.budget.tools <= InTotal.tools
    /\ BeforeReport =>
           /\ bridge.models <= bridge.attempt.budget.models
           /\ bridge.tools <= bridge.attempt.budget.tools

\* The entry being handed off is left to the bridge.
HandoffFacts ==
    HandingOff =>
        /\ bridge.candidate \in Candidate
        /\ entries[Own].state = "awaiting_candidate"
        /\ entries[Own].pending = bridge.candidate

BeforeSend == bridge.pc \in {"handoff", "qualify", "reserve", "checkpoint"}

\* What reached the platform is settled, or pending with an open effect.
ReachedIsKnown ==
    \A p \in reached :
        \/ p[2] \in entries[p[1]].settled
        \/ entries[p[1]].pending = p[2] /\ entries[p[1]].state \in OpenStates

EffectFacts ==
    /\ NoEffectForgotten /\ DeliveredOnce /\ ReachedIsKnown
    /\ BeforeSend => Handled \notin sent /\ Handled \notin reached

OwnershipInv ==
    EntryFacts /\ AttemptFacts /\ BudgetFacts /\ HandoffFacts /\ EffectFacts

-----------------------------------------------------------------------------
(* The operators of the controller. *)

\* Every classified failure of a tool is a failure.
LEMMA ClassifiedType ==
    ASSUME NEW kind \in FailureKind, NEW operation \in Operation
    PROVE  Classified(kind, operation) \in Failure
BY DEF Classified, Failure, Subsystem, Operation, FailureKind

\* The wait before a retry is a number.
LEMMA DelayType ==
    ASSUME NEW f \in Failure, NEW n \in Nat
    PROVE  RetryDelay(f, n) \in Int
<1>1. 2^n \in Int
  BY SMT
<1>2. MaxBackoff \in Int /\ BaseDelay \in Int
  BY LimitsAssumption
<1>3. BaseDelay * 2^n \in Int
  BY <1>1, <1>2
<1>4. f.retryAfter \in Int
  BY DEF Failure
<1> QED
  BY <1>2, <1>3, <1>4 DEF RetryDelay, AtLeast, AtMost

\* A retry or a repair is decided only while its counter has room.
LEMMA DecisionBounds ==
    ASSUME NEW f \in Failure, NEW m \in Nat, NEW n \in Nat, NEW left \in Int
    PROVE  /\ RetryDecision(f, m, n, left) = "retry" => m < MaxRetries
           /\ RetryDecision(f, m, n, left) = "repair" => n < MaxRepairs
<1>1. LocalDecision(f, m, n, left) = "retry" => m < MaxRetries
  BY DEF LocalDecision, MayRetry
<1>2. LocalDecision(f, m, n, left) = "repair" => n < MaxRepairs
  BY DEF LocalDecision
<1>3. OwnersDecision(f) \notin {"retry", "repair"}
  BY DEF OwnersDecision
<1> QED
  BY <1>1, <1>2, <1>3 DEF RetryDecision

\* What an operator may make of an entry without opening an effect or passing
\* the scope over.
SameHistory(e, f) ==
    /\ f \in Entry /\ f.task = e.task /\ f.settled = e.settled
    /\ f.bypasses = e.bypasses

\* The last lines of finish_attempt only close a scope.
LEMMA ExhaustKeeps ==
    ASSUME NEW e \in Entry
    PROVE  /\ SameHistory(e, Exhaust(e)) /\ Exhaust(e).pending = e.pending
           /\ Exhaust(e).state \in {e.state, "terminal"}
<1> DEFINE g == [e EXCEPT !.state = "terminal", !.stalled = FALSE, !.readyAt = NoTime]
<1>1. NoTime \in Int
  BY DEF NoTime
<1>2. g \in Entry /\ g.task = e.task /\ g.settled = e.settled /\ g.pending = e.pending
        /\ g.state = "terminal" /\ g.bypasses = e.bypasses
  BY <1>1 DEF Entry, WorkState
<1>3. Exhaust(e) \in {e, g}
  BY DEF Exhaust
<1> QED
  BY <1>2, <1>3 DEF SameHistory

\* An entry that a failed attempt leaves awaits no candidate.
LEMMA FailedKeeps ==
    ASSUME NEW e \in Entry, e.state = "deferred", NEW report \in Report,
           report.failure \in Failure, now \in Time
    PROVE  /\ SameHistory(e, Failed(e, report))
           /\ Failed(e, report).state \in {"deferred", "unresolved", "terminal", "ready"}
<1> DEFINE f == report.failure
           d == RetryDecision(f, e.retries, e.repairs, AtLeast(0, RunSeconds - now))
<1>1. /\ e.retries \in 0..MaxRetries /\ e.repairs \in 0..MaxRepairs
      /\ MaxRetries \in Nat /\ MaxRepairs \in Nat /\ now \in Int /\ RunSeconds \in Int
  BY LimitsAssumption, ControllerAssumption DEF Entry, Time
<1>2. AtLeast(0, RunSeconds - now) \in Int
  BY <1>1 DEF AtLeast
<1>3. d = "retry" => e.retries + 1 \in 0..MaxRetries
  BY <1>1, <1>2, DecisionBounds
<1>4. d = "repair" => e.repairs + 1 \in 0..MaxRepairs
  BY <1>1, <1>2, DecisionBounds
<1>5. f.subsystem \in Subsystem
  BY DEF Failure
<1>6. now + RetryDelay(f, e.retries) \in Int
  BY <1>1, DelayType
<1>7. ASSUME NEW g \in Entry, g.task = e.task, g.settled = e.settled,
             g.bypasses = e.bypasses, g.state \in {"deferred", "unresolved", "terminal", "ready"}
      PROVE  /\ SameHistory(e, Exhaust(g))
             /\ Exhaust(g).state \in {"deferred", "unresolved", "terminal", "ready"}
  BY <1>7, ExhaustKeeps DEF SameHistory
<1> HIDE DEF d
<1>8. CASE d = "reconcile"
  BY <1>8 DEF Failed, SameHistory, Entry, WorkState, d
<1>9. CASE d = "requalify"
  BY <1>9 DEF Failed, SameHistory, Entry, WorkState, d
<1>10. CASE d = "block_subsystem"
  <2>1. [e EXCEPT !.blockedOn = f.subsystem] \in Entry
    BY <1>5 DEF Entry
  <2> QED
    BY <1>10, <1>7, <2>1 DEF Failed, Entry, d
<1>11. CASE d = "stop_operation"
  BY <1>11 DEF Failed, SameHistory, Entry, WorkState, d
<1>12. CASE d = "retry"
  <2>1. [e EXCEPT !.retries = @ + 1, !.readyAt = now + RetryDelay(f, e.retries)] \in Entry
    BY <1>3, <1>6, <1>12 DEF Entry
  <2> QED
    BY <1>12, <1>7, <2>1 DEF Failed, Entry, d
<1>13. CASE d = "repair"
  <2>1. [e EXCEPT !.repairs = @ + 1, !.repairNext = TRUE, !.state = "ready"] \in Entry
    BY <1>4, <1>13 DEF Entry, WorkState
  <2> QED
    BY <1>13, <1>7, <2>1 DEF Failed, Entry, d
<1>14. CASE d \notin {"reconcile", "requalify", "block_subsystem", "stop_operation",
                      "retry", "repair"}
  BY <1>14, <1>7 DEF Failed, d
<1> QED
  BY <1>8, <1>9, <1>10, <1>11, <1>12, <1>13, <1>14

\* Observing evidence changes what is known of a scope, and nothing of what may
\* be open.
LEMMA ObservedKeeps ==
    ASSUME NEW e \in Entry, NEW evidence \in SUBSET Evidence, revision \in Nat
    PROVE  /\ SameHistory(e, Observed(e, evidence))
           /\ Observed(e, evidence).pending = e.pending
           /\ Observed(e, evidence).state = e.state
           /\ Observed(e, evidence).continuations = e.continuations
<1> DEFINE g == [e EXCEPT !.fingerprints = @ \cup evidence, !.progress = revision + 1]
<1>1. e.fingerprints \cup evidence \in SUBSET Evidence /\ revision + 1 \in Nat
  BY DEF Entry
<1>2. /\ g \in Entry /\ g.task = e.task /\ g.settled = e.settled /\ g.pending = e.pending
      /\ g.state = e.state /\ g.continuations = e.continuations
      /\ g.bypasses = e.bypasses
  BY <1>1 DEF Entry
<1>3. Observed(e, evidence) \in {e, g}
  BY DEF Observed
<1> QED
  BY <1>2, <1>3 DEF SameHistory

\* A continuation makes a scope ready.
LEMMA ContinuedKeeps ==
    ASSUME NEW e \in Entry, e.continuations < MaxContinuations
    PROVE  /\ SameHistory(e, Continued(e)) /\ Continued(e).pending = e.pending
           /\ Continued(e).state = "ready"
<1>1. e.continuations + 1 \in 0..MaxContinuations
  BY ControllerAssumption DEF Entry
<1> QED
  BY <1>1 DEF Continued, SameHistory, Entry, WorkState

\* A candidate is awaited only if it is new to the scope.
LEMMA ProgressedKeeps ==
    ASSUME NEW e \in Entry, e.state = "deferred", NEW report \in Report, revision \in Nat
    PROVE  /\ SameHistory(e, Progressed(e, report))
           /\ \/ Progressed(e, report).state \in {"deferred", "terminal", "ready"}
              \/ /\ Progressed(e, report).state = "awaiting_candidate"
                 /\ Progressed(e, report).pending = report.candidate
                 /\ report.candidate \in Candidate \ e.settled
<1> DEFINE seen == Observed(e, report.evidence)
           fresh == Fresh(e, report.evidence)
           Fine(g) == SameHistory(e, g) /\ g.state \in {"deferred", "terminal", "ready"}
<1>1. /\ SameHistory(e, seen) /\ seen.pending = e.pending /\ seen.state = "deferred"
      /\ seen.continuations = e.continuations
  BY ObservedKeeps DEF Report
<1>2. ASSUME NEW g \in Entry, Fine(g) PROVE Fine(Exhaust(g))
  BY <1>2, ExhaustKeeps DEF SameHistory
<1> HIDE DEF seen
<1>3. CASE report.candidate \in Candidate \ e.settled
  <2>1. Progressed(e, report) =
            [seen EXCEPT !.pending = report.candidate, !.state = "awaiting_candidate"]
    BY <1>3 DEF Progressed, seen
  <2> QED
    BY <1>1, <1>3, <2>1 DEF SameHistory, Entry, WorkState
<1>4. CASE report.candidate \in e.settled
  <2>1. Progressed(e, report) = Exhaust(seen)
    BY <1>4 DEF Progressed, seen
  <2> QED
    BY <1>1, <1>2, <2>1 DEF SameHistory
<1>5. CASE /\ report.candidate \notin Candidate \ e.settled /\ report.candidate \notin e.settled
           /\ fresh # {} /\ e.continuations < MaxContinuations
  <2>1. Progressed(e, report) = Exhaust(Continued(seen))
    BY <1>5 DEF Progressed, seen
  <2>2. Fine(Continued(seen)) /\ Continued(seen) \in Entry
    BY <1>1, <1>5, ContinuedKeeps DEF SameHistory
  <2> QED
    BY <1>2, <2>1, <2>2
<1>6. CASE /\ report.candidate \notin Candidate \ e.settled /\ report.candidate \notin e.settled
           /\ ~(fresh # {} /\ e.continuations < MaxContinuations)
  <2> DEFINE g == [seen EXCEPT !.stalled = (fresh = {})]
  <2>1. Progressed(e, report) = Exhaust(g)
    BY <1>6 DEF Progressed, seen
  <2>2. Fine(g) /\ g \in Entry
    BY <1>1 DEF SameHistory, Entry
  <2> QED
    BY <1>2, <2>1, <2>2
<1> QED
  BY <1>3, <1>4, <1>5, <1>6

\* What finish_attempt makes of the entry of the attempt: its history is kept,
\* and the only candidate it may await is the one reported, never a settled one.
LEMMA FinishedKeeps ==
    ASSUME ControllerTypeOK, active.scope \in Scope, NEW report \in Report
    PROVE  LET e == entries[active.scope]
               f == Finished(report)
           IN /\ SameHistory(e, f) /\ f.state # "unlisted"
              /\ f.state = "awaiting_candidate" =>
                     /\ f.pending = report.candidate
                     /\ report.candidate \in Candidate \ e.settled
<1> DEFINE e == [entries[active.scope] EXCEPT !.state = "deferred", !.readyAt = NoTime,
                                              !.stalled = FALSE]
           Fine(g) == SameHistory(e, g) /\ g.state \notin {"unlisted", "awaiting_candidate"}
<1>0. /\ entries[active.scope] \in Entry /\ now \in Time /\ revision \in Nat
      /\ NoTime \in Int
  BY DEF ControllerTypeOK, NoTime
<1>1. /\ e \in Entry /\ SameHistory(entries[active.scope], e) /\ e.state = "deferred"
  BY <1>0 DEF SameHistory, Entry, WorkState
<1>2. ASSUME NEW g, SameHistory(e, g) PROVE SameHistory(entries[active.scope], g)
  BY <1>1, <1>2 DEF SameHistory
<1>3. \A g \in Entry : Fine(g) => Fine(Exhaust(g))
  BY ExhaustKeeps DEF SameHistory
<1> HIDE DEF e
<1>4. CASE report.failure # NoFailure
  <2>1. report.failure \in Failure
    BY <1>4 DEF Report
  <2>2. Finished(report) = Failed(e, report)
    BY <1>4 DEF Finished, e
  <2> QED
    BY <1>0, <1>1, <1>2, <2>1, <2>2, FailedKeeps
<1>5. CASE report.failure = NoFailure /\ ~IsCurrent(active.scope)
  <2>1. Finished(report) = [e EXCEPT !.state = "superseded"]
    BY <1>5 DEF Finished, e
  <2> QED
    BY <1>1, <1>2, <2>1 DEF SameHistory, Entry, WorkState
<1>6. CASE /\ report.failure = NoFailure /\ IsCurrent(active.scope) /\ IsObserved(report)
  <2>1. Finished(report) = Progressed(e, report)
    BY <1>6 DEF Finished, e
  <2>2. e.settled = entries[active.scope].settled
    BY <1>1 DEF SameHistory
  <2> QED
    BY <1>0, <1>1, <1>2, <2>1, <2>2, ProgressedKeeps
<1>7. CASE /\ report.failure = NoFailure /\ IsCurrent(active.scope) /\ ~IsObserved(report)
  <2> DEFINE g == [e EXCEPT !.pending = report.candidate]
  <2>1. Finished(report) \in {Exhaust(e), Exhaust(g)}
    BY <1>7 DEF Finished, e
  <2>2. g \in Entry /\ Fine(g) /\ Fine(e)
    BY <1>1 DEF SameHistory, Entry, Report
  <2> QED
    BY <1>1, <1>2, <1>3, <2>1, <2>2
<1> QED
  BY <1>4, <1>5, <1>6, <1>7

\* The owner's verdict closes an entry or leaves it open with its candidate.
LEMMA ResolvedKeeps ==
    ASSUME NEW e \in Entry, NEW outcome \in CandidateOutcome, e.pending \in Candidate,
           e.state \in OpenStates
    PROVE  LET f == Resolved(e, outcome)
           IN /\ f \in Entry /\ f.task = e.task /\ f.state # "unlisted"
              /\ f.bypasses = e.bypasses
              /\ f.settled = IF outcome \in {"wrong", "accepted"}
                             THEN e.settled \cup {e.pending} ELSE e.settled
              /\ outcome = "ambiguous" => f.pending = e.pending /\ f.state = "unresolved"
              /\ outcome = "already_solved" => f = e
              /\ outcome \notin {"ambiguous", "already_solved"} => f.state \notin OpenStates
<1>1. CASE outcome = "ambiguous"
  BY <1>1 DEF Resolved, Entry, WorkState
<1>2. CASE outcome = "already_solved"
  BY <1>2 DEF Resolved, OpenStates
<1>3. CASE outcome \notin {"ambiguous", "already_solved"}
  <2> DEFINE set == IF outcome \in {"wrong", "accepted"} THEN e.settled \cup {e.pending}
                    ELSE e.settled
             state == IF outcome = "accepted" THEN "terminal" ELSE "deferred"
             f == [e EXCEPT !.pending = NoCandidate, !.settled = set, !.state = state,
                            !.stalled = FALSE]
  <2>1. set \in SUBSET Candidate
    BY DEF Entry
  <2>2. Resolved(e, outcome) = f
    BY <1>3 DEF Resolved
  <2> HIDE DEF set
  <2>3. f \in Entry /\ f.task = e.task /\ f.settled = set
          /\ f.bypasses = e.bypasses /\ f.state \in {"terminal", "deferred"}
    BY <2>1 DEF Entry, WorkState
  <2> QED
    BY <1>3, <2>2, <2>3 DEF OpenStates, set
<1> QED
  BY <1>1, <1>2, <1>3

-----------------------------------------------------------------------------
(* Operations of the controller that open no effect and settle none.          *)

Retained == {"active", "superseded"}

\* No candidate is settled, no effect is opened, and none that has a candidate
\* is closed; the entry of the attempt stays one of an attempt.
Quiet ==
    \A s \in Scope :
        /\ entries'[s].settled = entries[s].settled
        /\ entries'[s].state \in OpenStates => entries[s].state \in OpenStates
        /\ entries[s].state \in OpenStates /\ entries[s].pending # NoCandidate =>
               /\ entries'[s].state = entries[s].state
               /\ entries'[s].pending = entries[s].pending
        /\ entries[s].state \in Retained => entries'[s].state \in Retained

QuietStep ==
    entries' \in [Scope -> Entry] /\ EntryFacts' /\ Quiet

\* No scope is passed over, and none takes the place of another.
SameAge ==
    UNCHANGED current /\ \A s \in Scope : entries'[s].bypasses = entries[s].bypasses

\* One deferred entry, or one whose effect has no candidate, goes on.
LEMMA OneEntryIsQuiet ==
    ASSUME entries \in [Scope -> Entry], EntryFacts,
           NEW s \in Scope, NEW f, SameHistory(entries[s], f),
           f.state \notin OpenStates \cup {"unlisted"},
           \/ entries[s].state = "deferred"
           \/ entries[s].state = "unresolved" /\ entries[s].pending = NoCandidate,
           entries' = [entries EXCEPT ![s] = f],
           current \in [Challenge -> Scope \cup {NoScope}], UNCHANGED current
    PROVE  QuietStep /\ SameAge
<1>1. \A t \in Scope : entries'[t] = IF t = s THEN f ELSE entries[t]
  OBVIOUS
<1>2. entries' \in [Scope -> Entry]
  BY DEF SameHistory
<1>3. EntryFacts'
  BY <1>1 DEF EntryFacts, SameHistory
<1>4. Quiet
  BY <1>1 DEF Quiet, SameHistory, OpenStates, Retained
<1>5. SameAge
  BY <1>1 DEF SameAge, SameHistory
<1> QED
  BY <1>2, <1>3, <1>4, <1>5 DEF QuietStep

\* Nothing happens to the entries.
LEMMA SameEntriesAreQuiet ==
    ASSUME entries \in [Scope -> Entry], EntryFacts, UNCHANGED <<entries, current>>
    PROVE  QuietStep /\ SameAge
BY DEF QuietStep, EntryFacts, Quiet, Retained, SameAge

\* update_catalogue renews the metadata of current scopes, lists new ones and
\* retires those they replace, unless an effect of theirs is open.
LEMMA CatalogueStep ==
    ASSUME ControllerTypeOK, EntryFacts, NEW batch \in Batches, UpdateCatalogue(batch)
    PROVE  ControllerTypeOK' /\ QuietStep
<1> DEFINE Replaced == {current[ChallengeOf[task.scope]] : task \in
                           {u \in batch : ~IsCurrent(u.scope)}} \ {NoScope}
           Item(s) == {task \in batch : task.scope = s}
           The(s) == CHOOSE task \in Item(s) : TRUE
           Renewed(s) == [entries[s] EXCEPT !.task = The(s)]
<1>1. /\ Qualified(batch)
      /\ entries' = [s \in Scope |->
              CASE Item(s) # {} /\ IsCurrent(s) -> Renewed(s)
                [] Item(s) # {} /\ ~IsCurrent(s) -> Listed(The(s))
                [] Item(s) = {} /\ s \in Replaced -> Superseded(s)
                [] OTHER -> entries[s]]
      /\ current' = [c \in Challenge |->
              IF \E task \in batch : ChallengeOf[task.scope] = c
              THEN CHOOSE s \in Scope : ChallengeOf[s] = c /\ Item(s) # {}
              ELSE current[c]]
      /\ idleSince' \in {idleSince, NoTime}
      /\ UNCHANGED <<now, blocked, active, claimed, stopped, serial, revision, used>>
  BY DEF UpdateCatalogue
<1>2. batch \subseteq Tasks /\ \A task \in batch : task.scope \in Scope
  BY ControllerAssumption DEF Task
<1>3. \A s \in Scope : Item(s) # {} => The(s) \in Tasks /\ The(s).scope = s
  BY <1>2
<1>4. \A s \in Scope : Item(s) # {} /\ ~IsCurrent(s) => entries[s].state = "unlisted"
  BY <1>1 DEF Qualified
<1>5. ASSUME NEW s \in Scope
      PROVE  /\ entries'[s] \in Entry
             /\ entries'[s].state # "unlisted" => entries'[s].task.scope = s
             /\ entries'[s].state = "unlisted" =>
                    entries'[s].settled = {} /\ entries[s].state = "unlisted" /\ Item(s) = {}
             /\ entries'[s].settled = entries[s].settled
             /\ entries'[s].state \in OpenStates => entries[s].state \in OpenStates
             /\ entries[s].state \in OpenStates /\ entries[s].pending # NoCandidate =>
                    /\ entries'[s].state = entries[s].state
                    /\ entries'[s].pending = entries[s].pending
             /\ entries[s].state \in Retained => entries'[s].state \in Retained
  <2> HIDE DEF The
  <2>0. /\ entries[s] \in Entry
        /\ entries[s].state # "unlisted" => entries[s].task.scope = s
        /\ entries[s].state = "unlisted" => entries[s].settled = {}
    BY DEF ControllerTypeOK, EntryFacts
  <2>1. CASE Item(s) # {} /\ IsCurrent(s)
    <3>1. entries'[s] = Renewed(s)
      BY <1>1, <2>1
    <3>2. entries[s].state # "unlisted"
      <4>1. /\ ChallengeOf[s] \in Challenge /\ current[ChallengeOf[s]] = s
            /\ s # NoScope
        BY <2>1, ControllerAssumption DEF IsCurrent
      <4> QED
        BY <4>1 DEF EntryFacts
    <3> QED
      BY <1>3, <2>0, <2>1, <3>1, <3>2 DEF Entry
  <2>2. CASE Item(s) # {} /\ ~IsCurrent(s)
    <3>1. entries'[s] = Listed(The(s))
      BY <1>1, <2>2
    <3>2. entries[s].state = "unlisted"
      BY <1>4, <2>2
    <3>3. /\ Listed(The(s)) \in Entry /\ Listed(The(s)).task = The(s)
          /\ Listed(The(s)).state = "ready" /\ Listed(The(s)).settled = {}
      BY <1>3, <2>2, ControllerAssumption, LimitsAssumption
         DEF Listed, Entry, WorkState, Subsystem, NoTime
    <3> QED
      BY <1>3, <2>0, <2>2, <3>1, <3>2, <3>3 DEF OpenStates, Retained
  <2>3. CASE Item(s) = {} /\ s \in Replaced
    <3>1. entries'[s] = Superseded(s)
      BY <1>1, <2>3
    <3>2. \E c \in Challenge : current[c] = s /\ s # NoScope
      BY <1>2, <2>3, ControllerAssumption
    <3>3. Superseded(s) \in {entries[s], [entries[s] EXCEPT !.state = "superseded"]}
            /\ (entries[s].state \in OpenStates => Superseded(s) = entries[s])
      BY DEF Superseded
    <3>4. entries[s].state # "unlisted"
      BY <3>2 DEF EntryFacts
    <3> QED
      BY <2>0, <3>1, <3>3, <3>4 DEF Entry, WorkState, OpenStates, Retained
  <2>4. CASE Item(s) = {} /\ s \notin Replaced
    <3>1. entries'[s] = entries[s]
      BY <1>1, <2>4
    <3> QED
      BY <2>0, <2>4, <3>1
  <2> QED
    BY <2>1, <2>2, <2>3, <2>4
<1>6. entries' \in [Scope -> Entry]
  BY <1>1, <1>5
<1>7. ASSUME NEW c \in Challenge
      PROVE  /\ current'[c] \in Scope \cup {NoScope}
             /\ current'[c] # NoScope => entries'[current'[c]].state # "unlisted"
  <2>1. CASE \E task \in batch : ChallengeOf[task.scope] = c
    <3>1. \E s \in Scope : ChallengeOf[s] = c /\ Item(s) # {}
      BY <1>2, <2>1
    <3>2. current'[c] \in Scope /\ Item(current'[c]) # {}
      BY <1>1, <2>1, <3>1
    <3> QED
      BY <1>5, <3>2
  <2>2. CASE ~\E task \in batch : ChallengeOf[task.scope] = c
    <3>1. current'[c] = current[c]
      BY <1>1, <2>2
    <3>2. current[c] \in Scope \cup {NoScope}
      BY DEF ControllerTypeOK
    <3> QED
      BY <1>5, <3>1, <3>2 DEF EntryFacts
  <2> QED
    BY <2>1, <2>2
<1>8. current' \in [Challenge -> Scope \cup {NoScope}]
  BY <1>1, <1>7
<1>9. ControllerTypeOK'
  BY <1>1, <1>6, <1>8 DEF ControllerTypeOK
<1>10. EntryFacts'
  BY <1>5, <1>7 DEF EntryFacts
<1> QED
  BY <1>5, <1>6, <1>9, <1>10 DEF QuietStep, Quiet

\* A controller step that leaves all but the named variables alone is
\* well-typed if these are.
LEMMA OwnerStepType ==
    ASSUME ControllerTypeOK, entries' \in [Scope -> Entry],
           UNCHANGED <<now, current, active, claimed, stopped, serial, used>>,
           blocked' \subseteq Subsystem, idleSince' \in {idleSince, NoTime},
           revision' \in {revision, revision + 1}
    PROVE  ControllerTypeOK'
<1>1. revision' \in Nat
  BY DEF ControllerTypeOK
<1> QED
  BY <1>1 DEF ControllerTypeOK

\* What owners tell about one deferred scope.
LEMMA OwnersWordIsQuiet ==
    ASSUME ControllerTypeOK, EntryFacts, NEW s \in Scope,
           \/ ProposeApproach(s)
           \/ Requalified(s)
           \/ ReconciledEffect(s)
           \/ \E e \in SUBSET Evidence : ObserveEvidence(s, e)
    PROVE  ControllerTypeOK' /\ QuietStep /\ SameAge /\ UNCHANGED <<active, used>>
<1> DEFINE e == entries[s]
<1>1. /\ entries \in [Scope -> Entry] /\ e \in Entry /\ revision \in Nat
      /\ current \in [Challenge -> Scope \cup {NoScope}] /\ blocked \subseteq Subsystem
  BY DEF ControllerTypeOK
<1>2. CASE ProposeApproach(s)
  <2> DEFINE f == [e EXCEPT !.approaches = @ + 1, !.continuations = 0, !.state = "ready",
                            !.stalled = FALSE]
  <2>1. e.state = "deferred" /\ e.approaches < MaxAttempts /\ Woken(s, f) /\ UNCHANGED revision
    BY <1>2 DEF ProposeApproach
  <2>2. e.approaches + 1 \in 1..MaxAttempts /\ 0 \in 0..MaxContinuations
    BY <1>1, <2>1, ControllerAssumption DEF Entry
  <2>3. SameHistory(e, f) /\ f.state = "ready"
    BY <1>1, <2>2 DEF SameHistory, Entry, WorkState
  <2> HIDE DEF f
  <2>4. QuietStep /\ SameAge
    BY <1>1, <2>1, <2>3, OneEntryIsQuiet DEF Woken, OpenStates
  <2> QED
    BY <1>1, <2>1, <2>4, OwnerStepType DEF Woken, QuietStep
<1>3. CASE Requalified(s)
  <2> DEFINE f == [e EXCEPT !.prerequisite = FALSE, !.state = "ready", !.stalled = FALSE]
  <2>1. e.state = "deferred" /\ Woken(s, f) /\ UNCHANGED revision
    BY <1>3 DEF Requalified
  <2>2. SameHistory(e, f) /\ f.state = "ready"
    BY <1>1 DEF SameHistory, Entry, WorkState
  <2> HIDE DEF f
  <2>3. QuietStep /\ SameAge
    BY <1>1, <2>1, <2>2, OneEntryIsQuiet DEF Woken, OpenStates
  <2> QED
    BY <1>1, <2>1, <2>3, OwnerStepType DEF Woken, QuietStep
<1>4. CASE ReconciledEffect(s)
  <2> DEFINE f == [e EXCEPT !.state = "deferred", !.prerequisite = FALSE, !.stalled = FALSE]
  <2>1. /\ e.state = "unresolved" /\ e.pending = NoCandidate
        /\ entries' = [entries EXCEPT ![s] = f]
        /\ UNCHANGED <<now, current, blocked, active, claimed, stopped, idleSince, serial,
                       revision, used>>
    BY <1>1, <1>4 DEF ReconciledEffect
  <2>2. SameHistory(e, f) /\ f.state = "deferred"
    BY <1>1 DEF SameHistory, Entry, WorkState
  <2> HIDE DEF f
  <2>3. QuietStep /\ SameAge
    BY <1>1, <2>1, <2>2, OneEntryIsQuiet DEF OpenStates
  <2> QED
    BY <1>1, <2>1, <2>3, OwnerStepType DEF QuietStep
<1>5. ASSUME NEW evidence \in SUBSET Evidence, ObserveEvidence(s, evidence)
      PROVE  ControllerTypeOK' /\ QuietStep /\ SameAge /\ UNCHANGED <<active, used>>
  <2> DEFINE g == Observed(e, evidence)
             f == Continued(g)
  <2>1. /\ e.state = "deferred" /\ e.continuations < MaxContinuations
        /\ Woken(s, f) /\ revision' = revision + 1
    BY <1>5 DEF ObserveEvidence
  <2>2. /\ SameHistory(e, g) /\ g.continuations < MaxContinuations
    BY <1>1, <2>1, ObservedKeeps
  <2> HIDE DEF g
  <2>3. SameHistory(e, f) /\ f.state = "ready"
    BY <2>2, ContinuedKeeps DEF SameHistory
  <2> HIDE DEF f
  <2>4. QuietStep /\ SameAge
    BY <1>1, <2>1, <2>3, OneEntryIsQuiet DEF Woken, OpenStates
  <2> QED
    BY <1>1, <2>1, <2>4, OwnerStepType DEF Woken, QuietStep
<1> QED
  BY <1>2, <1>3, <1>4, <1>5

\* A repaired subsystem frees the scopes that wait for it.
LEMMA ConfigurationIsQuiet ==
    ASSUME ControllerTypeOK, EntryFacts, NEW subsystem \in Subsystem,
           UpdateConfiguration(subsystem)
    PROVE  ControllerTypeOK' /\ QuietStep /\ SameAge /\ UNCHANGED <<active, used>>
<1> DEFINE Free(e) == [e EXCEPT !.blockedOn = "none"]
           Woke(e) == [e EXCEPT !.blockedOn = "none", !.state = "ready", !.stalled = FALSE]
<1>1. /\ entries' = [s \in Scope |->
             LET e == entries[s]
             IN IF e.blockedOn # subsystem THEN e
                ELSE IF e.state # "deferred" THEN Free(e) ELSE Woke(e)]
      /\ blocked' \subseteq blocked /\ idleSince' = NoTime
      /\ UNCHANGED <<now, current, active, claimed, stopped, serial, revision, used>>
  BY DEF UpdateConfiguration
<1>2. ASSUME NEW s \in Scope
      PROVE  /\ SameHistory(entries[s], entries'[s])
             /\ \/ entries'[s].state = entries[s].state
                \/ entries[s].state = "deferred" /\ entries'[s].state = "ready"
             /\ entries'[s].pending = entries[s].pending
  <2>1. entries[s] \in Entry
    BY DEF ControllerTypeOK
  <2>2. \/ entries'[s] = entries[s]
        \/ entries'[s] = Free(entries[s])
        \/ entries'[s] = Woke(entries[s]) /\ entries[s].state = "deferred"
    <3> HIDE DEF Free, Woke
    <3> QED
      BY <1>1
  <2>3. CASE entries'[s] = entries[s]
    BY <2>1, <2>3 DEF SameHistory
  <2>4. CASE entries'[s] = Free(entries[s])
    BY <2>1, <2>4 DEF SameHistory, Entry, Subsystem
  <2>5. CASE entries'[s] = Woke(entries[s]) /\ entries[s].state = "deferred"
    BY ZenonT(40), <2>1, <2>5 DEF SameHistory, Entry, Subsystem, WorkState
  <2> QED
    BY <2>2, <2>3, <2>4, <2>5
<1>3. entries' \in [Scope -> Entry]
  BY <1>1, <1>2 DEF SameHistory
<1>4. current \in [Challenge -> Scope \cup {NoScope}]
  BY DEF ControllerTypeOK
<1>5. EntryFacts'
  <2>1. ASSUME NEW s \in Scope
        PROVE  /\ entries'[s].state # "unlisted" => entries'[s].task.scope = s
               /\ entries'[s].state = "unlisted" => entries'[s].settled = {}
               /\ entries[s].state # "unlisted" => entries'[s].state # "unlisted"
    BY <1>2 DEF EntryFacts, SameHistory
  <2>2. UNCHANGED current
    BY <1>1
  <2>3. ASSUME NEW c \in Challenge, current'[c] # NoScope
        PROVE  entries'[current'[c]].state # "unlisted"
    BY <1>4, <2>1, <2>2, <2>3 DEF EntryFacts
  <2> QED
    BY <2>1, <2>3 DEF EntryFacts
<1>6. Quiet
  BY <1>2 DEF Quiet, SameHistory, OpenStates, Retained
<1>8. SameAge
  BY <1>1, <1>2 DEF SameAge, SameHistory
<1>7. ControllerTypeOK'
  BY <1>1, <1>3 DEF ControllerTypeOK
<1> QED
  BY <1>1, <1>3, <1>5, <1>6, <1>7, <1>8 DEF QuietStep

\* The attempt that next_action admits: its entry is active, no sibling has an
\* open effect, and its budget is what the run has left.
JustAdmitted ==
    /\ active = NoAttempt /\ active' # NoAttempt /\ active'.scope \in Scope
    /\ entries'[active'.scope].state = "active"
    /\ \A t \in Siblings(active'.scope) : entries'[t].state \notin OpenStates
    /\ used.models + active'.budget.models <= InTotal.models
    /\ used.tools + active'.budget.tools <= InTotal.tools

LEMMA AdmitStep ==
    ASSUME ControllerTypeOK, EntryFacts, NEW s \in Scope, Eligible(s), Admit(s),
           used.models <= InTotal.models, used.tools <= InTotal.tools,
           active = NoAttempt, ~MustStop,
           UNCHANGED <<now, current, blocked, claimed, revision, used>>
    PROVE  ControllerTypeOK' /\ QuietStep /\ JustAdmitted
<1> DEFINE Given(e) == [e EXCEPT !.state = "active", !.attempts = @ + 1, !.bypasses = 0,
                                 !.repairNext = FALSE, !.readyAt = NoTime]
           Passed(e) == [e EXCEPT !.bypasses = @ + 1]
<1>1. /\ entries' = [t \in Scope |->
             CASE t = s -> Given(entries[s])
               [] t # s /\ Eligible(t) -> Passed(entries[t])
               [] OTHER -> entries[t]]
      /\ serial' = serial + 1
      /\ active' = [token |-> serial + 1, scope |-> s,
                    deadline |-> AtMost(now + AttemptSeconds, RunSeconds),
                    budget |-> [models |-> Remaining("models"),
                                tools |-> Remaining("tools")],
                    repair |-> entries[s].repairNext]
      /\ idleSince' = NoTime /\ UNCHANGED stopped
  BY DEF Admit
<1>2. /\ entries[s].state \in {"ready", "deferred"} /\ entries[s].attempts < MaxAttempts
      /\ \A t \in Siblings(s) : entries[t].state \notin OpenStates
  BY DEF Eligible, Due, NoOpenSibling
<1>3. /\ entries \in [Scope -> Entry] /\ serial \in 0..MaxTotal /\ serial < MaxTotal
      /\ MaxTotal \in Nat /\ MaxAttempts \in Nat /\ now \in Time /\ RunSeconds \in Nat
      /\ AttemptSeconds \in Nat /\ current \in [Challenge -> Scope \cup {NoScope}]
  BY ControllerAssumption DEF ControllerTypeOK, MustStop
<1>4. ASSUME NEW t \in Scope
      PROVE  /\ entries'[t] \in Entry /\ entries'[t].task = entries[t].task
             /\ entries'[t].settled = entries[t].settled
             /\ entries'[t].state = IF t = s THEN "active" ELSE entries[t].state
             /\ t # s => entries'[t].pending = entries[t].pending
  <2>1. CASE t = s
    <3>1. entries'[t] = Given(entries[s])
      BY <1>1, <2>1
    <3>2. entries[s].attempts + 1 \in 0..MaxAttempts /\ NoTime \in Int
      BY <1>2, <1>3 DEF Entry, NoTime
    <3>3. entries[s] \in Entry
      BY <1>3
    <3>4. /\ Given(entries[s]) \in Entry /\ Given(entries[s]).state = "active"
          /\ Given(entries[s]).task = entries[s].task
          /\ Given(entries[s]).settled = entries[s].settled
      BY <3>2, <3>3 DEF Entry, WorkState
    <3> QED
      BY <2>1, <3>1, <3>4
  <2>2. CASE t # s /\ Eligible(t)
    <3>1. entries'[t] = Passed(entries[t])
      BY <1>1, <2>2
    <3>2. entries[t] \in Entry
      BY <1>3
    <3> QED
      BY <2>2, <3>1, <3>2 DEF Entry
  <2>3. CASE t # s /\ ~Eligible(t)
    <3>1. entries'[t] = entries[t]
      BY <1>1, <2>3
    <3> QED
      BY <1>3, <2>3, <3>1
  <2> QED
    BY <2>1, <2>2, <2>3
<1>5. entries' \in [Scope -> Entry]
  BY <1>1, <1>4
<1>6. /\ Remaining("models") \in Nat /\ used.models + Remaining("models") <= InTotal.models
      /\ Remaining("tools") \in Nat /\ used.tools + Remaining("tools") <= InTotal.tools
  <2>1. /\ PerAttempt.models \in Nat /\ PerAttempt.tools \in Nat
        /\ InTotal.models \in Nat /\ InTotal.tools \in Nat
        /\ used.models \in Nat /\ used.tools \in Nat
    BY ControllerAssumption DEF ControllerTypeOK, Requests
  <2>2. /\ PerAttempt["models"] = PerAttempt.models /\ PerAttempt["tools"] = PerAttempt.tools
        /\ InTotal["models"] = InTotal.models /\ InTotal["tools"] = InTotal.tools
        /\ used["models"] = used.models /\ used["tools"] = used.tools
    OBVIOUS
  <2> QED
    BY <2>1, <2>2 DEF Remaining, AtMost, AtLeast
<1>7. AtMost(now + AttemptSeconds, RunSeconds) \in Time
  BY <1>3 DEF Time, AtMost
<1>8. entries[s].repairNext \in BOOLEAN
  BY <1>3 DEF Entry
<1>9. /\ active' \in Attempt /\ active'.scope = s /\ active' # NoAttempt
      /\ active'.budget.models = Remaining("models")
      /\ active'.budget.tools = Remaining("tools")
  BY <1>1, <1>3, <1>6, <1>7, <1>8 DEF Attempt, NoAttempt, Requests
<1>10. ControllerTypeOK'
  BY <1>1, <1>3, <1>5, <1>9 DEF ControllerTypeOK
<1>11. EntryFacts'
  <2>1. ASSUME NEW t \in Scope
        PROVE  /\ entries'[t].state # "unlisted" => entries'[t].task.scope = t
               /\ entries'[t].state = "unlisted" => entries'[t].settled = {}
               /\ entries[t].state # "unlisted" => entries'[t].state # "unlisted"
    BY <1>2, <1>4 DEF EntryFacts
  <2>2. ASSUME NEW c \in Challenge, current'[c] # NoScope
        PROVE  entries'[current'[c]].state # "unlisted"
    BY <1>3, <2>1, <2>2 DEF EntryFacts
  <2> QED
    BY <2>1, <2>2 DEF EntryFacts
<1>12. Quiet
  BY <1>2, <1>4 DEF Quiet, OpenStates, Retained
<1>13. JustAdmitted
  <2>1. \A t \in Siblings(s) : t \in Scope /\ t # s
    BY DEF Siblings
  <2> QED
    BY <1>2, <1>4, <1>6, <1>9, <2>1 DEF JustAdmitted
<1> QED
  BY <1>5, <1>10, <1>11, <1>12, <1>13 DEF QuietStep

\* A decision of next_action admits an attempt or changes no attempt.
LEMMA DecisionStep ==
    ASSUME ControllerTypeOK, EntryFacts, NextAction,
           used.models <= InTotal.models, used.tools <= InTotal.tools
    PROVE  /\ ControllerTypeOK' /\ QuietStep /\ UNCHANGED used
           /\ UNCHANGED active \/ JustAdmitted
<1>0. UNCHANGED <<now, current, blocked, claimed, revision, used>>
  BY DEF NextAction
<1>1. CASE MustStop /\ stopped' = TRUE /\ UNCHANGED <<entries, active, serial, idleSince>>
  <2>1. ControllerTypeOK'
    BY <1>0, <1>1 DEF ControllerTypeOK
  <2>2. QuietStep
    BY <1>0, <1>1, SameEntriesAreQuiet DEF ControllerTypeOK
  <2> QED
    BY <1>0, <1>1, <2>1, <2>2
<1>2. ASSUME ~MustStop, active = NoAttempt, NEW r \in Foremost(EligibleRecords),
             Admit(r.task.scope)
      PROVE  ControllerTypeOK' /\ QuietStep /\ JustAdmitted
  <2>1. PICK s \in Scope : Eligible(s) /\ r = entries[s]
    BY <1>2 DEF Foremost, EligibleRecords
  <2>2. r.task.scope = s
    BY <2>1 DEF EntryFacts, Eligible, Due
  <2> QED
    BY <1>0, <1>2, <2>1, <2>2, AdmitStep
<1>3. CASE ~MustStop /\ Idle
  <2>1. /\ idleSince' \in Time \cup {NoTime} /\ stopped' \in BOOLEAN
        /\ UNCHANGED <<entries, active, serial>>
    BY <1>3 DEF Idle, ControllerTypeOK
  <2>2. ControllerTypeOK'
    BY <1>0, <2>1 DEF ControllerTypeOK
  <2>3. QuietStep
    BY <1>0, <2>1, SameEntriesAreQuiet DEF ControllerTypeOK
  <2> QED
    BY <1>0, <2>1, <2>2, <2>3
<1> QED
  BY <1>0, <1>1, <1>2, <1>3 DEF NextAction

-----------------------------------------------------------------------------
(* Quiet steps keep the invariant while the bridge stands still.              *)

LEMMA QuietKeepsOwnership ==
    ASSUME TypeOK, OwnershipInv, QuietStep, UNCHANGED <<bridge, sent, reached, used>>,
           stopped => stopped',
           \/ UNCHANGED active
           \/ JustAdmitted /\ At("idle")
    PROVE  OwnershipInv'
<1> USE DEF OwnershipInv
<1>1. AttemptFacts'
  <2>1. CASE UNCHANGED active
    BY <2>1 DEF AttemptFacts, QuietStep, Quiet, Siblings, BeforeReport, HandingOff, Own, Retained
  <2>2. CASE JustAdmitted /\ At("idle")
    BY <2>2 DEF AttemptFacts, JustAdmitted, At, BeforeReport, HandingOff, Siblings
  <2> QED
    BY <2>1, <2>2
<1>2. BudgetFacts'
  BY DEF BudgetFacts, JustAdmitted, At, BeforeReport
<1>3. NoCandidate \notin Candidate /\ sent \subseteq Scope \X Candidate
        /\ reached \subseteq Scope \X Candidate
  BY ControllerAssumption DEF TypeOK
<1>4. HandoffFacts'
  BY <1>3 DEF HandoffFacts, AttemptFacts, QuietStep, Quiet, HandingOff, Own, OpenStates
<1>5. NoEffectForgotten'
  BY <1>3 DEF EffectFacts, NoEffectForgotten, QuietStep, Quiet, HandingOff, Own, Handled,
              OpenStates
<1>6. ReachedIsKnown'
  BY <1>3 DEF EffectFacts, ReachedIsKnown, QuietStep, Quiet
<1>7. EffectFacts'
  BY <1>5, <1>6 DEF EffectFacts, DeliveredOnce, At, BeforeSend, Handled, Own
<1> QED
  BY <1>1, <1>2, <1>4, <1>7 DEF QuietStep

-----------------------------------------------------------------------------
(* Steps of the solve loop. *)

\* Before its report the bridge changes only itself.
LEMMA LoopKeepsOwnership ==
    ASSUME TypeOK, OwnershipInv, ~HandingOff, active # NoAttempt,
           ControllerTypeOK', UNCHANGED <<entries, current, active, used, sent, reached>>,
           stopped => stopped', bridge' \in Bridge, BeforeReport', bridge'.attempt = active,
           bridge'.models <= active.budget.models, bridge'.tools <= active.budget.tools
    PROVE  TypeOK' /\ OwnershipInv'
<1> USE DEF OwnershipInv
<1>1. TypeOK'
  BY DEF TypeOK
<1>2. bridge'.pc \notin {"handoff", "qualify", "reserve", "checkpoint", "submit", "record",
                     "settle"}
  BY DEF BeforeReport
<1>3. EntryFacts'
  BY DEF EntryFacts
<1>4. AttemptFacts' /\ BudgetFacts' /\ HandoffFacts'
  BY <1>2 DEF AttemptFacts, BudgetFacts, HandoffFacts, HandingOff, Siblings
<1>5. NoEffectForgotten'
  BY DEF EffectFacts, NoEffectForgotten
<1>6. EffectFacts'
  BY <1>2, <1>5 DEF EffectFacts, DeliveredOnce, At, BeforeSend, ReachedIsKnown
<1> QED
  BY <1>1, <1>3, <1>4, <1>6

\* What the bridge may become in the loop.
LoopState(b) ==
    /\ b \in Bridge /\ b.attempt = bridge.attempt
    /\ b.models <= bridge.attempt.budget.models /\ b.tools <= bridge.attempt.budget.tools
    /\ b.pc \in {"loop", "model", "tool", "finish", "interrupted"}

\* The bridge in the loop is a state of the loop wherever it goes to.
LEMMA LoopMoves ==
    ASSUME TypeOK, OwnershipInv, BeforeReport
    PROVE  /\ bridge \in Bridge /\ active = bridge.attempt /\ active # NoAttempt
           /\ \A pc \in {"loop", "model", "tool", "finish", "interrupted"} :
                  /\ LoopState([bridge EXCEPT !.pc = pc])
                  /\ \A f \in Failure : LoopState([bridge EXCEPT !.failure = f, !.pc = pc])
                  /\ \A c \in Candidate : LoopState([bridge EXCEPT !.candidate = c, !.pc = pc])
                  /\ \A e \in SUBSET Evidence :
                         LoopState([bridge EXCEPT !.evidence = @ \cup e, !.pc = pc])
           /\ bridge.models < bridge.attempt.budget.models =>
                  LoopState([bridge EXCEPT !.models = @ + 1, !.pc = "model"])
           /\ bridge.tools < bridge.attempt.budget.tools =>
                  LoopState([bridge EXCEPT !.tools = @ + 1, !.pc = "tool"])
<1>1. /\ bridge \in Bridge /\ active = bridge.attempt /\ active # NoAttempt
      /\ bridge.models <= bridge.attempt.budget.models
      /\ bridge.tools <= bridge.attempt.budget.tools
  BY DEF TypeOK, OwnershipInv, AttemptFacts, BudgetFacts
<1>2. /\ bridge.models \in Nat /\ bridge.tools \in Nat /\ bridge.attempt \in Attempt
      /\ bridge.attempt.budget.models \in Nat /\ bridge.attempt.budget.tools \in Nat
  BY <1>1 DEF Bridge, Attempt, Requests
<1>3. ASSUME NEW pc \in {"loop", "model", "tool", "finish", "interrupted"}
      PROVE  LoopState([bridge EXCEPT !.pc = pc])
  BY <1>1 DEF LoopState, Bridge, Location
<1>4. ASSUME NEW pc \in {"loop", "model", "tool", "finish", "interrupted"}, NEW f \in Failure
      PROVE  LoopState([bridge EXCEPT !.failure = f, !.pc = pc])
  BY <1>1 DEF LoopState, Bridge, Location
<1>5. ASSUME NEW pc \in {"loop", "model", "tool", "finish", "interrupted"}, NEW c \in Candidate
      PROVE  LoopState([bridge EXCEPT !.candidate = c, !.pc = pc])
  BY <1>1 DEF LoopState, Bridge, Location
<1>6. ASSUME NEW pc \in {"loop", "model", "tool", "finish", "interrupted"},
             NEW e \in SUBSET Evidence
      PROVE  LoopState([bridge EXCEPT !.evidence = @ \cup e, !.pc = pc])
  BY <1>1 DEF LoopState, Bridge, Location
<1>7. ASSUME bridge.models < bridge.attempt.budget.models
      PROVE  LoopState([bridge EXCEPT !.models = @ + 1, !.pc = "model"])
  <2> DEFINE more == bridge.models + 1
             b == [bridge EXCEPT !.models = more, !.pc = "model"]
  <2>1. more \in Nat /\ more <= bridge.attempt.budget.models
    BY <1>2, <1>7
  <2> HIDE DEF more
  <2>2. /\ b \in Bridge /\ b.attempt = bridge.attempt /\ b.models = more
        /\ b.tools = bridge.tools /\ b.pc = "model"
    BY <1>1, <2>1 DEF Bridge, Location
  <2> HIDE DEF b
  <2>3. LoopState(b)
    BY <1>1, <2>1, <2>2 DEF LoopState
  <2> QED
    BY <2>3 DEF b, more
<1>8. ASSUME bridge.tools < bridge.attempt.budget.tools
      PROVE  LoopState([bridge EXCEPT !.tools = @ + 1, !.pc = "tool"])
  <2> DEFINE more == bridge.tools + 1
             b == [bridge EXCEPT !.tools = more, !.pc = "tool"]
  <2>1. more \in Nat /\ more <= bridge.attempt.budget.tools
    BY <1>2, <1>8
  <2> HIDE DEF more
  <2>2. /\ b \in Bridge /\ b.attempt = bridge.attempt /\ b.tools = more
        /\ b.models = bridge.models /\ b.pc = "tool"
    BY <1>1, <2>1 DEF Bridge, Location
  <2> HIDE DEF b
  <2>3. LoopState(b)
    BY <1>1, <2>1, <2>2 DEF LoopState
  <2> QED
    BY <2>3 DEF b, more
<1> QED
  BY <1>1, <1>3, <1>4, <1>5, <1>6, <1>7, <1>8

\* The loop, from one of its states to another.
LEMMA LoopStep ==
    ASSUME TypeOK, OwnershipInv, BeforeReport, LoopState(bridge'),
           stopped' \in BOOLEAN, stopped => stopped',
           UNCHANGED <<now, entries, current, blocked, active, claimed, idleSince, serial,
                       revision, used, sent, reached>>
    PROVE  TypeOK' /\ OwnershipInv'
<1>1. active = bridge.attempt /\ active # NoAttempt
  BY LoopMoves
<1>2. ControllerTypeOK'
  BY DEF TypeOK, ControllerTypeOK
<1>3. ~HandingOff /\ BeforeReport'
  BY DEF BeforeReport, HandingOff, LoopState
<1> QED
  BY <1>1, <1>2, <1>3, LoopKeepsOwnership DEF LoopState

\* A step of the loop that may change nothing but the bridge.
LEMMA GuardedStep ==
    ASSUME TypeOK, OwnershipInv, BeforeReport, LoopState(bridge'),
           UNCHANGED <<controllerVars, sent, reached>>
    PROVE  TypeOK' /\ OwnershipInv'
BY LoopStep DEF TypeOK, ControllerTypeOK, controllerVars

\* The bridge that rests is one.
LEMMA NoBridgeType ==
    NoBridge \in Bridge
<1>1. NoAttempt \in Attempt
  BY ControllerAssumption DEF NoAttempt, Attempt, Time, Requests
<1> QED
  BY <1>1 DEF NoBridge, Bridge, Location, Verdict

\* The bridge takes over the admitted attempt.
LEMMA StartStep ==
    ASSUME TypeOK, OwnershipInv, Start
    PROVE  TypeOK' /\ OwnershipInv'
<1>1. /\ At("idle") /\ active # NoAttempt /\ claimed' = TRUE
      /\ UNCHANGED <<now, entries, current, blocked, active, stopped, idleSince, serial,
                     revision, used, sent, reached>>
      /\ bridge' = [NoBridge EXCEPT !.pc = "loop", !.attempt = active]
  BY DEF Start, ClaimAttempt
<1>2. active \in Attempt
  BY DEF TypeOK, ControllerTypeOK
<1>3. NoBridge \in Bridge /\ NoBridge.models = 0 /\ NoBridge.tools = 0
  BY NoBridgeType DEF NoBridge
<1>4. /\ bridge' \in Bridge /\ bridge'.attempt = active /\ bridge'.pc = "loop"
      /\ bridge'.models = 0 /\ bridge'.tools = 0
  BY <1>1, <1>2, <1>3 DEF Bridge, Location
<1>5. 0 <= active.budget.models /\ 0 <= active.budget.tools
  BY <1>2 DEF Attempt, Requests
<1>6. ControllerTypeOK'
  BY <1>1 DEF TypeOK, ControllerTypeOK
<1>7. ~HandingOff /\ BeforeReport'
  BY <1>1, <1>4 DEF At, HandingOff, BeforeReport
<1> QED
  BY <1>1, <1>4, <1>5, <1>6, <1>7, LoopKeepsOwnership

\* The steps of the loop and its interrupt.
LEMMA LoopSteps ==
    ASSUME TypeOK, OwnershipInv,
           \/ CallModel \/ ModelReturns \/ CallTool \/ ToolReturns \/ Capture \/ Answer
           \/ InterruptedLoop
    PROVE  TypeOK' /\ OwnershipInv'
<1>0. BeforeReport
  BY DEF CallModel, ModelReturns, CallTool, ToolReturns, Capture, Answer, InterruptedLoop,
         At, BeforeReport
<1>1. /\ \A kind \in {"malformed_request", "no_progress", "unknown"} :
             Classified(kind, "tool") \in Failure
      /\ ModelFailures \subseteq Failure /\ ToolFailures \subseteq Failure
  BY ClassifiedType, BridgeAssumption DEF FailureKind, Operation
<1> DEFINE To(pc) == [bridge EXCEPT !.pc = pc]
           Fail(f) == [bridge EXCEPT !.failure = f, !.pc = "finish"]
           MoreModels == [bridge EXCEPT !.models = @ + 1, !.pc = "model"]
           MoreTools == [bridge EXCEPT !.tools = @ + 1, !.pc = "tool"]
           More(e) == [bridge EXCEPT !.evidence = @ \cup e, !.pc = "loop"]
           Captured(c) == [bridge EXCEPT !.candidate = c, !.pc = "finish"]
           Kept == UNCHANGED <<controllerVars, sent, reached>>
<1>2. /\ LoopState(To("loop")) /\ LoopState(To("finish")) /\ LoopState(To("interrupted"))
      /\ \A f \in Failure : LoopState(Fail(f))
      /\ \A c \in Candidate : LoopState(Captured(c))
      /\ \A e \in SUBSET Evidence : LoopState(More(e))
      /\ bridge.models < bridge.attempt.budget.models => LoopState(MoreModels)
      /\ bridge.tools < bridge.attempt.budget.tools => LoopState(MoreTools)
  BY <1>0, LoopMoves
<1>3. ASSUME LoopState(bridge'), Kept PROVE TypeOK' /\ OwnershipInv'
  BY <1>0, <1>3, GuardedStep
<1>4. CASE CallModel
  <2>1. Kept /\ \/ bridge' = To("finish")
                \/ /\ bridge.models < bridge.attempt.budget.models
                   /\ bridge' = MoreModels
    BY <1>4 DEF CallModel, Guarded, GoTo
  <2> HIDE DEF To, MoreModels
  <2> QED
    BY <1>2, <1>3, <2>1
<1>5. CASE ModelReturns
  <2>1. Kept /\ \/ bridge' = To("finish")
                \/ bridge' = To("loop")
                \/ \E f \in ModelFailures : bridge' = Fail(f)
    BY <1>5 DEF ModelReturns, Guarded, GoTo, FailWith
  <2> HIDE DEF To, Fail
  <2> QED
    BY <1>1, <1>2, <1>3, <2>1
<1>6. CASE CallTool
  <2>1. Kept /\ \/ bridge' = To("finish")
                \/ /\ bridge.tools < bridge.attempt.budget.tools
                   /\ bridge' = MoreTools
                \/ bridge' = Fail(Classified("malformed_request", "tool"))
                \/ bridge' = Fail(Classified("no_progress", "tool"))
    BY <1>6 DEF CallTool, Guarded, GoTo, FailWith
  <2> HIDE DEF To, Fail, MoreTools
  <2> QED
    BY <1>1, <1>2, <1>3, <2>1
<1>7. CASE ToolReturns
  <2>1. \/ Kept /\ \/ bridge' = To("finish")
                   \/ \E e \in SUBSET Evidence : bridge' = More(e)
                   \/ \E f \in ToolFailures : bridge' = Fail(f)
        \/ /\ Cancel /\ UNCHANGED <<sent, reached>>
           /\ bridge' = Fail(Classified("unknown", "tool"))
    <3>1. CASE \E e \in SUBSET Evidence : Guarded(bridge' = More(e))
      BY <3>1 DEF Guarded, GoTo
    <3>2. CASE \E f \in ToolFailures : FailWith(f)
      BY <3>2 DEF FailWith
    <3> QED
      BY <1>7, <3>1, <3>2 DEF ToolReturns
  <2> HIDE DEF To, More, Fail
  <2>2. CASE /\ Cancel /\ UNCHANGED <<sent, reached>>
             /\ bridge' = Fail(Classified("unknown", "tool"))
    <3>1. LoopState(bridge')
      BY <1>1, <1>2, <2>2
    <3> QED
      BY <1>0, <2>2, <3>1, LoopStep DEF Cancel
  <2> QED
    BY <1>1, <1>2, <1>3, <2>1, <2>2
<1>8. CASE Capture
  <2>1. Kept /\ \/ bridge' = To("finish")
                \/ \E c \in Candidate : bridge' = Captured(c)
    BY <1>8 DEF Capture, Guarded, GoTo
  <2> HIDE DEF To, Captured
  <2> QED
    BY <1>2, <1>3, <2>1
<1>9. CASE Answer
  BY <1>9, <1>2, <1>3 DEF Answer, GoTo
<1>10. CASE InterruptedLoop
  <2>1. LoopState(bridge')
    BY <1>2, <1>10 DEF InterruptedLoop, GoTo
  <2> QED
    BY <1>0, <1>10, <2>1, LoopStep DEF InterruptedLoop, ControllerKept
<1> QED
  BY <1>4, <1>5, <1>6, <1>7, <1>8, <1>9, <1>10

-----------------------------------------------------------------------------
(* The report of the attempt. *)

\* finish_attempt keeps the types.
LEMMA FinishType ==
    ASSUME TypeOK, active.scope \in Scope, NEW report \in Report,
           FinishAttempt(report), UNCHANGED stopped
    PROVE  ControllerTypeOK'
<1>1. /\ entries \in [Scope -> Entry] /\ used.models \in Nat /\ used.tools \in Nat
      /\ revision \in Nat /\ blocked \subseteq Subsystem
  BY DEF TypeOK, ControllerTypeOK, Requests
<1>2. /\ report.models \in Nat /\ report.tools \in Nat
      /\ report.failure # NoFailure => report.failure \in Failure
  BY DEF Report
<1>3. Finished(report) \in Entry
  BY FinishedKeeps DEF TypeOK, SameHistory
<1>4. entries' \in [Scope -> Entry]
  BY <1>1, <1>3 DEF FinishAttempt
<1>5. used' \in Requests /\ revision' \in Nat
  BY <1>1, <1>2 DEF FinishAttempt, Requests
<1>6. blocked' \subseteq Subsystem
  <2>1. report.failure # NoFailure => report.failure.subsystem \in Subsystem
    BY <1>2 DEF Failure
  <2> QED
    BY <1>1, <2>1 DEF FinishAttempt
<1>7. active' \in Attempt
  BY NoBridgeType DEF FinishAttempt, NoBridge, Bridge
<1> QED
  BY <1>4, <1>5, <1>6, <1>7 DEF FinishAttempt, TypeOK, ControllerTypeOK

\* Once it is reported, the attempt is over, and the handoff begins with a
\* candidate of the scope that was neither sent nor settled.
LEMMA ReportStep ==
    ASSUME TypeOK, OwnershipInv, BeforeReport, NEW report \in Report,
           report.models = bridge.models, report.tools = bridge.tools,
           FinishAttempt(report), UNCHANGED <<stopped, sent, reached>>,
           \/ bridge' = [NoBridge EXCEPT !.pc = "cleanup"]
           \/ /\ bridge' = [NoBridge EXCEPT !.pc = "handoff", !.attempt = bridge.attempt,
                                            !.candidate = bridge.candidate]
              /\ entries'[Own].state = "awaiting_candidate"
              /\ report.candidate = bridge.candidate
    PROVE  TypeOK' /\ OwnershipInv'
<1> USE DEF OwnershipInv
<1> DEFINE a == active.scope
           f == Finished(report)
<1>1. /\ active = bridge.attempt /\ active # NoAttempt /\ a \in Scope /\ a = Own
      /\ entries[a].state \in {"active", "superseded"} /\ ~HandingOff
  BY DEF AttemptFacts, BeforeReport, HandingOff, Own
<1>2. /\ entries \in [Scope -> Entry] /\ bridge \in Bridge
      /\ current \in [Challenge -> Scope \cup {NoScope}]
      /\ sent \subseteq Scope \X Candidate /\ reached \subseteq Scope \X Candidate
  BY DEF TypeOK, ControllerTypeOK
<1>3. /\ SameHistory(entries[a], f) /\ f.state # "unlisted"
      /\ f.state = "awaiting_candidate" =>
             f.pending = report.candidate /\ report.candidate \in Candidate \ entries[a].settled
  BY <1>1, FinishedKeeps DEF TypeOK
<1>4. /\ \A t \in Scope : entries'[t] = IF t = a THEN f ELSE entries[t]
      /\ active' = NoAttempt /\ UNCHANGED current
  BY <1>1, <1>2 DEF FinishAttempt
<1> HIDE DEF f
<1>5. \/ bridge' = [NoBridge EXCEPT !.pc = "cleanup"]
      \/ /\ bridge' = [NoBridge EXCEPT !.pc = "handoff", !.attempt = bridge.attempt,
                                       !.candidate = bridge.candidate]
         /\ f.state = "awaiting_candidate" /\ f.pending = bridge.candidate
         /\ bridge.candidate \in Candidate \ entries[a].settled
  BY <1>1, <1>3, <1>4
<1>6. /\ bridge' \in Bridge
      /\ \/ bridge'.pc = "cleanup"
         \/ /\ bridge'.pc = "handoff" /\ bridge'.attempt = bridge.attempt
            /\ bridge'.candidate = bridge.candidate
            /\ f.state = "awaiting_candidate" /\ f.pending = bridge.candidate
            /\ bridge.candidate \in Candidate \ entries[a].settled
  BY <1>2, <1>5, NoBridgeType DEF Bridge, Location
<1>7. TypeOK'
  BY <1>1, <1>2, <1>6, FinishType DEF TypeOK
<1>8. EntryFacts'
  <2>1. ASSUME NEW t \in Scope
        PROVE  /\ entries'[t].state # "unlisted" => entries'[t].task.scope = t
               /\ entries'[t].state = "unlisted" => entries'[t].settled = {}
               /\ entries[t].state # "unlisted" => entries'[t].state # "unlisted"
    BY <1>1, <1>3, <1>4 DEF EntryFacts, SameHistory
  <2>2. ASSUME NEW c \in Challenge, current'[c] # NoScope
        PROVE  entries'[current'[c]].state # "unlisted"
    BY <1>2, <1>4, <2>1, <2>2 DEF EntryFacts
  <2> QED
    BY <2>1, <2>2 DEF EntryFacts
<1>9. ~BeforeReport' /\ (HandingOff' => bridge'.pc = "handoff")
  BY <1>6 DEF BeforeReport, HandingOff
<1>10. AttemptFacts'
  BY <1>1, <1>4, <1>6, <1>9 DEF AttemptFacts, Own
<1>11. BudgetFacts'
  <2>1. /\ used.models + active.budget.models <= InTotal.models
        /\ used.tools + active.budget.tools <= InTotal.tools
        /\ bridge.models <= active.budget.models /\ bridge.tools <= active.budget.tools
    BY <1>1 DEF BudgetFacts
  <2>2. /\ used.models \in Nat /\ used.tools \in Nat
        /\ bridge.models \in Nat /\ bridge.tools \in Nat
        /\ active.budget.models \in Nat /\ active.budget.tools \in Nat
        /\ InTotal.models \in Nat /\ InTotal.tools \in Nat
    BY <1>2, ControllerAssumption DEF TypeOK, ControllerTypeOK, Bridge, Attempt, Requests
  <2>3. /\ used'.models = used.models + bridge.models
        /\ used'.tools = used.tools + bridge.tools
    BY DEF FinishAttempt
  <2> QED
    BY <1>4, <1>9, <2>1, <2>2, <2>3 DEF BudgetFacts
<1>12. HandoffFacts'
  BY <1>1, <1>4, <1>6, <1>9 DEF HandoffFacts, Own
<1>13. \A p \in sent : p[1] \in Scope /\ p[1] # a
  BY <1>1, <1>2 DEF EffectFacts, NoEffectForgotten
<1>14. \A p \in reached : p[1] \in Scope /\ (p[1] = a => p[2] \in entries[a].settled)
  BY <1>1, <1>2 DEF EffectFacts, ReachedIsKnown, OpenStates
<1>15. NoEffectForgotten'
  BY <1>1, <1>4, <1>13 DEF EffectFacts, NoEffectForgotten
<1>16. ReachedIsKnown'
  BY <1>3, <1>4, <1>14 DEF EffectFacts, ReachedIsKnown, SameHistory
<1>17. BeforeSend' => Handled' \notin sent' /\ Handled' \notin reached'
  <2> HAVE BeforeSend'
  <2>1. Handled' = <<a, bridge.candidate>> /\ bridge.candidate \notin entries[a].settled
    BY <1>1, <1>6 DEF BeforeSend, Handled, Own
  <2> QED
    BY <1>13, <1>14, <2>1
<1>18. DeliveredOnce'
  BY <1>6 DEF DeliveredOnce, At
<1> QED
  BY <1>7, <1>8, <1>10, <1>11, <1>12, <1>15, <1>16, <1>17, <1>18 DEF EffectFacts

\* The report of an attempt that ended, and that of an interrupted one.
LEMMA FinishSteps ==
    ASSUME TypeOK, OwnershipInv, Finish \/ ReportUsage
    PROVE  TypeOK' /\ OwnershipInv'
<1>1. bridge \in Bridge
  BY DEF TypeOK
<1>2. CASE Finish
  <2> DEFINE r == ReportOfAttempt
  <2>1. /\ r \in Report /\ r.models = bridge.models /\ r.tools = bridge.tools
        /\ r.candidate = bridge.candidate
    BY <1>1 DEF ReportOfAttempt, Report, Bridge
  <2>2. BeforeReport /\ FinishAttempt(r) /\ UNCHANGED <<stopped, sent, reached>>
    BY <1>2 DEF Finish, At, BeforeReport
  <2>3. \/ bridge' = [NoBridge EXCEPT !.pc = "cleanup"]
        \/ /\ bridge' = [NoBridge EXCEPT !.pc = "handoff", !.attempt = bridge.attempt,
                                         !.candidate = bridge.candidate]
           /\ entries'[Own].state = "awaiting_candidate"
    BY <1>2 DEF Finish
  <2> HIDE DEF r
  <2> QED
    BY <2>1, <2>2, <2>3, ReportStep
<1>3. CASE ReportUsage
  <2> DEFINE r == UsageOnly
  <2>1. /\ r \in Report /\ r.models = bridge.models /\ r.tools = bridge.tools
    BY <1>1 DEF UsageOnly, EmptyReport, Report, Bridge
  <2>2. /\ BeforeReport /\ FinishAttempt(r) /\ UNCHANGED <<stopped, sent, reached>>
        /\ bridge' = [NoBridge EXCEPT !.pc = "cleanup"]
    BY <1>3 DEF ReportUsage, At, BeforeReport, CleanUp
  <2> HIDE DEF r
  <2> QED
    BY <2>1, <2>2, ReportStep
<1> QED
  BY <1>2, <1>3

-----------------------------------------------------------------------------
(* Verdicts.  Only the bridge that hands a candidate off and, for the other   *)
(* scopes, the owners settle an effect.                                       *)

LEMMA VerdictStep ==
    ASSUME TypeOK, OwnershipInv, NEW s \in Scope, NEW c \in Candidate,
           NEW outcome \in CandidateOutcome, ResolveCandidate(s, c, outcome),
           stopped => stopped',
           sent' = (IF Settles(outcome) THEN sent \ {<<s, c>>} ELSE sent),
           outcome = "qualification_rejected" => <<s, c>> \notin sent,
           outcome \in {"qualification_rejected", "not_delivered"} => <<s, c>> \notin reached',
           ControllerKept, stopped' \in BOOLEAN,
           \/ ~(HandingOff /\ Own = s) /\ UNCHANGED <<bridge, reached>>
           \/ /\ HandingOff /\ Own = s /\ bridge' = [NoBridge EXCEPT !.pc = "cleanup"]
              /\ reached' = reached \/ reached' = reached \cup {<<s, c>>}
    PROVE  TypeOK' /\ OwnershipInv'
<1> USE DEF OwnershipInv
<1> DEFINE e == entries[s]
           f == Resolved(e, outcome)
<1>1. /\ entries \in [Scope -> Entry] /\ bridge \in Bridge
      /\ current \in [Challenge -> Scope \cup {NoScope}]
      /\ sent \subseteq Scope \X Candidate /\ reached \subseteq Scope \X Candidate
  BY DEF TypeOK, ControllerTypeOK
<1>2. /\ e.pending = c /\ e.state \in OpenStates
      /\ e.state = "unresolved" => outcome # "qualification_rejected"
      /\ entries' = [entries EXCEPT ![s] = f]
  BY DEF ResolveCandidate, MayResolve
<1>3. /\ f \in Entry /\ f.task = e.task /\ f.state # "unlisted"
      /\ f.settled = IF outcome \in {"wrong", "accepted"} THEN e.settled \cup {c} ELSE e.settled
      /\ outcome = "ambiguous" => f.pending = c /\ f.state = "unresolved"
      /\ outcome = "already_solved" => f = e
      /\ outcome \notin {"ambiguous", "already_solved"} => f.state \notin OpenStates
  <2>1. e \in Entry /\ e.pending \in Candidate
    BY <1>1, <1>2
  <2>2. e.pending = c /\ e.state \in OpenStates
    BY <1>2
  <2> HIDE DEF e
  <2> QED
    BY SMTT(20), <2>1, <2>2, ResolvedKeeps
<1> HIDE DEF f
<1>4. \A t \in Scope : entries'[t] = IF t = s THEN f ELSE entries[t]
  BY <1>1, <1>2
<1>5. entries' \in [Scope -> Entry]
  BY <1>1, <1>2, <1>3
<1>6. /\ UNCHANGED <<current, active, used>>
      /\ ControllerTypeOK'
  BY <1>5 DEF ControllerKept, TypeOK, ControllerTypeOK
<1>7. /\ bridge' \in Bridge
      /\ bridge' = bridge \/ bridge'.pc = "cleanup"
  <2>1. [NoBridge EXCEPT !.pc = "cleanup"] \in Bridge
    BY NoBridgeType DEF Bridge, Location
  <2>2. [NoBridge EXCEPT !.pc = "cleanup"].pc = "cleanup"
    BY DEF NoBridge
  <2> QED
    BY <1>1, <2>1, <2>2
<1>8. TypeOK'
  BY <1>1, <1>6, <1>7 DEF TypeOK
<1>9. EntryFacts'
  <2>1. ASSUME NEW t \in Scope
        PROVE  /\ entries'[t].state # "unlisted" => entries'[t].task.scope = t
               /\ entries'[t].state = "unlisted" => entries'[t].settled = {}
               /\ entries[t].state # "unlisted" => entries'[t].state # "unlisted"
    BY <1>2, <1>3, <1>4 DEF EntryFacts, OpenStates
  <2>2. ASSUME NEW d \in Challenge, current'[d] # NoScope
        PROVE  entries'[current'[d]].state # "unlisted"
    BY <1>1, <1>6, <2>1, <2>2 DEF EntryFacts
  <2> QED
    BY <2>1, <2>2 DEF EntryFacts
<1>10. AttemptFacts'
  <2>1. active # NoAttempt =>
           /\ active.scope \in Scope
           /\ entries'[active.scope].state \in {"active", "superseded"}
           /\ \A t \in Siblings(active.scope) : entries'[t].state \notin OpenStates
    <3> HAVE active # NoAttempt
    <3>1. /\ active.scope \in Scope /\ active.scope # s
          /\ \A t \in Siblings(active.scope) : t \in Scope /\ t # s
      BY <1>2 DEF AttemptFacts, OpenStates, Siblings
    <3> QED
      BY <1>4, <3>1 DEF AttemptFacts
  <2>2. /\ BeforeReport' => active = bridge'.attempt /\ active # NoAttempt
        /\ HandingOff' => active = NoAttempt /\ Own' \in Scope
    BY <1>7 DEF AttemptFacts, BeforeReport, HandingOff, Own
  <2> QED
    BY <1>6, <2>1, <2>2 DEF AttemptFacts, Siblings
<1>11. BudgetFacts'
  BY <1>6, <1>7 DEF BudgetFacts, BeforeReport
<1>12. HandingOff' => bridge' = bridge /\ reached' = reached /\ HandingOff /\ Own # s
  BY <1>7 DEF HandingOff, NoBridge
<1>13. HandoffFacts'
  BY <1>4, <1>12 DEF HandoffFacts, AttemptFacts, Own
<1>14. /\ sent' \subseteq sent
       /\ <<s, c>> \in sent' => <<s, c>> \in sent /\ outcome = "ambiguous"
  BY DEF Settles, CandidateOutcome
<1>15. NoEffectForgotten'
  <2> SUFFICES ASSUME NEW p \in sent'
               PROVE  /\ entries'[p[1]].pending = p[2]
                      /\ \/ entries'[p[1]].state = "unresolved"
                         \/ /\ entries'[p[1]].state = "awaiting_candidate"
                            /\ stopped' \/ (HandingOff' /\ Handled' = p)
    BY DEF NoEffectForgotten
  <2>1. /\ p \in Scope \X Candidate /\ entries[p[1]].pending = p[2]
        /\ \/ entries[p[1]].state = "unresolved"
           \/ /\ entries[p[1]].state = "awaiting_candidate"
              /\ stopped \/ (HandingOff /\ Handled = p)
    BY <1>1, <1>14 DEF EffectFacts, NoEffectForgotten
  <2>2. CASE p[1] = s
    <3>1. p = <<s, c>>
      BY <1>2, <2>1, <2>2
    <3> QED
      BY <1>3, <1>4, <1>14, <2>2, <3>1
  <2>3. CASE p[1] # s
    <3>1. HandingOff /\ Handled = p => UNCHANGED bridge
      BY <2>3 DEF Handled
    <3> QED
      BY <1>4, <2>1, <2>3, <3>1 DEF HandingOff, Handled, Own
  <2> QED
    BY <2>2, <2>3
<1>16. ReachedIsKnown'
  <2> SUFFICES ASSUME NEW p \in reached'
               PROVE  \/ p[2] \in entries'[p[1]].settled
                      \/ entries'[p[1]].pending = p[2] /\ entries'[p[1]].state \in OpenStates
    BY DEF ReachedIsKnown
  <2>1. CASE p = <<s, c>>
    <3>1. outcome \in {"wrong", "accepted", "ambiguous", "already_solved"}
      BY <2>1 DEF CandidateOutcome
    <3> QED
      BY <1>2, <1>3, <1>4, <2>1, <3>1 DEF OpenStates
  <2>2. CASE p # <<s, c>>
    <3>1. /\ p \in Scope \X Candidate
          /\ \/ p[2] \in entries[p[1]].settled
             \/ entries[p[1]].pending = p[2] /\ entries[p[1]].state \in OpenStates
      BY <1>1, <2>2 DEF EffectFacts, ReachedIsKnown
    <3>2. CASE p[1] = s
      BY <1>2, <1>3, <1>4, <2>2, <3>1, <3>2
    <3>3. CASE p[1] # s
      BY <1>4, <3>1, <3>3
    <3> QED
      BY <3>2, <3>3
  <2> QED
    BY <2>1, <2>2
<1>17. /\ BeforeSend' => Handled' \notin sent' /\ Handled' \notin reached'
       /\ DeliveredOnce'
  BY <1>7, <1>12, <1>14
     DEF EffectFacts, BeforeSend, HandingOff, Handled, Own, DeliveredOnce, At
<1> QED
  BY <1>8, <1>9, <1>10, <1>11, <1>13, <1>15, <1>16, <1>17 DEF EffectFacts

\* A verdict of the bridge on the candidate it hands off.
LEMMA BridgeVerdict ==
    ASSUME TypeOK, OwnershipInv, HandingOff, NEW outcome \in CandidateOutcome,
           Resolve(outcome), stopped' \in BOOLEAN, stopped => stopped',
           outcome = "qualification_rejected" => BeforeSend /\ reached' = reached,
           outcome # "not_delivered",
           reached' = reached \/ reached' = reached \cup {Handled}
    PROVE  TypeOK' /\ OwnershipInv'
<1>1. Own \in Scope /\ bridge.candidate \in Candidate
  BY DEF OwnershipInv, AttemptFacts, HandoffFacts
<1>2. /\ ResolveCandidate(Own, bridge.candidate, outcome)
      /\ sent' = IF Settles(outcome) THEN sent \ {Handled} ELSE sent
      /\ bridge' = [NoBridge EXCEPT !.pc = "cleanup"] /\ ControllerKept
  BY DEF Resolve, CleanUp
<1>3. BeforeSend => Handled \notin sent /\ Handled \notin reached
  BY DEF OwnershipInv, EffectFacts
<1> QED
  BY <1>1, <1>2, <1>3, VerdictStep DEF Handled

\* A verdict of the owners: they know what reached the platform.
LEMMA OwnersVerdict ==
    ASSUME TypeOK, OwnershipInv, NEW s \in Scope, NEW c \in Candidate,
           NEW outcome \in OwnersOutcome(s, c), OwnerResolves(s, c, outcome)
    PROVE  TypeOK' /\ OwnershipInv'
<1>1. /\ outcome \in CandidateOutcome
      /\ outcome \in {"qualification_rejected", "not_delivered"} => <<s, c>> \notin reached
  BY DEF OwnersOutcome, CandidateOutcome
<1>2. /\ ~(HandingOff /\ Own = s) /\ ResolveCandidate(s, c, outcome)
      /\ sent' = IF Settles(outcome) THEN sent \ {<<s, c>>} ELSE sent
      /\ UNCHANGED <<stopped, bridge, reached>> /\ ControllerKept
  BY DEF OwnerResolves
<1>3. stopped' \in BOOLEAN
  BY <1>2 DEF TypeOK, ControllerTypeOK
<1>4. outcome = "qualification_rejected" => <<s, c>> \notin sent
  BY DEF OwnersOutcome
<1> QED
  BY <1>1, <1>2, <1>3, <1>4, VerdictStep

-----------------------------------------------------------------------------
(* The handoff. *)

\* Another callback of the handoff, before or after the send.
LEMMA HandoffMove ==
    ASSUME TypeOK, OwnershipInv, HandingOff, UNCHANGED controllerVars,
           bridge' \in Bridge, HandingOff', UNCHANGED <<Own, bridge.candidate>>,
           sent' = sent \/ (BeforeSend /\ sent' = sent \cup {Handled}),
           reached' = reached \/ reached' = reached \cup {Handled},
           bridge'.pc = "submit" => BeforeSend /\ reached' = reached,
           BeforeSend' => BeforeSend /\ UNCHANGED <<sent, reached>>
    PROVE  TypeOK' /\ OwnershipInv'
<1> USE DEF OwnershipInv
<1>1. /\ UNCHANGED <<entries, current, active, used>> /\ Handled' = Handled
      /\ ControllerTypeOK'
  BY DEF controllerVars, Handled, TypeOK, ControllerTypeOK
<1>2. /\ Handled \in Scope \X Candidate /\ Handled = <<Own, bridge.candidate>>
      /\ entries[Own].state = "awaiting_candidate" /\ entries[Own].pending = bridge.candidate
      /\ active = NoAttempt
  BY DEF AttemptFacts, HandoffFacts, Handled
<1>3. TypeOK'
  BY <1>1, <1>2 DEF TypeOK
<1>4. EntryFacts'
  BY <1>1 DEF EntryFacts
<1>5. AttemptFacts' /\ BudgetFacts' /\ HandoffFacts'
  <2>1. ~BeforeReport'
    BY DEF BeforeReport, HandingOff
  <2> QED
    BY <1>1, <1>2, <2>1 DEF AttemptFacts, BudgetFacts, HandoffFacts
<1>6. NoEffectForgotten'
  <2>1. stopped' = stopped
    BY DEF controllerVars
  <2> QED
    BY <1>1, <1>2, <2>1 DEF EffectFacts, NoEffectForgotten
<1>7. ReachedIsKnown'
  BY <1>1, <1>2 DEF EffectFacts, ReachedIsKnown, OpenStates
<1>8. DeliveredOnce'
  BY <1>1 DEF EffectFacts, DeliveredOnce, At
<1>9. BeforeSend' => Handled' \notin sent' /\ Handled' \notin reached'
  BY <1>1 DEF EffectFacts
<1> QED
  BY <1>3, <1>4, <1>5, <1>6, <1>7, <1>8, <1>9 DEF EffectFacts

\* The bridge comes to rest: it leaves a handoff before the send, or by an
\* interrupt before the verdict, or cleans up.
LEMMA RestStep ==
    ASSUME TypeOK, OwnershipInv, stopped' \in BOOLEAN, stopped => stopped',
           BeforeSend \/ At("cleanup") \/ (At("settle") /\ stopped'),
           UNCHANGED <<now, entries, current, blocked, active, claimed, idleSince, serial,
                       revision, used, sent, reached>>,
           bridge' \in Bridge, bridge'.pc \in {"cleanup", "idle"}
    PROVE  TypeOK' /\ OwnershipInv'
<1> USE DEF OwnershipInv
<1>1. TypeOK'
  BY DEF TypeOK, ControllerTypeOK
<1>2. ~BeforeReport' /\ ~HandingOff' /\ ~BeforeSend' /\ ~At("submit")'
  BY DEF BeforeReport, HandingOff, BeforeSend, At
<1>3. EntryFacts' /\ AttemptFacts' /\ BudgetFacts' /\ HandoffFacts'
  BY <1>2 DEF EntryFacts, AttemptFacts, BudgetFacts, HandoffFacts, Siblings
<1>4. \A p \in sent :
          /\ entries[p[1]].pending = p[2]
          /\ \/ entries[p[1]].state = "unresolved"
             \/ entries[p[1]].state = "awaiting_candidate" /\ stopped'
  BY DEF EffectFacts, NoEffectForgotten, BeforeSend, At, HandingOff
<1>5. EffectFacts'
  BY <1>2, <1>4 DEF EffectFacts, NoEffectForgotten, DeliveredOnce, ReachedIsKnown
<1> QED
  BY <1>1, <1>3, <1>5

\* The callbacks of the handoff, what interrupts them, and the cleanup.
LEMMA HandoffSteps ==
    ASSUME TypeOK, OwnershipInv,
           \/ Handoff \/ QualifyReturns \/ ReserveReturns \/ CheckpointReturns
           \/ SubmitReturns \/ RecordReturns \/ Settle \/ InterruptedSend
           \/ InterruptedHandoff \/ Cleanup
    PROVE  TypeOK' /\ OwnershipInv'
<1>1. bridge \in Bridge /\ stopped \in BOOLEAN
  BY DEF TypeOK, ControllerTypeOK
<1>2. ASSUME NEW pc \in {"qualify", "reserve", "checkpoint"}, BeforeSend, Proceed(pc)
      PROVE  TypeOK' /\ OwnershipInv'
  <2>1. /\ bridge' \in Bridge /\ bridge'.pc = pc /\ UNCHANGED <<Own, bridge.candidate>>
        /\ UNCHANGED <<controllerVars, sent, reached>>
    BY <1>1, <1>2 DEF Proceed, GoTo, Bridge, Location, Own
  <2> QED
    BY <1>2, <2>1, HandoffMove DEF BeforeSend, HandingOff
<1>3. ASSUME BeforeSend, GiveUp PROVE TypeOK' /\ OwnershipInv'
  <2>1. /\ bridge' \in Bridge /\ bridge'.pc = "cleanup"
        /\ UNCHANGED <<controllerVars, sent, reached>>
    BY <1>3, NoBridgeType DEF GiveUp, CleanUp, Bridge, Location, NoBridge
  <2> QED
    BY <1>1, <1>3, <2>1, RestStep DEF controllerVars
<1>4. ASSUME HandingOff, Resolve("ambiguous"), stopped' \in BOOLEAN, stopped => stopped',
             reached' = reached \/ reached' = reached \cup {Handled}
      PROVE  TypeOK' /\ OwnershipInv'
  BY <1>4, BridgeVerdict DEF CandidateOutcome
<1>5. CASE Handoff
  BY <1>2, <1>3, <1>5 DEF Handoff, At, BeforeSend
<1>6. CASE QualifyReturns
  <2>1. BeforeSend /\ HandingOff
    BY <1>6 DEF QualifyReturns, At, BeforeSend, HandingOff
  <2>2. CASE Resolve("qualification_rejected") /\ UNCHANGED <<stopped, reached>>
    BY <1>1, <2>1, <2>2, BridgeVerdict DEF CandidateOutcome
  <2> QED
    BY <1>2, <1>3, <1>6, <2>1, <2>2 DEF QualifyReturns
<1>7. CASE ReserveReturns
  <2>1. BeforeSend /\ HandingOff
    BY <1>7 DEF ReserveReturns, At, BeforeSend, HandingOff
  <2> QED
    BY <1>1, <1>2, <1>4, <1>7, <2>1 DEF ReserveReturns, Uncertain
<1>8. CASE CheckpointReturns
  <2>1. BeforeSend /\ HandingOff
    BY <1>8 DEF CheckpointReturns, At, BeforeSend, HandingOff
  <2>2. CASE GoTo("submit") /\ sent' = sent \cup {Handled} /\ UNCHANGED <<controllerVars, reached>>
    <3>1. /\ bridge' \in Bridge /\ bridge'.pc = "submit"
          /\ UNCHANGED <<Own, bridge.candidate>>
      BY <1>1, <2>2 DEF GoTo, Bridge, Location, Own
    <3> QED
      BY <2>1, <2>2, <3>1, HandoffMove DEF BeforeSend, HandingOff
  <2>3. CASE Uncertain /\ UNCHANGED reached
    BY <1>1, <1>4, <2>1, <2>3 DEF Uncertain
  <2> QED
    BY <1>8, <2>2, <2>3 DEF CheckpointReturns
<1>9. CASE SubmitReturns
  <2>1. PICK verdict \in Verdict : bridge' = [bridge EXCEPT !.verdict = verdict, !.pc = "record"]
    BY <1>9 DEF SubmitReturns
  <2>2. /\ bridge' \in Bridge /\ bridge'.pc = "record"
        /\ UNCHANGED <<Own, bridge.candidate>>
    BY <1>1, <2>1 DEF Bridge, Location, Own
  <2>3. /\ UNCHANGED <<controllerVars, sent>> /\ HandingOff
        /\ reached' = reached \/ reached' = reached \cup {Handled}
    BY <1>9 DEF SubmitReturns, At, HandingOff
  <2> QED
    BY <2>2, <2>3, HandoffMove DEF BeforeSend, HandingOff
<1>10. CASE RecordReturns
  <2>1. HandingOff
    BY <1>10 DEF RecordReturns, At, HandingOff
  <2>2. CASE Proceed("settle")
    <3>1. /\ bridge' \in Bridge /\ bridge'.pc = "settle"
          /\ UNCHANGED <<Own, bridge.candidate>>
          /\ UNCHANGED <<controllerVars, sent, reached>>
      BY <1>1, <2>2 DEF Proceed, GoTo, Bridge, Location, Own
    <3> QED
      BY <2>1, <3>1, HandoffMove DEF BeforeSend, HandingOff
  <2>3. CASE Uncertain /\ UNCHANGED reached
    BY <1>1, <1>4, <2>1, <2>3 DEF Uncertain
  <2> QED
    BY <1>10, <2>2, <2>3 DEF RecordReturns
<1>11. CASE Settle
  <2>1. /\ HandingOff /\ Resolve(OutcomeOf(bridge.verdict))
        /\ stopped' = stopped /\ reached' = reached
    BY <1>11 DEF Settle, At, HandingOff
  <2>2. OutcomeOf(bridge.verdict) \in {"accepted", "wrong", "already_solved", "ambiguous"}
    BY <1>1 DEF OutcomeOf, Bridge, Verdict
  <2> QED
    BY <1>1, <2>1, <2>2, BridgeVerdict DEF CandidateOutcome
<1>12. CASE InterruptedSend
  <2>1. /\ HandingOff /\ Resolve("ambiguous") /\ stopped' = TRUE
        /\ reached' = reached \/ reached' = reached \cup {Handled}
    BY <1>12 DEF InterruptedSend, HandingOff
  <2> QED
    BY <1>4, <2>1
<1>13. CASE InterruptedHandoff
  <2>1. /\ bridge' \in Bridge /\ bridge'.pc = "cleanup" /\ stopped' = TRUE
    BY <1>13, NoBridgeType DEF InterruptedHandoff, CleanUp, Bridge, Location, NoBridge
  <2>2. BeforeSend \/ At("settle")
    BY <1>13 DEF InterruptedHandoff, At, BeforeSend
  <2> QED
    BY <1>13, <2>1, <2>2, RestStep DEF InterruptedHandoff, ControllerKept
<1>14. CASE Cleanup
  <2>1. bridge' \in Bridge /\ bridge'.pc = "idle"
    BY <1>14, NoBridgeType DEF Cleanup, NoBridge
  <2> QED
    BY <1>1, <1>14, <2>1, RestStep DEF Cleanup, controllerVars
<1> QED
  BY <1>5, <1>6, <1>7, <1>8, <1>9, <1>10, <1>11, <1>12, <1>13, <1>14

-----------------------------------------------------------------------------
(* The induction. *)

\* Initially no scope has a history, no attempt runs and nothing was sent.
LEMMA InitOwnership ==
    Init => TypeOK /\ OwnershipInv
<1> SUFFICES ASSUME Init PROVE TypeOK /\ OwnershipInv
  OBVIOUS
<1> DEFINE e == [Listed(NoTask) EXCEPT !.state = "unlisted"]
<1>1. /\ e \in Entry /\ e.state = "unlisted" /\ e.settled = {}
  <2> DEFINE l == Listed(NoTask)
  <2>1. l \in Entry /\ l.settled = {}
    BY ControllerAssumption, LimitsAssumption
       DEF Listed, Entry, WorkState, Subsystem, NoTime
  <2> HIDE DEF l
  <2>2. /\ [l EXCEPT !.state = "unlisted"] \in Entry
        /\ [l EXCEPT !.state = "unlisted"].state = "unlisted"
        /\ [l EXCEPT !.state = "unlisted"].settled = {}
    BY <2>1 DEF Entry, WorkState
  <2> QED
    BY <2>2 DEF l
<1> HIDE DEF e
<1>2. /\ now = 0 /\ entries = [s \in Scope |-> e] /\ current = [c \in Challenge |-> NoScope]
      /\ blocked = {} /\ active = NoAttempt /\ claimed = FALSE /\ stopped = FALSE
      /\ idleSince = NoTime /\ serial = 0 /\ revision = 0
      /\ used = [models |-> 0, tools |-> 0]
      /\ bridge = NoBridge /\ sent = {} /\ reached = {}
  BY DEF Init, ControllerInit, e
<1>3. ControllerTypeOK
  <2>1. NoAttempt \in Attempt
    BY NoBridgeType DEF NoBridge, Bridge
  <2>2. used \in Requests /\ now \in Time /\ serial \in 0..MaxTotal
    BY <1>2, ControllerAssumption DEF Requests, Time
  <2> QED
    BY <1>1, <1>2, <2>1, <2>2 DEF ControllerTypeOK
<1>4. bridge.pc = "idle"
  BY <1>2 DEF NoBridge
<1>5. ~BeforeReport /\ ~HandingOff /\ ~BeforeSend /\ ~At("submit")
  BY <1>4 DEF BeforeReport, HandingOff, BeforeSend, At
<1>6. EntryFacts /\ AttemptFacts /\ HandoffFacts /\ EffectFacts
  BY <1>1, <1>2, <1>5
     DEF EntryFacts, AttemptFacts, HandoffFacts, EffectFacts, NoEffectForgotten,
         DeliveredOnce, ReachedIsKnown
<1>7. BudgetFacts
  BY <1>2, <1>5, ControllerAssumption DEF BudgetFacts
<1> QED
  BY <1>2, <1>3, <1>6, <1>7, NoBridgeType DEF TypeOK, OwnershipInv

\* What the owners and the clock do.
LEMMA OwnersSteps ==
    ASSUME TypeOK, OwnershipInv, Owners
    PROVE  TypeOK' /\ OwnershipInv'
<1>1. ControllerTypeOK /\ EntryFacts /\ entries \in [Scope -> Entry]
  BY DEF TypeOK, ControllerTypeOK, OwnershipInv
<1>2. ASSUME ControllerTypeOK', QuietStep, UNCHANGED <<active, used, bridge, sent, reached>>,
             stopped => stopped'
      PROVE  TypeOK' /\ OwnershipInv'
  <2>1. TypeOK'
    BY <1>2 DEF TypeOK
  <2> QED
    BY <1>2, <2>1, QuietKeepsOwnership
<1>3. CASE \E s \in Scope, c \in Candidate :
               \E outcome \in OwnersOutcome(s, c) : OwnerResolves(s, c, outcome)
  BY <1>3, OwnersVerdict
<1>4. ASSUME UNCHANGED <<bridge, sent, reached>>, NEW batch \in Batches, UpdateCatalogue(batch)
      PROVE  TypeOK' /\ OwnershipInv'
  <2>1. UNCHANGED <<active, used, stopped>>
    BY <1>4 DEF UpdateCatalogue
  <2>2. ControllerTypeOK' /\ QuietStep
    BY <1>1, <1>4, CatalogueStep
  <2> QED
    BY <1>2, <1>4, <2>1, <2>2
<1>5. ASSUME UNCHANGED <<bridge, sent, reached>>, NEW s \in Scope,
             \/ ProposeApproach(s) \/ Requalified(s) \/ ReconciledEffect(s)
             \/ \E e \in SUBSET Evidence : ObserveEvidence(s, e)
      PROVE  TypeOK' /\ OwnershipInv'
  <2>1. UNCHANGED stopped
    BY <1>5 DEF ProposeApproach, Requalified, ReconciledEffect, ObserveEvidence, Woken
  <2> QED
    BY <1>1, <1>2, <1>5, <2>1, OwnersWordIsQuiet
<1>6. ASSUME UNCHANGED <<bridge, sent, reached>>, NEW subsystem \in Subsystem,
             UpdateConfiguration(subsystem)
      PROVE  TypeOK' /\ OwnershipInv'
  <2>1. UNCHANGED stopped
    BY <1>6 DEF UpdateConfiguration
  <2> QED
    BY <1>1, <1>2, <1>6, <2>1, ConfigurationIsQuiet
<1>7. ASSUME UNCHANGED <<bridge, sent, reached>>, Cancel \/ Tick
      PROVE  TypeOK' /\ OwnershipInv'
  <2>1. UNCHANGED <<entries, current, active, used>> /\ (stopped => stopped')
    BY <1>7 DEF Cancel, Tick
  <2>2. QuietStep
    BY <1>1, <2>1, SameEntriesAreQuiet
  <2>3. ControllerTypeOK'
    <3>1. stopped' \in BOOLEAN
      <4>1. CASE Cancel
        BY <4>1 DEF Cancel
      <4>2. CASE Tick
        BY <1>1, <4>2 DEF Tick, ControllerTypeOK
      <4> QED
        BY <1>7, <4>1, <4>2
    <3>2. now' \in Time
      BY <1>1, <1>7, ControllerAssumption DEF Cancel, Tick, ControllerTypeOK, Time
    <3>3. UNCHANGED <<entries, current, blocked, active, claimed, idleSince, serial,
                      revision, used>>
      BY <1>7 DEF Cancel, Tick
    <3> QED
      BY <1>1, <3>1, <3>2, <3>3 DEF ControllerTypeOK
  <2> QED
    BY <1>2, <1>7, <2>1, <2>2, <2>3
<1> QED
  BY <1>3, <1>4, <1>5, <1>6, <1>7 DEF Owners

\* Every step keeps the invariant.
LEMMA NextOwnership ==
    TypeOK /\ OwnershipInv /\ [Next]_vars => TypeOK' /\ OwnershipInv'
<1> SUFFICES ASSUME TypeOK, OwnershipInv, [Next]_vars PROVE TypeOK' /\ OwnershipInv'
  OBVIOUS
<1>1. ControllerTypeOK /\ EntryFacts /\ entries \in [Scope -> Entry]
        /\ used.models <= InTotal.models /\ used.tools <= InTotal.tools
  BY DEF TypeOK, ControllerTypeOK, OwnershipInv, BudgetFacts
<1>2. CASE Owners
  BY <1>2, OwnersSteps
<1>3. CASE HarnessDecides
  <2>1. At("idle") /\ NextAction /\ UNCHANGED <<bridge, sent, reached>>
    BY <1>3 DEF HarnessDecides
  <2>2. /\ ControllerTypeOK' /\ QuietStep /\ UNCHANGED used
        /\ UNCHANGED active \/ JustAdmitted
    BY <1>1, <2>1, DecisionStep
  <2>3. TypeOK'
    BY <2>1, <2>2 DEF TypeOK
  <2>4. stopped => stopped'
    BY <2>1 DEF NextAction, MustStop
  <2> QED
    BY <2>1, <2>2, <2>3, <2>4, QuietKeepsOwnership
<1>4. CASE Executes
  BY <1>4, StartStep, LoopSteps, FinishSteps, HandoffSteps DEF Executes
<1>5. CASE UNCHANGED vars
  <2>1. UNCHANGED <<active, used, bridge, sent, reached, entries, current, stopped>>
    BY <1>5 DEF vars, controllerVars
  <2>2. TypeOK'
    BY <1>5 DEF vars, controllerVars, TypeOK, ControllerTypeOK
  <2> QED
    BY <1>1, <2>1, <2>2, SameEntriesAreQuiet, QuietKeepsOwnership
<1> QED
  BY <1>2, <1>3, <1>4, <1>5 DEF Next

-----------------------------------------------------------------------------
(* Aging.  Whoever has aged comes first, the longest waiting before the others: *)
(* each admission takes one out of the challenges that have waited so long.   *)

\* Where the items of a concatenation come from.
LEMMA Concatenated ==
    ASSUME NEW s \in Seq(Int), NEW t \in Seq(Int)
    PROVE  /\ s \o t \in Seq(Int) /\ Len(s \o t) = Len(s) + Len(t)
           /\ Len(s) \in Nat /\ Len(t) \in Nat
           /\ \A i \in 1..Len(s) : (s \o t)[i] = s[i]
           /\ \A i \in 1..Len(t) : (s \o t)[Len(s) + i] = t[i]
<1>1. Len(s) \in Nat /\ Len(t) \in Nat
  OBVIOUS
<1>2. s \o t \in Seq(Int) /\ Len(s \o t) = Len(s) + Len(t)
  BY ConcatProperties
<1>3. \A i \in 1..(Len(s) + Len(t)) :
          (s \o t)[i] = IF i <= Len(s) THEN s[i] ELSE t[i - Len(s)]
  BY ConcatProperties
<1>4. ASSUME NEW i \in 1..Len(s) PROVE (s \o t)[i] = s[i]
  BY <1>1, <1>3
<1>5. ASSUME NEW i \in 1..Len(t) PROVE (s \o t)[Len(s) + i] = t[i]
  <2>1. Len(s) + i \in 1..(Len(s) + Len(t)) /\ ~(Len(s) + i <= Len(s)) /\ Len(s) + i - Len(s) = i
    BY <1>1
  <2> QED
    BY <1>3, <2>1
<1> QED
  BY <1>1, <1>2, <1>4, <1>5

\* The length of a selection key is a matter of the policy.
KeyLength == CASE Policy = "coverage" -> 4
               [] Policy = "progress" -> 7
               [] Policy = "benefit_cost" -> 9

\* A selection key is a sequence of numbers that begins with its prefix and ends
\* with the place of its scope.
LEMMA KeyShape ==
    ASSUME NEW r \in Entry, r.task \in Tasks
    PROVE  /\ SelectionKey(r) \in Seq(Int) /\ Len(SelectionKey(r)) = KeyLength
           /\ KeyLength \in Nat \ (0..3)
           /\ SelectionKey(r)[1] = Flagged(~Aged(r))
           /\ SelectionKey(r)[2] = IF Aged(r) THEN -r.bypasses ELSE 0
           /\ SelectionKey(r)[Len(SelectionKey(r))] = r.task.order
<1> DEFINE Middle == CASE Policy = "coverage" -> <<>>
                       [] Policy = "progress" -> <<-r.progress>> \o KnownCost(r.task)
                       [] Policy = "benefit_cost" ->
                              <<Flagged(r.task.benefit = Unknown),
                                -AtLeast(r.task.benefit, 0), -r.progress>>
                              \o KnownCost(r.task)
           Last == <<r.task.order>>
           Front == KeyPrefix(r) \o Middle
<1>1. /\ r.bypasses \in Nat /\ r.progress \in Nat /\ r.task.order \in Nat
      /\ r.task.cost \in Int /\ r.task.benefit \in Int
  BY ControllerAssumption DEF Entry, Task, Unknown
<1>2. \A b \in BOOLEAN : Flagged(b) \in Int
  BY DEF Flagged
<1>3. /\ KnownCost(r.task) \in Seq(Int) /\ Len(KnownCost(r.task)) = 2
  BY <1>1 DEF KnownCost, Flagged, AtLeast
<1>4. /\ KeyPrefix(r) \in Seq(Int) /\ Len(KeyPrefix(r)) = 3
      /\ KeyPrefix(r)[1] = Flagged(~Aged(r))
      /\ KeyPrefix(r)[2] = IF Aged(r) THEN -r.bypasses ELSE 0
  BY <1>1, <1>2 DEF KeyPrefix, Flagged
<1>5. Middle \in Seq(Int) /\ 4 + Len(Middle) = KeyLength /\ KeyLength \in Nat \ (0..3)
  <2>1. <<-r.progress>> \in Seq(Int) /\ <<>> \in Seq(Int)
    BY <1>1
  <2>2. <<Flagged(r.task.benefit = Unknown), -AtLeast(r.task.benefit, 0), -r.progress>>
            \in Seq(Int)
    BY <1>1 DEF AtLeast, Flagged
  <2>3. Policy \in {"coverage", "progress", "benefit_cost"}
    BY LimitsAssumption
  <2> DEFINE one == <<-r.progress>>
             three == <<Flagged(r.task.benefit = Unknown), -AtLeast(r.task.benefit, 0),
                        -r.progress>>
  <2>4. /\ one \in Seq(Int) /\ Len(one) = 1
        /\ three \in Seq(Int) /\ Len(three) = 3
        /\ Policy = "progress" => Middle = one \o KnownCost(r.task)
        /\ Policy = "benefit_cost" => Middle = three \o KnownCost(r.task)
        /\ Policy = "coverage" => Middle = <<>>
    BY <2>1, <2>2
  <2> HIDE DEF one, three, Middle
  <2>5. CASE Policy = "coverage"
    BY <2>1, <2>4, <2>5 DEF KeyLength
  <2>6. CASE Policy = "progress"
    <3>1. /\ one \o KnownCost(r.task) \in Seq(Int)
          /\ Len(one \o KnownCost(r.task)) = Len(one) + Len(KnownCost(r.task))
      BY <1>3, <2>4, Concatenated
    <3>2. Middle = one \o KnownCost(r.task)
      BY <2>4, <2>6
    <3>3. Middle \in Seq(Int) /\ Len(Middle) = 3
      BY <1>3, <2>4, <3>1, <3>2
    <3>4. KeyLength = 7
      BY <2>6 DEF KeyLength
    <3> QED
      BY <3>3, <3>4
  <2>7. CASE Policy = "benefit_cost"
    <3>1. /\ three \o KnownCost(r.task) \in Seq(Int)
          /\ Len(three \o KnownCost(r.task)) = Len(three) + Len(KnownCost(r.task))
      BY <1>3, <2>4, Concatenated
    <3>2. Middle = three \o KnownCost(r.task)
      BY <2>4, <2>7
    <3>3. Middle \in Seq(Int) /\ Len(Middle) = 5
      BY <1>3, <2>4, <3>1, <3>2
    <3>4. KeyLength = 9
      BY <2>7 DEF KeyLength
    <3> QED
      BY <3>3, <3>4
  <2> QED
    BY <2>3, <2>5, <2>6, <2>7
<1>6. Last \in Seq(Int) /\ Len(Last) = 1 /\ Last[1] = r.task.order
  BY <1>1
<1>7. SelectionKey(r) = Front \o Last
  BY DEF SelectionKey
<1> HIDE DEF Middle, Last
<1>8. /\ Front \in Seq(Int) /\ Len(Front) = 3 + Len(Middle) /\ Len(Middle) \in Nat
      /\ Front[1] = KeyPrefix(r)[1] /\ Front[2] = KeyPrefix(r)[2]
  <2>1. /\ KeyPrefix(r) \o Middle \in Seq(Int)
        /\ Len(KeyPrefix(r) \o Middle) = Len(KeyPrefix(r)) + Len(Middle) /\ Len(Middle) \in Nat
        /\ \A i \in 1..Len(KeyPrefix(r)) : (KeyPrefix(r) \o Middle)[i] = KeyPrefix(r)[i]
    BY <1>4, <1>5, Concatenated
  <2>2. 1 \in 1..3 /\ 2 \in 1..3
    OBVIOUS
  <2> QED
    BY <1>4, <2>1, <2>2
<1> HIDE DEF Front
<1>9. /\ SelectionKey(r) \in Seq(Int) /\ Len(SelectionKey(r)) = 4 + Len(Middle)
      /\ SelectionKey(r)[1] = Front[1] /\ SelectionKey(r)[2] = Front[2]
      /\ SelectionKey(r)[3 + Len(Middle) + 1] = Last[1]
  <2>1. /\ Front \o Last \in Seq(Int) /\ Len(Front \o Last) = Len(Front) + Len(Last)
        /\ \A i \in 1..Len(Front) : (Front \o Last)[i] = Front[i]
        /\ \A i \in 1..Len(Last) : (Front \o Last)[Len(Front) + i] = Last[i]
    BY <1>6, <1>8, Concatenated
  <2>2. /\ 1 \in 1..Len(Front) /\ 2 \in 1..Len(Front) /\ 1 \in 1..Len(Last)
        /\ Len(Front) + Len(Last) = 4 + Len(Middle)
    BY <1>6, <1>8
  <2> QED
    BY <1>7, <1>8, <2>1, <2>2
<1> QED
  BY <1>4, <1>5, <1>6, <1>8, <1>9

\* Nothing is chosen before an aged challenge but one that aged as long.
LEMMA AgedFirst ==
    ASSUME NEW r \in Entry, NEW q \in Entry, r.task \in Tasks, q.task \in Tasks,
           Precedes(SelectionKey(r), SelectionKey(q)), Aged(q)
    PROVE  r.bypasses >= q.bypasses
<1> DEFINE k == SelectionKey(r)
           l == SelectionKey(q)
<1>1. /\ k[1] = Flagged(~Aged(r)) /\ k[2] = IF Aged(r) THEN -r.bypasses ELSE 0
      /\ l[1] = 0 /\ l[2] = -q.bypasses
      /\ r.bypasses \in Nat /\ q.bypasses \in Nat
  BY KeyShape DEF Flagged, Entry
<1>2. k \in Seq(Int)
  BY KeyShape
<1> HIDE DEF k, l
<1>3. PICK i \in 1..Len(k) : k[i] < l[i] /\ \A j \in 1..(i - 1) : k[j] = l[j]
  BY <1>2 DEF Precedes, k, l
<1>4. i # 1 /\ Aged(r)
  BY <1>1, <1>3 DEF Flagged
<1>5. k[2] <= l[2]
  BY <1>1, <1>3, <1>4
<1> QED
  BY <1>1, <1>4, <1>5

\* How often the challenge was passed over since its scope was last admitted.
Bypassed(c) == IF current[c] = NoScope THEN 0 ELSE entries[current[c]].bypasses

\* The challenges that aging has put in front, and how many of them may have
\* waited for j more admissions: each such admission took one out of them.
Overdue(j) == {c \in Challenge : Bypassed(c) >= MaxBypasses + j}

AgingInv ==
    \A j \in Nat :
        Overdue(j) # {} => Cardinality(Overdue(j)) + j < Cardinality(Challenge)

\* The counts are numbers and the sets of overdue challenges finite.
LEMMA BypassedType ==
    ASSUME ControllerTypeOK
    PROVE  /\ \A c \in Challenge : Bypassed(c) \in Nat
           /\ \A j \in Nat : /\ Overdue(j) \subseteq Challenge /\ IsFiniteSet(Overdue(j))
                            /\ Cardinality(Overdue(j)) \in Nat
           /\ IsFiniteSet(Challenge) /\ Cardinality(Challenge) \in Nat
           /\ MaxBypasses \in Nat \ {0}
<1>1. ASSUME NEW c \in Challenge PROVE Bypassed(c) \in Nat
  BY DEF Bypassed, ControllerTypeOK, Entry
<1>2. IsFiniteSet(Challenge) /\ MaxBypasses \in Nat \ {0}
  BY ControllerAssumption, LimitsAssumption
<1>3. ASSUME NEW j \in Nat PROVE Overdue(j) \subseteq Challenge
  BY DEF Overdue
<1> QED
  BY <1>1, <1>2, <1>3, FS_Subset, FS_CardinalityType

LEMMA BypassedTypeNext ==
    ASSUME ControllerTypeOK'
    PROVE  \A c \in Challenge : Bypassed(c)' \in Nat
BY DEF Bypassed, ControllerTypeOK, Entry

\* While nobody is passed over, nobody ages.
LEMMA NobodyAges ==
    ASSUME ControllerTypeOK, AgingInv, ControllerTypeOK',
           \A c \in Challenge : Bypassed(c)' <= Bypassed(c)
    PROVE  AgingInv'
<1> SUFFICES ASSUME NEW j \in Nat, Overdue(j)' # {}
             PROVE  Cardinality(Overdue(j))' + j < Cardinality(Challenge)
  BY DEF AgingInv
<1>1. Overdue(j)' \subseteq Overdue(j)
  <2> SUFFICES ASSUME NEW c \in Challenge, Bypassed(c)' >= MaxBypasses + j
               PROVE  Bypassed(c) >= MaxBypasses + j
    BY DEF Overdue
  <2>1. Bypassed(c) \in Nat /\ Bypassed(c)' \in Nat /\ MaxBypasses \in Nat
    BY BypassedType, BypassedTypeNext
  <2>2. Bypassed(c)' <= Bypassed(c)
    OBVIOUS
  <2> HIDE DEF Bypassed
  <2> QED
    BY <2>1, <2>2
<1>2. /\ IsFiniteSet(Overdue(j)) /\ Cardinality(Overdue(j)) \in Nat
      /\ Cardinality(Overdue(j)') \in Nat /\ Cardinality(Challenge) \in Nat
      /\ Cardinality(Overdue(j)') <= Cardinality(Overdue(j))
  BY <1>1, BypassedType, FS_Subset, FS_CardinalityType
<1>3. Cardinality(Overdue(j)) + j < Cardinality(Challenge)
  BY <1>1 DEF AgingInv
<1> QED
  BY <1>2, <1>3

LEMMA SameAgeStep ==
    ASSUME ControllerTypeOK, AgingInv, ControllerTypeOK', SameAge
    PROVE  AgingInv'
<1>1. ASSUME NEW c \in Challenge PROVE Bypassed(c)' <= Bypassed(c)
  <2>1. Bypassed(c)' = Bypassed(c)
    BY DEF Bypassed, SameAge, ControllerTypeOK
  <2> QED
    BY <2>1, BypassedType
<1> QED
  BY <1>1, NobodyAges

\* update_catalogue lists a scope with a fresh count.
LEMMA CatalogueAges ==
    ASSUME ControllerTypeOK, AgingInv, ControllerTypeOK', NEW batch \in Batches,
           UpdateCatalogue(batch)
    PROVE  AgingInv'
<1> DEFINE Replaced == {current[ChallengeOf[task.scope]] : task \in
                           {u \in batch : ~IsCurrent(u.scope)}} \ {NoScope}
           Item(s) == {task \in batch : task.scope = s}
           The(s) == CHOOSE task \in Item(s) : TRUE
           Renewed(s) == [entries[s] EXCEPT !.task = The(s)]
<1>1. /\ entries' = [s \in Scope |->
              CASE Item(s) # {} /\ IsCurrent(s) -> Renewed(s)
                [] Item(s) # {} /\ ~IsCurrent(s) -> Listed(The(s))
                [] Item(s) = {} /\ s \in Replaced -> Superseded(s)
                [] OTHER -> entries[s]]
      /\ current' = [c \in Challenge |->
              IF \E task \in batch : ChallengeOf[task.scope] = c
              THEN CHOOSE s \in Scope : ChallengeOf[s] = c /\ Item(s) # {}
              ELSE current[c]]
  BY DEF UpdateCatalogue
<1>2. /\ entries \in [Scope -> Entry] /\ current \in [Challenge -> Scope \cup {NoScope}]
      /\ NoScope \notin Scope
  BY ControllerAssumption DEF ControllerTypeOK
<1>3. ASSUME NEW s \in Scope
      PROVE  /\ entries'[s].bypasses \in {0, entries[s].bypasses}
             /\ Item(s) # {} /\ ~IsCurrent(s) => entries'[s].bypasses = 0
  <2> HIDE DEF Item, The, Replaced
  <2>1. entries[s] \in Entry
    BY <1>2
  <2>2. CASE Item(s) # {} /\ IsCurrent(s)
    <3>1. entries'[s] = Renewed(s)
      BY <1>1, <2>2
    <3> QED
      BY <2>1, <2>2, <3>1 DEF Entry
  <2>3. CASE Item(s) # {} /\ ~IsCurrent(s)
    <3>1. entries'[s] = Listed(The(s))
      BY <1>1, <2>3
    <3> QED
      BY <3>1 DEF Listed
  <2>4. CASE Item(s) = {} /\ s \in Replaced
    <3>1. entries'[s] = Superseded(s)
      BY <1>1, <2>4
    <3>2. Superseded(s) \in {entries[s], [entries[s] EXCEPT !.state = "superseded"]}
      BY DEF Superseded
    <3> QED
      BY <2>1, <2>4, <3>1, <3>2 DEF Entry
  <2>5. CASE Item(s) = {} /\ s \notin Replaced
    BY <1>1, <2>5
  <2> QED
    BY <2>2, <2>3, <2>4, <2>5
<1>4. ASSUME NEW c \in Challenge PROVE Bypassed(c)' <= Bypassed(c)
  <2>1. Bypassed(c) \in Nat /\ Bypassed(c)' \in Nat
    BY BypassedType, BypassedTypeNext
  <2>2. CASE \E task \in batch : ChallengeOf[task.scope] = c
    <3>1. PICK task \in batch : ChallengeOf[task.scope] = c
      BY <2>2
    <3>2. task.scope \in Scope
      <4>1. task \in Task(Scope)
        BY <3>1, ControllerAssumption
      <4> QED
        BY <4>1 DEF Task
    <3>3. \E s \in Scope : ChallengeOf[s] = c /\ Item(s) # {}
      BY <3>1, <3>2
    <3>4. current'[c] \in Scope /\ ChallengeOf[current'[c]] = c /\ Item(current'[c]) # {}
      BY <1>1, <2>2, <3>3
    <3>5. CASE IsCurrent(current'[c])
      <4>1. current[c] = current'[c]
        BY <3>4, <3>5 DEF IsCurrent
      <4> QED
        BY <1>2, <1>3, <2>1, <3>4, <4>1 DEF Bypassed
    <3>6. CASE ~IsCurrent(current'[c])
      <4>1. Bypassed(c)' = 0
        BY <1>2, <1>3, <3>4, <3>6 DEF Bypassed
      <4> QED
        BY <2>1, <4>1
    <3> QED
      BY <3>5, <3>6
  <2>3. CASE ~\E task \in batch : ChallengeOf[task.scope] = c
    <3>1. current'[c] = current[c]
      BY <1>1, <2>3
    <3> QED
      BY <1>2, <1>3, <2>1, <3>1 DEF Bypassed
  <2> QED
    BY <2>2, <2>3
<1> QED
  BY <1>4, NobodyAges

\* The attempt that next_action admits is of a foremost eligible scope.
Admission(s) ==
    /\ Eligible(s) /\ Admit(s)
    /\ \A t \in Scope \ {s} :
           Eligible(t) => Precedes(SelectionKey(entries[s]), SelectionKey(entries[t]))
    /\ UNCHANGED current

\* Nothing but the catalogue and an admission changes how long a challenge waited.
LEMMA WhoAges ==
    ASSUME TypeOK, OwnershipInv, [Next]_vars
    PROVE  \/ SameAge
           \/ \E batch \in Batches : UpdateCatalogue(batch)
           \/ \E s \in Scope : Admission(s)
<1>1. /\ ControllerTypeOK /\ EntryFacts /\ bridge \in Bridge
      /\ entries \in [Scope -> Entry]
  BY DEF TypeOK, ControllerTypeOK, OwnershipInv
<1>2. ASSUME UNCHANGED <<entries, current>> PROVE SameAge
  BY <1>2 DEF SameAge
<1>3. ASSUME NEW s \in Scope, NEW c \in Candidate, NEW outcome \in CandidateOutcome,
             ResolveCandidate(s, c, outcome), UNCHANGED current
      PROVE  SameAge
  <2>1. entries[s] \in Entry /\ entries[s].pending \in Candidate /\ entries[s].state \in OpenStates
    BY <1>1, <1>3 DEF ResolveCandidate, MayResolve
  <2>2. Resolved(entries[s], outcome).bypasses = entries[s].bypasses
    BY <2>1, ResolvedKeeps
  <2>3. entries' = [entries EXCEPT ![s] = Resolved(entries[s], outcome)]
    BY <1>3 DEF ResolveCandidate
  <2> QED
    BY <1>1, <1>3, <2>2, <2>3 DEF SameAge
<1>4. ASSUME NEW report \in Report, BeforeReport, FinishAttempt(report)
      PROVE  SameAge
  <2>1. active.scope \in Scope
    BY <1>4 DEF OwnershipInv, AttemptFacts
  <2>2. Finished(report).bypasses = entries[active.scope].bypasses
    BY <1>1, <2>1, FinishedKeeps DEF SameHistory
  <2>3. entries' = [entries EXCEPT ![active.scope] = Finished(report)] /\ UNCHANGED current
    BY <1>4 DEF FinishAttempt
  <2> QED
    BY <1>1, <2>2, <2>3 DEF SameAge
<1>5. ASSUME HandingOff, NEW outcome \in CandidateOutcome, Resolve(outcome)
      PROVE  SameAge
  <2>1. Own \in Scope /\ bridge.candidate \in Candidate
    BY <1>5 DEF OwnershipInv, AttemptFacts, HandoffFacts
  <2> QED
    BY <1>3, <1>5, <2>1 DEF Resolve, ControllerKept
<1>6. CASE Owners
  <2>1. ASSUME NEW s \in Scope, NEW c \in Candidate, NEW outcome \in OwnersOutcome(s, c),
               OwnerResolves(s, c, outcome)
        PROVE  SameAge
    BY <1>3, <2>1 DEF OwnerResolves, ControllerKept, OwnersOutcome, CandidateOutcome
  <2>2. ASSUME NEW s \in Scope,
               \/ ProposeApproach(s) \/ Requalified(s) \/ ReconciledEffect(s)
               \/ \E e \in SUBSET Evidence : ObserveEvidence(s, e)
        PROVE  SameAge
    BY <1>1, <2>2, OwnersWordIsQuiet
  <2>3. ASSUME NEW subsystem \in Subsystem, UpdateConfiguration(subsystem)
        PROVE  SameAge
    BY <1>1, <2>3, ConfigurationIsQuiet
  <2>4. CASE Cancel \/ Tick
    BY <1>2, <2>4 DEF Cancel, Tick
  <2> QED
    BY <1>6, <2>1, <2>2, <2>3, <2>4 DEF Owners
<1>7. CASE HarnessDecides
  <2>1. /\ UNCHANGED current
        /\ \/ UNCHANGED entries
           \/ \E r \in Foremost(EligibleRecords) : Admit(r.task.scope)
    BY <1>7 DEF HarnessDecides, NextAction, Idle
  <2>2. ASSUME NEW r \in Foremost(EligibleRecords), Admit(r.task.scope)
        PROVE  \E s \in Scope : Admission(s)
    <3>1. PICK s \in Scope : Eligible(s) /\ r = entries[s]
      BY <2>2 DEF Foremost, EligibleRecords
    <3>2. r.task.scope = s
      BY <1>1, <3>1 DEF EntryFacts, Eligible, Due
    <3>3. ASSUME NEW t \in Scope \ {s}, Eligible(t)
          PROVE  Precedes(SelectionKey(entries[s]), SelectionKey(entries[t]))
      <4>1. entries[t].task.scope = t
        BY <1>1, <3>3 DEF EntryFacts, Eligible, Due
      <4>2. entries[t] # r /\ entries[t] \in EligibleRecords
        BY <3>2, <3>3, <4>1 DEF EligibleRecords
      <4> QED
        BY <2>2, <3>1, <4>2 DEF Foremost
    <3> QED
      BY <2>1, <2>2, <3>1, <3>2, <3>3 DEF Admission
  <2> QED
    BY <1>2, <2>1, <2>2
<1>8. CASE Start \/ CallModel \/ ModelReturns \/ CallTool \/ Capture \/ Answer
  BY <1>2, <1>8 DEF Start, ClaimAttempt, CallModel, ModelReturns, CallTool, Capture, Answer,
                    Guarded, FailWith, controllerVars
<1>9. CASE ToolReturns
  BY <1>2, <1>9 DEF ToolReturns, Guarded, FailWith, Cancel, controllerVars
<1>10. CASE Finish \/ ReportUsage
  <2>1. ReportOfAttempt \in Report /\ UsageOnly \in Report
    BY <1>1 DEF ReportOfAttempt, UsageOnly, EmptyReport, Report, Bridge
  <2> QED
    BY <1>4, <1>10, <2>1 DEF Finish, ReportUsage, At, BeforeReport
<1>11. CASE InterruptedLoop \/ InterruptedHandoff \/ Cleanup \/ Handoff \/ SubmitReturns
  BY <1>2, <1>11 DEF InterruptedLoop, InterruptedHandoff, Cleanup, Handoff, Proceed, GiveUp,
                     SubmitReturns, ControllerKept, controllerVars
<1>12. CASE QualifyReturns \/ ReserveReturns \/ CheckpointReturns
  <2>1. HandingOff
    BY <1>12 DEF QualifyReturns, ReserveReturns, CheckpointReturns, At, HandingOff
  <2>2. CASE UNCHANGED controllerVars
    BY <1>2, <2>2 DEF controllerVars
  <2>3. CASE Resolve("qualification_rejected") \/ Resolve("ambiguous")
    BY <1>5, <2>1, <2>3 DEF CandidateOutcome
  <2> QED
    BY <1>12, <2>2, <2>3
       DEF QualifyReturns, ReserveReturns, CheckpointReturns, Proceed, GiveUp, Uncertain
<1>13. CASE RecordReturns \/ Settle \/ InterruptedSend
  <2>1. HandingOff
    BY <1>13 DEF RecordReturns, Settle, InterruptedSend, At, HandingOff
  <2>2. OutcomeOf(bridge.verdict) \in CandidateOutcome /\ "ambiguous" \in CandidateOutcome
    BY <1>1 DEF OutcomeOf, Bridge, Verdict, CandidateOutcome
  <2>3. CASE UNCHANGED controllerVars
    BY <1>2, <2>3 DEF controllerVars
  <2>4. CASE \E outcome \in CandidateOutcome : Resolve(outcome)
    BY <1>5, <2>1, <2>4
  <2> QED
    BY <1>13, <2>2, <2>3, <2>4 DEF RecordReturns, Settle, InterruptedSend, Proceed, Uncertain
<1>14. CASE UNCHANGED vars
  BY <1>2, <1>14 DEF vars, controllerVars
<1> QED
  BY <1>6, <1>7, <1>8, <1>9, <1>10, <1>11, <1>12, <1>13, <1>14 DEF Next, Executes

\* An admission passes over the other eligible scopes, but the count of those
\* that have aged only rises together with an older one being admitted.
LEMMA AdmissionAges ==
    ASSUME TypeOK, OwnershipInv, AgingInv, ControllerTypeOK', NEW s \in Scope, Admission(s)
    PROVE  AgingInv'
<1> DEFINE C == ChallengeOf[s]
           Given(e) == [e EXCEPT !.state = "active", !.attempts = @ + 1, !.bypasses = 0,
                                 !.repairNext = FALSE, !.readyAt = NoTime]
           Passed(e) == [e EXCEPT !.bypasses = @ + 1]
<1>1. /\ ControllerTypeOK /\ EntryFacts /\ entries \in [Scope -> Entry]
      /\ current \in [Challenge -> Scope \cup {NoScope}] /\ UNCHANGED current
      /\ C \in Challenge /\ current[C] = s /\ NoScope \notin Scope
  BY ControllerAssumption
     DEF TypeOK, ControllerTypeOK, OwnershipInv, Admission, Eligible, IsCurrent
<1>2. /\ entries' = [t \in Scope |->
             CASE t = s -> Given(entries[s])
               [] t # s /\ Eligible(t) -> Passed(entries[t])
               [] OTHER -> entries[t]]
  BY DEF Admission, Admit
<1>3. ASSUME NEW t \in Scope, Eligible(t) PROVE entries[t].task \in Tasks
  BY <1>1, <1>3 DEF EntryFacts, Eligible, Due, Entry, NoTask
<1>4. ASSUME NEW t \in Scope
      PROVE  \/ t = s /\ entries'[t].bypasses = 0
             \/ entries'[t].bypasses = entries[t].bypasses
             \/ /\ entries'[t].bypasses = entries[t].bypasses + 1
                /\ entries[t].bypasses >= MaxBypasses => entries[s].bypasses >= entries[t].bypasses
  <2>0. entries[t] \in Entry /\ entries[s] \in Entry
    BY <1>1
  <2>1. CASE t = s
    <3>1. entries'[t] = Given(entries[s])
      BY <1>2, <2>1
    <3> QED
      BY <2>0, <2>1, <3>1 DEF Entry
  <2>2. CASE t # s /\ Eligible(t)
    <3>1. entries'[t] = Passed(entries[t])
      BY <1>2, <2>2
    <3>2. entries'[t].bypasses = entries[t].bypasses + 1
      BY <2>0, <3>1 DEF Entry
    <3>3. Precedes(SelectionKey(entries[s]), SelectionKey(entries[t])) /\ Eligible(s)
      BY <2>2 DEF Admission
    <3>4. ASSUME entries[t].bypasses >= MaxBypasses
          PROVE  entries[s].bypasses >= entries[t].bypasses
      BY <1>3, <2>0, <2>2, <3>3, <3>4, AgedFirst DEF Aged
    <3> QED
      BY <3>2, <3>4
  <2>3. CASE t # s /\ ~Eligible(t)
    BY <1>2, <2>3
  <2> QED
    BY <2>1, <2>2, <2>3
<1>5. /\ Bypassed(C) = entries[s].bypasses /\ Bypassed(C)' = 0
  <2>1. entries'[s] = Given(entries[s]) /\ entries[s] \in Entry
    BY <1>1, <1>2
  <2>2. entries'[s].bypasses = 0
    BY <2>1 DEF Entry
  <2> QED
    BY <1>1, <2>2 DEF Bypassed
<1>6. ASSUME NEW c \in Challenge
      PROVE  \/ Bypassed(c)' \in {0, Bypassed(c)}
             \/ /\ Bypassed(c)' = Bypassed(c) + 1
                /\ Bypassed(c) >= MaxBypasses => Bypassed(C) >= Bypassed(c)
  <2>1. CASE current[c] = NoScope
    BY <1>1, <2>1 DEF Bypassed
  <2>2. CASE current[c] # NoScope
    <3>1. /\ current[c] \in Scope /\ Bypassed(c) = entries[current[c]].bypasses
          /\ Bypassed(c)' = entries'[current[c]].bypasses
      BY <1>1, <2>2 DEF Bypassed
    <3> QED
      BY <1>4, <1>5, <3>1
  <2> QED
    BY <2>1, <2>2
<1>7. /\ \A c \in Challenge : Bypassed(c) \in Nat /\ Bypassed(c)' \in Nat
      /\ MaxBypasses \in Nat \ {0}
      /\ IsFiniteSet(Challenge) /\ Cardinality(Challenge) \in Nat
      /\ \A j \in Nat : IsFiniteSet(Overdue(j)) /\ Cardinality(Overdue(j)) \in Nat
  BY <1>1, BypassedType, BypassedTypeNext
<1> SUFFICES ASSUME NEW j \in Nat, Overdue(j)' # {}
             PROVE  Cardinality(Overdue(j))' + j < Cardinality(Challenge)
  BY DEF AgingInv
<1>8. Overdue(j)' \subseteq Challenge \ {C}
  <2> SUFFICES ASSUME NEW c \in Challenge, Bypassed(c)' >= MaxBypasses + j PROVE c # C
    BY DEF Overdue
  <2> QED
    BY <1>5, <1>7
<1> HIDE DEF C
<1>9. CASE j = 0
  <2>1. /\ IsFiniteSet(Challenge \ {C})
        /\ Cardinality(Challenge \ {C}) = Cardinality(Challenge) - 1
    BY <1>1, <1>7, FS_RemoveElement
  <2>2. Cardinality(Overdue(j)') <= Cardinality(Challenge \ {C}) /\ Cardinality(Overdue(j)') \in Nat
    BY <1>8, <2>1, FS_Subset, FS_CardinalityType
  <2> QED
    BY <1>7, <1>9, <2>1, <2>2
<1>10. CASE j > 0 /\ Overdue(j)' \subseteq Overdue(j)
  <2>1. Cardinality(Overdue(j)') <= Cardinality(Overdue(j)) /\ Cardinality(Overdue(j)') \in Nat
    BY <1>7, <1>10, FS_Subset, FS_CardinalityType
  <2>2. Cardinality(Overdue(j)) + j < Cardinality(Challenge)
    BY <1>10 DEF AgingInv
  <2> QED
    BY <1>7, <2>1, <2>2
<1>11. CASE j > 0 /\ ~(Overdue(j)' \subseteq Overdue(j))
  <2>1. j - 1 \in Nat
    BY <1>11
  <2>2. PICK c \in Challenge : Bypassed(c)' >= MaxBypasses + j /\ ~(Bypassed(c) >= MaxBypasses + j)
    BY <1>11 DEF Overdue
  <2>3. Bypassed(C) >= MaxBypasses + (j - 1)
    <3> HIDE DEF Bypassed
    <3> QED
      BY <1>1, <1>6, <1>7, <2>1, <2>2
  <2>4. C \in Overdue(j - 1)
    BY <1>1, <2>3 DEF Overdue
  <2>5. Overdue(j)' \subseteq Overdue(j - 1)
    <3> SUFFICES ASSUME NEW d \in Challenge, Bypassed(d)' >= MaxBypasses + j
                 PROVE  Bypassed(d) >= MaxBypasses + (j - 1)
      BY DEF Overdue
    <3> HIDE DEF Bypassed
    <3> QED
      BY <1>6, <1>7, <2>1
  <2>6. /\ IsFiniteSet(Overdue(j - 1) \ {C})
        /\ Cardinality(Overdue(j - 1) \ {C}) = Cardinality(Overdue(j - 1)) - 1
    BY <1>7, <2>1, <2>4, FS_RemoveElement
  <2>7. /\ Cardinality(Overdue(j)') <= Cardinality(Overdue(j - 1) \ {C})
        /\ Cardinality(Overdue(j)') \in Nat
    <3>1. Overdue(j)' \subseteq Overdue(j - 1) \ {C}
      BY <1>8, <2>5
    <3> QED
      BY <2>6, <3>1, FS_Subset, FS_CardinalityType
  <2>8. Cardinality(Overdue(j - 1)) + (j - 1) < Cardinality(Challenge)
    BY <2>1, <2>4 DEF AgingInv
  <2> QED
    BY <1>7, <2>1, <2>6, <2>7, <2>8
<1> QED
  BY <1>9, <1>10, <1>11

\* Initially nobody has waited.
LEMMA InitAging ==
    ASSUME Init PROVE AgingInv
<1>1. MaxBypasses \in Nat \ {0}
  BY LimitsAssumption
<1>2. ASSUME NEW c \in Challenge PROVE Bypassed(c) = 0
  BY DEF Init, ControllerInit, Bypassed
<1>3. ASSUME NEW j \in Nat PROVE Overdue(j) = {}
  <2> HIDE DEF Bypassed
  <2> QED
    BY <1>1, <1>2 DEF Overdue
<1> QED
  BY <1>3 DEF AgingInv

-----------------------------------------------------------------------------
(* The order of the keys.                                                     *)

\* One of the sets of a family of subsets of a finite set has no other inside it.
LEMMA SmallestSet ==
    ASSUME NEW S, IsFiniteSet(S), NEW family \in SUBSET (SUBSET S), family # {}
    PROVE  \E x \in family : \A y \in family : y \subseteq x => y = x
<1>1. family \subseteq FiniteSubsetsOf(S)
  BY FS_FiniteSubsetsOfFinite
<1>2. PICK x \in family : \A y \in family : ~(<<y, x>> \in StrictSubsetOrdering(S))
  BY <1>1, FS_StrictSubsetOrderingWellFounded, WFMin
<1>3. ASSUME NEW y \in family, y \subseteq x PROVE y = x
  BY <1>2, <1>3 DEF StrictSubsetOrdering
<1> QED
  BY <1>3

\* The keys that the policy compares.
Keys == {k \in Seq(Int) : Len(k) = KeyLength}

\* Keys that differ somewhere differ somewhere first.
LEMMA KeysCompare ==
    ASSUME KeyLength \in Nat, NEW k \in Keys, NEW l \in Keys,
           NEW n \in 1..KeyLength, k[n] # l[n]
    PROVE  Precedes(k, l) \/ Precedes(l, k)
<1> DEFINE S == 1..KeyLength
           family == {1..i : i \in {j \in S : k[j] # l[j]}}
<1>1. IsFiniteSet(S) /\ family \in SUBSET (SUBSET S) /\ family # {}
  <2>1. IsFiniteSet(S)
    BY FS_Interval
  <2>2. 1..n \in family
    OBVIOUS
  <2>3. ASSUME NEW i \in S PROVE 1..i \subseteq S
    OBVIOUS
  <2> QED
    BY <2>1, <2>2, <2>3
<1> HIDE DEF S, family
<1>2. PICK x \in family : \A y \in family : y \subseteq x => y = x
  BY <1>1, SmallestSet
<1> USE DEF S, family
<1>3. PICK i \in S : x = 1..i /\ k[i] # l[i]
  BY <1>2
<1>4. ASSUME NEW j \in 1..(i - 1) PROVE k[j] = l[j]
  <2>1. j \in S /\ 1..j \subseteq 1..i /\ i \in 1..i /\ i \notin 1..j
    BY <1>3
  <2>2. 1..j # x
    BY <1>3, <2>1
  <2> QED
    BY <1>2, <1>3, <2>1, <2>2
<1>5. k[i] \in Int /\ l[i] \in Int /\ DOMAIN k = S /\ DOMAIN l = S
  BY <1>3 DEF Keys
<1> QED
  BY <1>3, <1>4, <1>5 DEF Precedes

\* The order is strict and transitive.
LEMMA KeysOrdered ==
    ASSUME KeyLength \in Nat, NEW k \in Keys, NEW l \in Keys, NEW m \in Keys
    PROVE  /\ ~Precedes(k, k)
           /\ Precedes(k, l) /\ Precedes(l, m) => Precedes(k, m)
<1>1. /\ DOMAIN k = 1..KeyLength /\ DOMAIN l = 1..KeyLength /\ DOMAIN m = 1..KeyLength
      /\ \A i \in 1..KeyLength : k[i] \in Int /\ l[i] \in Int /\ m[i] \in Int
  BY DEF Keys
<1>2. ~Precedes(k, k)
  BY <1>1 DEF Precedes
<1>3. ASSUME Precedes(k, l), Precedes(l, m) PROVE Precedes(k, m)
  <2>1. PICK i \in 1..KeyLength : k[i] < l[i] /\ \A j \in 1..(i - 1) : k[j] = l[j]
    BY <1>1, <1>3 DEF Precedes
  <2>2. PICK n \in 1..KeyLength : l[n] < m[n] /\ \A j \in 1..(n - 1) : l[j] = m[j]
    BY <1>1, <1>3 DEF Precedes
  <2>3. CASE i <= n
    <3>1. k[i] < m[i]
      BY <1>1, <2>1, <2>2, <2>3
    <3>2. ASSUME NEW j \in 1..(i - 1) PROVE k[j] = m[j]
      BY <2>1, <2>2, <2>3
    <3> QED
      BY <1>1, <3>1, <3>2 DEF Precedes
  <2>4. CASE n < i
    <3>1. k[n] < m[n]
      BY <1>1, <2>1, <2>2, <2>4
    <3>2. ASSUME NEW j \in 1..(n - 1) PROVE k[j] = m[j]
      BY <2>1, <2>2, <2>4
    <3> QED
      BY <1>1, <3>1, <3>2 DEF Precedes
  <2> QED
    BY <2>3, <2>4
<1> QED
  BY <1>2, <1>3

\* One eligible record comes before all the others.
SelectionDecides ==
    EligibleRecords # {} => \E r \in EligibleRecords : Foremost(EligibleRecords) = {r}

-----------------------------------------------------------------------------
(* The theorems. *)

(* Entries, attempts and the handoff are always well-typed and owned: for any *)
(* scopes, limits, failures and catalogues, an open effect is touched only by *)
(* the handoff that has it or by the owners (Controller, BrainAttempt).       *)
THEOREM BridgeOwnership == Spec => [](TypeOK /\ OwnershipInv)
<1>1. Init => TypeOK /\ OwnershipInv
  BY InitOwnership
<1>2. TypeOK /\ OwnershipInv /\ [Next]_vars => (TypeOK /\ OwnershipInv)'
  BY NextOwnership
<1> QED
  BY <1>1, <1>2, PTL DEF Spec

(* The state of the controller and of the bridge is always well-typed:        *)
(* no counter of a scope leaves its limit.                                    *)
THEOREM BridgeTyped == Spec => []TypeOK
BY BridgeOwnership, PTL

(* A candidate that was sent and is not settled is never forgotten, whatever  *)
(* exceptions, interrupts, retirements and stops occur (_submit_candidate).   *)
THEOREM EffectsRemembered == Spec => []NoEffectForgotten
<1>1. OwnershipInv => NoEffectForgotten
  BY DEF OwnershipInv, EffectFacts
<1> QED
  BY <1>1, BridgeOwnership, PTL

(* No candidate reaches the platform twice for a scope, although attempts are *)
(* repeated and verdicts get lost (_submit_candidate, resolve_candidate).     *)
THEOREM CandidateDeliveredOnce == Spec => []DeliveredOnce
<1>1. OwnershipInv => DeliveredOnce
  BY DEF OwnershipInv, EffectFacts
<1> QED
  BY <1>1, BridgeOwnership, PTL

(* No attempt runs on a scope while an effect of its challenge is open under  *)
(* another scope, a retired one included (_eligible).                         *)
THEOREM OpenEffectsBlock == Spec => []OpenEffectBlocksChallenge
<1>1. OwnershipInv => OpenEffectBlocksChallenge
  BY DEF OwnershipInv, AttemptFacts, OpenEffectBlocksChallenge, Siblings
<1> QED
  BY <1>1, BridgeOwnership, PTL

(* The requests used and those the attempt in flight has made never exceed    *)
(* the budgets of the run (next_action, finish_attempt, _model, _tool).       *)
THEOREM BudgetsKept == Spec => []UsageWithinBudget
<1>1. TypeOK /\ OwnershipInv => UsageWithinBudget
  <2> SUFFICES ASSUME TypeOK, OwnershipInv PROVE UsageWithinBudget
    OBVIOUS
  <2>1. /\ used.models \in Nat /\ used.tools \in Nat
        /\ bridge.models \in Nat /\ bridge.tools \in Nat
        /\ bridge.attempt.budget.models \in Nat /\ bridge.attempt.budget.tools \in Nat
        /\ InTotal.models \in Nat /\ InTotal.tools \in Nat
    BY ControllerAssumption DEF TypeOK, ControllerTypeOK, Bridge, Attempt, Requests
  <2>2. BeforeReport =>
            /\ used.models + bridge.models <= InTotal.models
            /\ used.tools + bridge.tools <= InTotal.tools
    BY <2>1 DEF OwnershipInv, AttemptFacts, BudgetFacts
  <2>3. used.models <= InTotal.models /\ used.tools <= InTotal.tools
    BY DEF OwnershipInv, BudgetFacts
  <2>4. /\ used["models"] = used.models /\ used["tools"] = used.tools
        /\ bridge["models"] = bridge.models /\ bridge["tools"] = bridge.tools
        /\ InTotal["models"] = InTotal.models /\ InTotal["tools"] = InTotal.tools
    OBVIOUS
  <2> QED
    BY <2>1, <2>2, <2>3, <2>4 DEF UsageWithinBudget
<1> QED
  BY <1>1, BridgeOwnership, PTL

(* Aging bounds the wait under every selection policy: an eligible challenge  *)
(* is passed over max_bypasses times and then once for each other challenge   *)
(* but the one admitted, in whatever order scopes are listed, retired and     *)
(* become ready (select_challenge, next_action).                              *)
THEOREM AgingBoundsBypasses == Spec => []BypassesBounded
<1>1. Init => AgingInv
  BY InitAging
<1>2. ASSUME TypeOK, TypeOK', OwnershipInv, AgingInv, [Next]_vars PROVE AgingInv'
  <2>1. ControllerTypeOK /\ ControllerTypeOK'
    BY <1>2 DEF TypeOK
  <2> QED
    BY <1>2, <2>1, WhoAges, SameAgeStep, CatalogueAges, AdmissionAges
<1>3. ASSUME TypeOK, AgingInv PROVE BypassesBounded
  <2> SUFFICES ASSUME NEW s \in Scope, IsCurrent(s)
               PROVE  entries[s].bypasses <=
                      AtLeast(MaxBypasses, MaxBypasses + Cardinality(Challenge) - 2)
    BY DEF BypassesBounded
  <2> DEFINE c == ChallengeOf[s]
             j == entries[s].bypasses - MaxBypasses
  <2>1. /\ c \in Challenge /\ Bypassed(c) = entries[s].bypasses
        /\ entries[s].bypasses \in Nat
    BY <1>3, ControllerAssumption DEF TypeOK, ControllerTypeOK, IsCurrent, Bypassed, Entry
  <2>2. MaxBypasses \in Nat /\ Cardinality(Challenge) \in Nat
    BY <1>3, BypassedType DEF TypeOK
  <2> HIDE DEF c
  <2>3. ASSUME entries[s].bypasses > MaxBypasses
        PROVE  j <= Cardinality(Challenge) - 2
    <3>1. j \in Nat /\ c \in Overdue(j)
      BY <2>1, <2>2, <2>3 DEF Overdue
    <3> HIDE DEF j
    <3>2. Cardinality(Overdue(j)) + j < Cardinality(Challenge)
      BY <1>3, <3>1 DEF AgingInv
    <3>3. Cardinality(Overdue(j)) \in Nat /\ IsFiniteSet(Overdue(j))
      BY <1>3, <3>1, BypassedType DEF TypeOK
    <3>4. Cardinality(Overdue(j)) # 0
      BY <3>1, <3>3, FS_EmptySet
    <3> QED
      BY <2>2, <3>1, <3>2, <3>3, <3>4
  <2> QED
    BY <2>1, <2>2, <2>3 DEF AtLeast
<1> QED
  BY <1>1, <1>2, <1>3, BridgeOwnership, PTL DEF Spec

(* The scheduler always decides, and in one way only: whenever some challenge *)
(* is eligible, exactly one record comes before all the others under every    *)
(* policy, whatever the order they are looked at (select_challenge).          *)
THEOREM SchedulerDecides == Spec => []SelectionDecides
<1>1. ASSUME TypeOK, OwnershipInv PROVE SelectionDecides
  <2> SUFFICES ASSUME EligibleRecords # {}
               PROVE  \E r \in EligibleRecords : Foremost(EligibleRecords) = {r}
    BY DEF SelectionDecides
  <2> DEFINE E == {s \in Scope : Eligible(s)}
             Key(s) == SelectionKey(entries[s])
             Before(s) == {t \in E : Precedes(Key(t), Key(s))}
  <2>1. ASSUME NEW s \in E
        PROVE  /\ entries[s] \in Entry /\ entries[s].task \in Tasks
               /\ entries[s].task.scope = s
    <3>1. entries[s] \in Entry /\ NoScope \notin Scope /\ entries[s].task.scope = s
      BY <1>1, <2>1, ControllerAssumption
         DEF TypeOK, ControllerTypeOK, OwnershipInv, EntryFacts, Eligible, Due
    <3> QED
      BY <2>1, <3>1 DEF Entry, NoTask
  <2>2. ASSUME NEW s \in E PROVE Key(s) \in Keys /\ KeyLength \in Nat \ (0..3)
    BY <2>1, KeyShape DEF Keys
  <2>3. IsFiniteSet(E) /\ EligibleRecords = {entries[s] : s \in E}
    BY ControllerAssumption, FS_Subset DEF EligibleRecords
  <2> HIDE DEF E
  <2>4. ASSUME NEW s \in E, NEW t \in E, s # t
        PROVE  Precedes(Key(s), Key(t)) \/ Precedes(Key(t), Key(s))
    <3>1. Key(s)[KeyLength] = entries[s].task.order /\ Key(t)[KeyLength] = entries[t].task.order
      BY <2>1, KeyShape
    <3>2. KeyLength \in Nat /\ KeyLength \in 1..KeyLength
      BY <2>2
    <3>3. entries[s].task.order # entries[t].task.order
      BY <2>1, <2>4, ControllerAssumption
    <3> HIDE DEF Key
    <3> QED
      BY <2>2, <3>1, <3>2, <3>3, KeysCompare
  <2> HIDE DEF Key
  <2>5. PICK s \in E : \A t \in E : Before(t) \subseteq Before(s) => Before(t) = Before(s)
    <3> DEFINE family == {Before(t) : t \in E}
    <3>1. family \in SUBSET (SUBSET E)
      OBVIOUS
    <3>2. family # {}
      BY ZenonT(40), <2>3
    <3>3. \A t \in E : Before(t) \in family
      OBVIOUS
    <3>4. \A x \in family : \E t \in E : x = Before(t)
      OBVIOUS
    <3> HIDE DEF family, Before
    <3>5. PICK x \in family : \A y \in family : y \subseteq x => y = x
      BY <2>3, <3>1, <3>2, SmallestSet
    <3> QED
      BY <3>3, <3>4, <3>5
  <2>6. ASSUME NEW t \in E \ {s} PROVE Precedes(Key(s), Key(t))
    <3> SUFFICES ASSUME Precedes(Key(t), Key(s)) PROVE FALSE
      BY <2>4
    <3>1. Before(t) \subseteq Before(s)
      <4> SUFFICES ASSUME NEW p \in E, Precedes(Key(p), Key(t)) PROVE Precedes(Key(p), Key(s))
        OBVIOUS
      <4> QED
        BY <2>2, KeysOrdered
    <3>2. t \in Before(s) /\ t \notin Before(t)
      BY <2>2, KeysOrdered
    <3> QED
      BY <2>5, <3>1, <3>2
  <2>7. ASSUME NEW t \in E \ {s} PROVE ~Precedes(Key(t), Key(s))
    BY <2>2, <2>6, <2>7, KeysOrdered
  <2>8. \A t \in E : entries[t] = entries[s] => t = s
    BY <2>1
  <2>9. entries[s] \in Foremost(EligibleRecords)
    BY <2>3, <2>6 DEF Foremost, Key
  <2>10. ASSUME NEW q \in Foremost(EligibleRecords) PROVE q = entries[s]
    <3>1. PICK t \in E : q = entries[t]
      BY <2>3, <2>10 DEF Foremost
    <3>2. entries[s] # q => Precedes(Key(t), Key(s))
      BY <2>3, <2>10, <3>1 DEF Foremost, Key
    <3> QED
      BY <2>7, <3>1, <3>2
  <2> QED
    BY <2>3, <2>9, <2>10
<1> QED
  BY <1>1, BridgeOwnership, PTL

=============================================================================
