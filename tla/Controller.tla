------------------------------ MODULE Controller -----------------------------
(* controller.py: the serial owner of decisions.  It admits one attempt at a  *)
(* time, takes its report, and keeps for every scope what is known of it.     *)
(* Each operation is one action or, where the bridge calls it, an operator on *)
(* the entry it changes; the lock of the class makes each of them one step.   *)
EXTENDS RetryPolicy, FiniteSets

CONSTANTS
    Challenge, Scope, ChallengeOf,  \* scopes and the challenge each belongs to
    Tasks,                  \* the catalogue metadata that owners may qualify
    Batches,                \* the updates of the catalogue
    Candidate, NoCandidate, \* fingerprints of candidates
    Evidence,               \* fingerprints of progress evidence
    NoScope, NoFailure,
    RunSeconds,             \* ControllerLimits.run_seconds; the clock stops there
    AttemptSeconds, IdleGrace,
    MaxAttempts,            \* max_attempts_per_scope
    MaxContinuations,       \* max_continuations_per_approach
    MaxTotal,               \* max_total_attempts
    MaxScopes,              \* max_scopes
    PerAttempt, InTotal     \* [models, tools]: requests per attempt, in all

\* The order of a task is the sort key of its scope, of no other one.
ASSUME ControllerAssumption ==
    /\ IsFiniteSet(Challenge) /\ IsFiniteSet(Scope)
    /\ ChallengeOf \in [Scope -> Challenge]
    /\ Tasks \subseteq Task(Scope)
    /\ \A t, u \in Tasks : t.order = u.order => t.scope = u.scope
    /\ \A batch \in Batches :
           /\ batch \subseteq Tasks
           /\ \A t, u \in batch : ChallengeOf[t.scope] = ChallengeOf[u.scope] => t = u
    /\ MaxScopes \in Nat \ {0}
    /\ NoCandidate \notin Candidate /\ NoScope \notin Scope /\ NoFailure \notin Failure
    /\ RunSeconds \in Nat /\ AttemptSeconds \in Nat \ {0} /\ IdleGrace \in Nat
    /\ MaxAttempts \in Nat \ {0} /\ MaxContinuations \in Nat /\ MaxTotal \in Nat \ {0}
    /\ PerAttempt \in [models : Nat, tools : Nat]
    /\ InTotal \in [models : Nat, tools : Nat]

VARIABLES
    now,        \* the monotonic clock
    entries,    \* _entries, with state "unlisted" for a scope never catalogued
    current,    \* _current: the qualified scope of each challenge
    blocked,    \* _blocked_subsystems
    active,     \* _active, with scope NoScope when there is none
    claimed,    \* _execution_token is set
    stopped,    \* _stop_reason is set
    idleSince,  \* _idle_since, or NoTime
    serial,     \* _serial
    revision,   \* _revision: how often new evidence was observed
    used        \* _models and _tools

controllerVars ==
    <<now, entries, current, blocked, active, claimed, stopped, idleSince, serial,
      revision, used>>

NoTime == -1
Time == 0..RunSeconds
Requests == [models : Nat, tools : Nat]

WorkState == {"unlisted", "ready", "active", "deferred", "awaiting_candidate",
              "unresolved", "terminal", "superseded"}

\* States in which an effect of the scope may still be open with its owner.
OpenStates == {"unresolved", "awaiting_candidate"}

NoTask == [scope |-> NoScope, order |-> 0, cost |-> Unknown, benefit |-> Unknown,
           requires |-> {}]

Entry ==
    [task : Tasks \cup {NoTask}, state : WorkState,
     stalled : BOOLEAN,            \* reason is "no_new_evidence"
     approaches : 1..MaxAttempts,  \* how many approaches there have been
     fingerprints : SUBSET Evidence, settled : SUBSET Candidate,
     pending : Candidate \cup {NoCandidate},
     attempts : 0..MaxAttempts, bypasses : Nat, progress : Nat,
     continuations : 0..MaxContinuations, retries : 0..MaxRetries,
     repairs : 0..MaxRepairs, readyAt : Int, blockedOn : Subsystem,
     prerequisite : BOOLEAN, repairNext : BOOLEAN]

Listed(task) ==
    [task |-> task, state |-> "ready", stalled |-> FALSE, approaches |-> 1,
     fingerprints |-> {}, settled |-> {}, pending |-> NoCandidate, attempts |-> 0,
     bypasses |-> 0, progress |-> 0, continuations |-> 0, retries |-> 0, repairs |-> 0,
     readyAt |-> NoTime, blockedOn |-> "none", prerequisite |-> FALSE,
     repairNext |-> FALSE]

Attempt == [token : Nat, scope : Scope \cup {NoScope}, deadline : Time,
            budget : Requests, repair : BOOLEAN]
NoAttempt == [token |-> 0, scope |-> NoScope, deadline |-> 0,
              budget |-> [models |-> 0, tools |-> 0], repair |-> FALSE]

ControllerTypeOK ==
    /\ now \in Time
    /\ entries \in [Scope -> Entry]
    /\ current \in [Challenge -> Scope \cup {NoScope}]
    /\ blocked \subseteq Subsystem
    /\ active \in Attempt
    /\ claimed \in BOOLEAN /\ stopped \in BOOLEAN
    /\ idleSince \in Time \cup {NoTime}
    /\ serial \in 0..MaxTotal /\ revision \in Nat
    /\ used \in Requests

ControllerInit ==
    /\ now = 0
    /\ entries = [s \in Scope |-> [Listed(NoTask) EXCEPT !.state = "unlisted"]]
    /\ current = [c \in Challenge |-> NoScope]
    /\ blocked = {} /\ active = NoAttempt
    /\ claimed = FALSE /\ stopped = FALSE
    /\ idleSince = NoTime /\ serial = 0 /\ revision = 0
    /\ used = [models |-> 0, tools |-> 0]

IsCurrent(s) == current[ChallengeOf[s]] = s
Siblings(s) == {t \in Scope \ {s} : ChallengeOf[t] = ChallengeOf[s]}

-----------------------------------------------------------------------------
(* update_catalogue.  A batch names a challenge once; it is refused whole     *)
(* when it is too large or names a retired scope.                             *)

Superseded(s) ==
    IF entries[s].state \in OpenStates THEN entries[s]
    ELSE [entries[s] EXCEPT !.state = "superseded"]

Qualified(batch) ==
    /\ \A task \in batch : entries[task.scope].state = "unlisted" \/ IsCurrent(task.scope)
    /\ Cardinality({s \in Scope : entries[s].state # "unlisted"}
                   \cup {task.scope : task \in batch}) <= MaxScopes

UpdateCatalogue(batch) ==
    LET Replaced == {current[ChallengeOf[task.scope]] : task \in
                         {u \in batch : ~IsCurrent(u.scope)}} \ {NoScope}
        Item(s) == {task \in batch : task.scope = s}
    IN /\ Qualified(batch)
       /\ entries' = [s \in Scope |->
              CASE Item(s) # {} /\ IsCurrent(s) ->
                       [entries[s] EXCEPT !.task = CHOOSE task \in Item(s) : TRUE]
                [] Item(s) # {} /\ ~IsCurrent(s) ->
                       Listed(CHOOSE task \in Item(s) : TRUE)
                [] Item(s) = {} /\ s \in Replaced -> Superseded(s)
                [] OTHER -> entries[s]]
       /\ current' = [c \in Challenge |->
              IF \E task \in batch : ChallengeOf[task.scope] = c
              THEN CHOOSE s \in Scope : ChallengeOf[s] = c /\ Item(s) # {}
              ELSE current[c]]
       /\ idleSince' = IF current' = current THEN idleSince ELSE NoTime
       /\ UNCHANGED <<now, blocked, active, claimed, stopped, serial, revision, used>>

-----------------------------------------------------------------------------
(* next_action. *)

Affordable(task) ==
    /\ "model" \in task.requires =>
           PerAttempt.models > 0 /\ used.models < InTotal.models
    /\ "tools" \in task.requires =>
           PerAttempt.tools > 0 /\ used.tools < InTotal.tools

\* Variant: other scopes of the challenge are not looked at.
IgnoreSiblings(s) == TRUE

NoOpenSibling(s) == \A t \in Siblings(s) : entries[t].state \notin OpenStates

Unobstructed(e) == e.blockedOn = "none" /\ e.task.requires \cap blocked = {}

Due(e) == \/ e.state = "ready"
          \/ e.state = "deferred" /\ e.readyAt # NoTime /\ e.readyAt <= now

Eligible(s) ==
    /\ IsCurrent(s)
    /\ Due(entries[s])
    /\ NoOpenSibling(s)
    /\ entries[s].attempts < MaxAttempts
    /\ Unobstructed(entries[s])
    /\ Affordable(entries[s].task)

EligibleRecords == {entries[s] : s \in {t \in Scope : Eligible(t)}}

\* Variant: the allowance of an attempt ignores what earlier attempts used.
FullAllowance(kind) == PerAttempt[kind]

Remaining(kind) ==
    AtMost(PerAttempt[kind], AtLeast(0, InTotal[kind] - used[kind]))

Admit(s) ==
    /\ serial' = serial + 1
    /\ active' = [token |-> serial + 1, scope |-> s,
                  deadline |-> AtMost(now + AttemptSeconds, RunSeconds),
                  budget |-> [models |-> Remaining("models"),
                              tools |-> Remaining("tools")],
                  repair |-> entries[s].repairNext]
    /\ entries' = [t \in Scope |->
           CASE t = s -> [entries[s] EXCEPT !.state = "active", !.attempts = @ + 1,
                              !.bypasses = 0, !.repairNext = FALSE, !.readyAt = NoTime]
             [] t # s /\ Eligible(t) -> [entries[t] EXCEPT !.bypasses = @ + 1]
             [] OTHER -> entries[t]]
    /\ idleSince' = NoTime
    /\ UNCHANGED stopped

\* A deferred scope that wakes by itself before the run's deadline.
Wakes(s) ==
    LET e == entries[s]
    IN /\ e.state = "deferred" /\ e.readyAt # NoTime
       /\ now < e.readyAt /\ e.readyAt < RunSeconds
       /\ e.attempts < MaxAttempts /\ Unobstructed(e) /\ IsCurrent(s)

Idle ==
    LET since == IF idleSince = NoTime THEN now ELSE idleSince
    IN /\ idleSince' = since
       /\ stopped' = (now - since >= IdleGrace /\ ~\E s \in Scope : Wakes(s))
       /\ UNCHANGED <<entries, active, serial>>

MustStop == \/ stopped
            \/ now >= RunSeconds
            \/ serial >= MaxTotal /\ active = NoAttempt

\* With an attempt in flight the decision is to wait and changes nothing.
NextAction ==
    /\ \/ /\ MustStop
          /\ stopped' = TRUE
          /\ UNCHANGED <<entries, active, serial, idleSince>>
       \/ /\ ~MustStop /\ active = NoAttempt
          /\ \/ \E r \in Foremost(EligibleRecords) : Admit(r.task.scope)
             \/ EligibleRecords = {} /\ Idle
    /\ UNCHANGED <<now, current, blocked, claimed, revision, used>>

-----------------------------------------------------------------------------
(* claim_attempt and finish_attempt. *)

ClaimAttempt ==
    /\ active # NoAttempt /\ ~claimed
    /\ claimed' = TRUE
    /\ UNCHANGED <<now, entries, current, blocked, active, stopped, idleSince, serial,
                   revision, used>>

Report == [candidate : Candidate \cup {NoCandidate}, failure : Failure \cup {NoFailure},
           evidence : SUBSET Evidence, models : Nat, tools : Nat]
EmptyReport == [candidate |-> NoCandidate, failure |-> NoFailure, evidence |-> {},
                models |-> 0, tools |-> 0]

OverBudget(report) == \/ report.models > active.budget.models
                      \/ report.tools > active.budget.tools

OutOfTime == stopped \/ now >= RunSeconds

\* The last lines of finish_attempt; reports that return early do not reach it.
Exhaust(e) ==
    IF e.attempts >= MaxAttempts /\ e.state \in {"ready", "deferred"}
    THEN [e EXCEPT !.state = "terminal", !.stalled = FALSE, !.readyAt = NoTime]
    ELSE e

Failed(e, report) ==
    LET f == report.failure
        decision == RetryDecision(f, e.retries, e.repairs, AtLeast(0, RunSeconds - now))
        live == IsCurrent(active.scope) /\ ~OutOfTime /\ ~OverBudget(report)
    IN CASE decision = "reconcile" -> [e EXCEPT !.state = "unresolved"]
         [] decision = "requalify" ->
                [e EXCEPT !.prerequisite = TRUE,
                          !.state = IF f.operation = "instance_mutation"
                                    THEN "unresolved" ELSE @]
         [] decision = "block_subsystem" -> Exhaust([e EXCEPT !.blockedOn = f.subsystem])
         [] decision = "stop_operation" -> [e EXCEPT !.state = "terminal"]
         [] decision = "retry" /\ live ->
                Exhaust([e EXCEPT !.retries = @ + 1,
                                  !.readyAt = now + RetryDelay(f, e.retries)])
         [] decision = "repair" /\ live ->
                Exhaust([e EXCEPT !.repairs = @ + 1, !.repairNext = TRUE,
                                  !.state = "ready"])
         [] OTHER -> Exhaust(e)

Fresh(e, evidence) == evidence \ e.fingerprints

\* _observe
Observed(e, evidence) ==
    IF Fresh(e, evidence) = {} THEN e
    ELSE [e EXCEPT !.fingerprints = @ \cup evidence, !.progress = revision + 1]

Continued(e) == [e EXCEPT !.continuations = @ + 1, !.state = "ready", !.stalled = FALSE]

Progressed(e, report) ==
    LET fresh == Fresh(e, report.evidence)
        seen == Observed(e, report.evidence)
    IN IF report.candidate \in Candidate \ e.settled
       THEN [seen EXCEPT !.pending = report.candidate, !.state = "awaiting_candidate"]
       ELSE IF report.candidate \in e.settled THEN Exhaust(seen)
       ELSE IF fresh # {} /\ e.continuations < MaxContinuations
       THEN Exhaust(Continued(seen))
       ELSE Exhaust([seen EXCEPT !.stalled = (fresh = {})])

IsObserved(report) ==
    /\ report.failure = NoFailure /\ IsCurrent(active.scope)
    /\ ~OverBudget(report) /\ now < active.deadline /\ ~OutOfTime

Finished(report) ==
    LET e == [entries[active.scope] EXCEPT !.state = "deferred", !.readyAt = NoTime,
                                           !.stalled = FALSE]
    IN IF report.failure # NoFailure THEN Failed(e, report)
       ELSE IF ~IsCurrent(active.scope) THEN [e EXCEPT !.state = "superseded"]
       ELSE IF IsObserved(report) THEN Progressed(e, report)
       ELSE IF OverBudget(report) \/ now >= active.deadline THEN Exhaust(e)
       ELSE Exhaust([e EXCEPT !.pending = report.candidate])

FinishAttempt(report) ==
    /\ entries' = [entries EXCEPT ![active.scope] = Finished(report)]
    /\ active' = NoAttempt
    /\ claimed' = FALSE
    /\ used' = [models |-> used.models + report.models,
                tools |-> used.tools + report.tools]
    /\ revision' = IF IsObserved(report)
                      /\ Fresh(entries[active.scope], report.evidence) # {}
                   THEN revision + 1 ELSE revision
    /\ blocked' = IF report.failure # NoFailure
                     /\ OwnersDecision(report.failure) = "block_subsystem"
                  THEN blocked \cup {report.failure.subsystem} ELSE blocked
    /\ UNCHANGED <<now, current, idleSince, serial>>

-----------------------------------------------------------------------------
(* What trusted owners tell the controller. *)

Woken(s, e) ==
    /\ entries' = [entries EXCEPT ![s] = e]
    /\ idleSince' = NoTime
    /\ UNCHANGED <<now, current, blocked, active, claimed, stopped, serial, used>>

ProposeApproach(s) ==
    LET e == entries[s]
    IN /\ IsCurrent(s) /\ e.state = "deferred"
       /\ e.blockedOn = "none" /\ ~e.prerequisite /\ e.readyAt = NoTime
       /\ e.attempts < MaxAttempts /\ e.approaches < MaxAttempts
       /\ Woken(s, [e EXCEPT !.approaches = @ + 1, !.continuations = 0,
                             !.state = "ready", !.stalled = FALSE])
       /\ UNCHANGED revision

ObserveEvidence(s, evidence) ==
    LET e == entries[s]
    IN /\ IsCurrent(s) /\ e.state = "deferred" /\ e.stalled
       /\ e.attempts < MaxAttempts /\ e.continuations < MaxContinuations
       /\ Fresh(e, evidence) # {}
       /\ Woken(s, Continued(Observed(e, evidence)))
       /\ revision' = revision + 1

UpdateConfiguration(subsystem) ==
    /\ subsystem \in blocked
    /\ blocked' = blocked \ {subsystem}
    /\ entries' = [s \in Scope |->
           LET e == entries[s]
           IN IF e.blockedOn # subsystem THEN e
              ELSE IF e.state # "deferred" THEN [e EXCEPT !.blockedOn = "none"]
              ELSE [e EXCEPT !.blockedOn = "none", !.state = "ready", !.stalled = FALSE]]
    /\ idleSince' = NoTime
    /\ UNCHANGED <<now, current, active, claimed, stopped, serial, revision, used>>

Requalified(s) ==
    LET e == entries[s]
    IN /\ IsCurrent(s) /\ e.state = "deferred" /\ e.prerequisite
       /\ e.attempts < MaxAttempts
       /\ Woken(s, [e EXCEPT !.prerequisite = FALSE, !.state = "ready",
                             !.stalled = FALSE])
       /\ UNCHANGED revision

CandidateOutcome == {"qualification_rejected", "wrong", "accepted", "already_solved",
                     "ambiguous", "not_delivered"}

MayResolve(e, c, outcome) ==
    /\ e.pending = c
    /\ e.state \in OpenStates
    /\ e.state = "unresolved" => outcome # "qualification_rejected"

\* Variant: a definitive verdict does not settle the candidate.
ResolvedUnsettled(e, outcome) ==
    IF outcome = "ambiguous" THEN [e EXCEPT !.state = "unresolved"]
    ELSE [e EXCEPT !.pending = NoCandidate, !.state = "deferred"]

Resolved(e, outcome) ==
    CASE outcome = "ambiguous" -> [e EXCEPT !.state = "unresolved"]
      [] outcome = "already_solved" -> e
      [] OTHER ->
             [e EXCEPT !.pending = NoCandidate,
                       !.settled = IF outcome \in {"wrong", "accepted"}
                                   THEN @ \cup {e.pending} ELSE @,
                       !.state = IF outcome = "accepted" THEN "terminal" ELSE "deferred",
                       !.stalled = FALSE]

ResolveCandidate(s, c, outcome) ==
    /\ MayResolve(entries[s], c, outcome)
    /\ entries' = [entries EXCEPT ![s] = Resolved(@, outcome)]

ReconciledEffect(s) ==
    /\ entries[s].state = "unresolved" /\ entries[s].pending = NoCandidate
    /\ entries' = [entries EXCEPT ![s].state = "deferred", ![s].prerequisite = FALSE,
                                  ![s].stalled = FALSE]
    /\ UNCHANGED <<now, current, blocked, active, claimed, stopped, idleSince, serial,
                   revision, used>>

Cancel ==
    /\ ~stopped
    /\ stopped' = TRUE
    /\ UNCHANGED <<now, entries, current, blocked, active, claimed, idleSince, serial,
                   revision, used>>

Tick ==
    /\ now < RunSeconds
    /\ now' = now + 1
    /\ UNCHANGED <<entries, current, blocked, active, claimed, stopped, idleSince,
                   serial, revision, used>>

=============================================================================
