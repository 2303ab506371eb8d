---------------------------- MODULE StrategyBridge ---------------------------
(* strategy_bridge.py on top of Controller: BrainAttempt executes the one     *)
(* admitted attempt.  Its thread runs from callback to callback; between two  *)
(* of them the clock moves, owners and the catalogue change the controller    *)
(* and the run is cancelled.  A callback may also raise, or be interrupted    *)
(* (a BaseException) after it had its effect.                                 *)
EXTENDS Controller

CONSTANTS
    ModelFailures,  \* classifications of a failed model call
    ToolFailures    \* classifications of a tool's result

ASSUME BridgeAssumption ==
    /\ ModelFailures \subseteq {f \in Failure : f.operation = "model"}
    /\ ToolFailures \subseteq {f \in Failure : f.operation = "tool"}

VARIABLES
    bridge,     \* the BrainAttempt being executed
    sent,       \* sends of <<scope, candidate>> whose effect is not settled
    reached     \* those that did reach the platform, settled or not

vars == <<controllerVars, bridge, sent, reached>>

\* "loop", "finish", "interrupted", "handoff" and "settle" lie between two
\* callbacks; the others are the callback that is running.
Location ==
    {"idle", "loop", "model", "tool", "finish", "interrupted", "handoff", "qualify",
     "reserve", "checkpoint", "submit", "record", "settle", "cleanup"}

Verdict == {"correct", "incorrect", "already_solved", "uncertain"}

Bridge == [pc : Location, attempt : Attempt, models : Nat, tools : Nat,
           evidence : SUBSET Evidence, candidate : Candidate \cup {NoCandidate},
           failure : Failure \cup {NoFailure}, verdict : Verdict]

NoBridge == [pc |-> "idle", attempt |-> NoAttempt, models |-> 0, tools |-> 0,
             evidence |-> {}, candidate |-> NoCandidate, failure |-> NoFailure,
             verdict |-> "uncertain"]

TypeOK ==
    /\ ControllerTypeOK
    /\ bridge \in Bridge
    /\ sent \subseteq Scope \X Candidate
    /\ reached \subseteq Scope \X Candidate

Init ==
    /\ ControllerInit
    /\ bridge = NoBridge /\ sent = {} /\ reached = {}

At(pc) == bridge.pc = pc
Own == bridge.attempt.scope
Handled == <<Own, bridge.candidate>>
GoTo(pc) == bridge' = [bridge EXCEPT !.pc = pc]
CleanUp == bridge' = [NoBridge EXCEPT !.pc = "cleanup"]

\* What neither an interrupt nor a verdict changes.
ControllerKept == UNCHANGED <<now, current, blocked, active, claimed, idleSince, serial,
                              revision, used>>

\* The bridge between finish_attempt's handoff and its verdict.
HandingOff == bridge.pc \in {"handoff", "qualify", "reserve", "checkpoint", "submit",
                             "record", "settle"}
BeforeReport == bridge.pc \in {"loop", "model", "tool", "finish", "interrupted"}

\* _guard; a request to cancel is Controller's Cancel before the guard.
Guard ==
    /\ BeforeReport => active = bridge.attempt
    /\ ~stopped
    /\ IsCurrent(Own)
    /\ now < bridge.attempt.deadline

-----------------------------------------------------------------------------
(* run: the solve loop of Brain up to the report. *)

\* Variant: an attempt that was stopped since it was admitted is not run.
StartUnlessStopped ==
    /\ At("idle") /\ ~stopped
    /\ ClaimAttempt
    /\ bridge' = [NoBridge EXCEPT !.pc = "loop", !.attempt = active]
    /\ UNCHANGED <<sent, reached>>

\* The harness runs the attempt it was given even if it was stopped since.
Start ==
    /\ At("idle")
    /\ ClaimAttempt
    /\ bridge' = [NoBridge EXCEPT !.pc = "loop", !.attempt = active]
    /\ UNCHANGED <<sent, reached>>

\* A step of the loop that Brain's thread takes under a guard, or gives up.
Guarded(step) ==
    /\ IF Guard THEN step ELSE GoTo("finish")
    /\ UNCHANGED <<controllerVars, sent, reached>>

\* _model, up to the call
CallModel ==
    /\ At("loop")
    /\ Guarded(IF bridge.models < bridge.attempt.budget.models
               THEN bridge' = [bridge EXCEPT !.models = @ + 1, !.pc = "model"]
               ELSE GoTo("finish"))

FailWith(f) ==
    /\ bridge' = [bridge EXCEPT !.failure = f, !.pc = "finish"]
    /\ UNCHANGED <<controllerVars, sent, reached>>

\* _model, after the call; a refusal is a failure like those of a classifier
ModelReturns ==
    /\ At("model")
    /\ \/ Guarded(GoTo("loop"))
       \/ \E f \in ModelFailures : FailWith(f)

\* _tool, up to the call; the first message of the model precedes every tool
CallTool ==
    /\ At("loop") /\ bridge.models > 0
    /\ \/ Guarded(IF bridge.tools < bridge.attempt.budget.tools
                  THEN bridge' = [bridge EXCEPT !.tools = @ + 1, !.pc = "tool"]
                  ELSE GoTo("finish"))
       \/ Guard /\ \E kind \in {"malformed_request", "no_progress"} :
                       FailWith(Classified(kind, "tool"))

\* _tool, after the call: the owner's evidence, or its classified error; the
\* cancellation of a tool cancels the run.
ToolReturns ==
    /\ At("tool")
    /\ \/ \E fresh \in SUBSET Evidence :
              Guarded(bridge' = [bridge EXCEPT !.evidence = @ \cup fresh, !.pc = "loop"])
       \/ \E f \in ToolFailures : FailWith(f)
       \/ /\ Cancel
          /\ bridge' = [bridge EXCEPT !.failure = Classified("unknown", "tool"),
                                      !.pc = "finish"]
          /\ UNCHANGED <<sent, reached>>

\* _capture_candidate
Capture ==
    /\ At("loop") /\ bridge.models > 0
    /\ \E c \in Candidate :
           Guarded(bridge' = [bridge EXCEPT !.candidate = c, !.pc = "finish"])

\* Brain returns without a candidate it may submit
Answer ==
    /\ At("loop")
    /\ GoTo("finish")
    /\ UNCHANGED <<controllerVars, sent, reached>>

ReportOfAttempt ==
    [candidate |-> bridge.candidate, failure |-> bridge.failure,
     evidence |-> bridge.evidence, models |-> bridge.models, tools |-> bridge.tools]

Finish ==
    /\ At("finish")
    /\ FinishAttempt(ReportOfAttempt)
    /\ UNCHANGED <<stopped, sent, reached>>
    /\ bridge' = IF entries'[Own].state = "awaiting_candidate"
                 THEN [NoBridge EXCEPT !.pc = "handoff", !.attempt = bridge.attempt,
                                       !.candidate = bridge.candidate]
                 ELSE [NoBridge EXCEPT !.pc = "cleanup"]

\* An interrupt, or a report that raises, cancels the run before the attempt is
\* given back; its candidate, failure and evidence are dropped.
InterruptedLoop ==
    /\ bridge.pc \in {"model", "tool", "finish"}
    /\ stopped' = TRUE
    /\ GoTo("interrupted")
    /\ ControllerKept /\ UNCHANGED <<entries, sent, reached>>

UsageOnly == [EmptyReport EXCEPT !.models = bridge.models, !.tools = bridge.tools]

ReportUsage ==
    /\ At("interrupted")
    /\ FinishAttempt(UsageOnly)
    /\ CleanUp
    /\ UNCHANGED <<stopped, sent, reached>>

-----------------------------------------------------------------------------
(* _submit_candidate.  The model forgets what the report has consumed. *)

\* A verdict on the qualification tells nothing of a send.
Settles(outcome) == outcome \notin {"ambiguous", "qualification_rejected"}

Resolve(outcome) ==
    /\ ResolveCandidate(Own, bridge.candidate, outcome)
    /\ sent' = IF Settles(outcome) THEN sent \ {Handled} ELSE sent
    /\ CleanUp
    /\ ControllerKept

\* An exception after the intent was asked for.
Uncertain == Resolve("ambiguous") /\ UNCHANGED stopped

Proceed(pc) == GoTo(pc) /\ UNCHANGED <<controllerVars, sent, reached>>
GiveUp == CleanUp /\ UNCHANGED <<controllerVars, sent, reached>>

Handoff ==
    /\ At("handoff")
    /\ IF Guard THEN Proceed("qualify") ELSE GiveUp

QualifyReturns ==
    /\ At("qualify")
    /\ \/ Guard /\ Proceed("reserve")
       \/ Resolve("qualification_rejected") /\ UNCHANGED <<stopped, reached>>
       \/ GiveUp

ReserveReturns ==
    /\ At("reserve")
    /\ \/ Proceed("checkpoint")
       \/ Uncertain /\ UNCHANGED reached

\* The last guard precedes the send; from here on the effect is possible.
CheckpointReturns ==
    /\ At("checkpoint")
    /\ \/ /\ Guard
          /\ GoTo("submit")
          /\ sent' = sent \cup {Handled}
          /\ UNCHANGED <<controllerVars, reached>>
       \/ Uncertain /\ UNCHANGED reached

\* A lost request or answer makes the verdict uncertain.
SubmitReturns ==
    /\ At("submit")
    /\ \E verdict \in Verdict :
           bridge' = [bridge EXCEPT !.verdict = verdict, !.pc = "record"]
    /\ \/ bridge'.verdict = "uncertain" /\ UNCHANGED reached
       \/ reached' = reached \cup {Handled}
    /\ UNCHANGED <<controllerVars, sent>>

OutcomeOf(verdict) ==
    CASE verdict = "correct" -> "accepted"
      [] verdict = "incorrect" -> "wrong"
      [] verdict = "already_solved" -> "already_solved"
      [] OTHER -> "ambiguous"

\* Variant: what record_submission raises is left to the caller.
RecordUnprotected ==
    /\ At("record")
    /\ Proceed("settle") \/ GiveUp

RecordReturns ==
    /\ At("record")
    /\ \/ Proceed("settle")
       \/ Uncertain /\ UNCHANGED reached

Settle ==
    /\ At("settle")
    /\ Resolve(OutcomeOf(bridge.verdict))
    /\ UNCHANGED <<stopped, reached>>

\* After the intent was asked for, an interrupt leaves it ambiguous.
InterruptedSend ==
    /\ bridge.pc \in {"reserve", "checkpoint", "submit", "record"}
    /\ stopped' = TRUE
    /\ Resolve("ambiguous")
    /\ \/ At("submit") /\ reached' = reached \cup {Handled}
       \/ UNCHANGED reached

\* Before that, and once the verdict is recorded, it leaves the handoff pending.
InterruptedHandoff ==
    /\ At("qualify") \/ At("settle")
    /\ stopped' = TRUE
    /\ CleanUp
    /\ ControllerKept /\ UNCHANGED <<entries, sent, reached>>

\* The finally of run: release and the last checkpoint; their failures are kept.
Cleanup ==
    /\ At("cleanup")
    /\ bridge' = NoBridge
    /\ UNCHANGED <<controllerVars, sent, reached>>

-----------------------------------------------------------------------------
(* The owners, who know what reached the platform and never resolve a         *)
(* candidate that the bridge is handing off, and the harness.                 *)

OwnersOutcome(s, c) ==
    IF <<s, c>> \in reached
    THEN {"wrong", "accepted", "already_solved", "ambiguous"}
    ELSE {"not_delivered", "ambiguous"}
         \cup (IF <<s, c>> \in sent THEN {} ELSE {"qualification_rejected"})

OwnerResolves(s, c, outcome) ==
    /\ ~(HandingOff /\ Own = s)
    /\ ResolveCandidate(s, c, outcome)
    /\ entries' # entries
    /\ sent' = IF Settles(outcome) THEN sent \ {<<s, c>>} ELSE sent
    /\ UNCHANGED <<stopped, bridge, reached>> /\ ControllerKept

\* A bound: a run that has stopped and has nothing in flight is not fed any more.
Running == ~stopped \/ ~At("idle")

Owners ==
    \/ \E s \in Scope, c \in Candidate :
           \E outcome \in OwnersOutcome(s, c) : OwnerResolves(s, c, outcome)
    \/ /\ Running
       /\ \/ \E batch \in Batches : UpdateCatalogue(batch)
          \/ \E s \in Scope : \/ ProposeApproach(s)
                              \/ Requalified(s)
                              \/ ReconciledEffect(s)
          \/ \E s \in Scope, e \in (SUBSET Evidence) : ObserveEvidence(s, e)
          \/ \E subsystem \in Subsystem : UpdateConfiguration(subsystem)
          \/ Cancel
          \/ Tick
       /\ UNCHANGED <<bridge, sent, reached>>

HarnessDecides == At("idle") /\ NextAction /\ UNCHANGED <<bridge, sent, reached>>

Executes ==
    \/ Start \/ CallModel \/ ModelReturns \/ CallTool \/ ToolReturns \/ Capture
    \/ Answer \/ Finish \/ InterruptedLoop \/ ReportUsage \/ Handoff \/ QualifyReturns
    \/ ReserveReturns \/ CheckpointReturns \/ SubmitReturns \/ RecordReturns \/ Settle
    \/ InterruptedSend \/ InterruptedHandoff \/ Cleanup

Next == Owners \/ HarnessDecides \/ Executes

\* The callbacks are bounded, the harness asks again while it is not stopped,
\* and time passes.
Fairness ==
    /\ WF_vars(Executes)
    /\ WF_vars(HarnessDecides)
    /\ WF_vars(Tick /\ UNCHANGED <<bridge, sent, reached>>)

Spec == Init /\ [][Next]_vars /\ Fairness

-----------------------------------------------------------------------------
(* Properties. *)

(* A candidate that was sent and whose effect is not settled is never         *)
(* forgotten: the scope is unresolved with that candidate pending, whatever   *)
(* exceptions, catalogue changes and stops came in between.  Only the bridge  *)
(* that is handing it off, or an interrupt that ended the run, leaves it at   *)
(* awaiting its verdict (_submit_candidate, update_catalogue,                 *)
(* finish_attempt).                                                           *)
NoEffectForgotten ==
    \A p \in sent :
        /\ entries[p[1]].pending = p[2]
        /\ \/ entries[p[1]].state = "unresolved"
           \/ /\ entries[p[1]].state = "awaiting_candidate"
              /\ stopped \/ (HandingOff /\ Handled = p)

(* A candidate reaches the platform at most once for each scope: one that is  *)
(* about to be sent has never reached it, although attempts are repeated,     *)
(* scopes are retired and listed, and verdicts get lost.                      *)
DeliveredOnce == At("submit") => Handled \notin reached

(* While an effect of a challenge is open under any of its scopes, retired    *)
(* ones included, no attempt on another scope of it runs: the new instance is *)
(* not worked on before the old submission is settled (_eligible).            *)
OpenEffectBlocksChallenge ==
    active # NoAttempt =>
        \A s \in Scope \ {active.scope} :
            ChallengeOf[s] = ChallengeOf[active.scope] => entries[s].state \notin OpenStates

(* What was used and what the attempt in flight may still use stays within    *)
(* the run's budgets, also when an attempt is interrupted.                    *)
UsageWithinBudget ==
    \A kind \in {"models", "tools"} :
        used[kind] + (IF BeforeReport THEN bridge[kind] ELSE 0) <= InTotal[kind]

(* An eligible challenge is passed over at most max_bypasses times and then   *)
(* once for every other challenge but the one admitted: aging bounds the wait *)
(* under every policy and every order of arrivals (select_challenge).         *)
BypassesBounded ==
    \A s \in Scope : IsCurrent(s) =>
        entries[s].bypasses <= AtLeast(MaxBypasses, MaxBypasses + Cardinality(Challenge) - 2)

(* An admitted attempt ends: it is reported and its lease given back.         *)
EveryAttemptEnds == active # NoAttempt ~> active = NoAttempt

=============================================================================
