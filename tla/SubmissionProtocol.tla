-------------------------- MODULE SubmissionProtocol -------------------------
(***************************************************************************)
(* How flags reach the platform: the attempts of a pass (Brain._solve and  *)
(* Brain._submit of brain.py inside execute_attempt of arena_main.py), the *)
(* durable intents they write, the trusted catalogue read between passes,  *)
(* the platform at the other end of the wire, and a process that may crash *)
(* between any two steps.                                                  *)
(*                                                                         *)
(* The platform and the network are external.  What the code's 300-second  *)
(* rule relies on is stated as PlatformAssumption: a submission takes      *)
(* effect within Delay ticks of its dispatch marker or never, a solve is   *)
(* visible in the catalogue within Lag ticks, and what a catalogue request *)
(* returns is at most Fetch ticks old when it is reconciled.               *)
(***************************************************************************)
EXTENDS SubmissionIntents

CONSTANTS
  Solver,          \* attempt slots of a pass: the main thread, the static lane
  Flag,            \* the candidate that is right in a scope
  MaxSubmissions,  \* Brain.max_submissions
  Delay, Lag, Fetch,   \* bounds on the network and on the catalogue, in ticks
  NoScope, NoCandidate, NoVerdict, NoCatalogue

ASSUME PlatformAssumption ==
  /\ Flag \in [Scope -> Candidate]
  /\ MaxSubmissions \in Nat
  /\ {Delay, Lag, Fetch} \subseteq Nat
  /\ Delay + Lag + Fetch < ReconcileAge
  /\ NoScope \notin Scope /\ NoCandidate \notin Candidate

VARIABLES
  solver,    \* [Solver -> Slot]: each attempt's control state, lost in a crash
  view,      \* [Challenge -> View]: the cached catalogue, lost in a crash
  fetched,   \* the catalogue response in flight, lost in a crash
  wire,      \* submissions on their way: records [scope, cand, age]
  platform,  \* [Challenge -> {"open", "solved", "listed"}]
  lag,       \* ticks since the platform recorded a solve it does not list yet
  accepted,  \* scopes in which the platform accepted this agent's candidate
  learnt     \* history: definitive verdicts durably reconciled, as triples
             \* <<scope, candidate, verdict>>

vars == <<intents, solver, view, fetched, wire, platform, lag,
          accepted, learnt>>
externalVars == <<platform, lag, accepted>>

View == {"unread", "unsolved", "solved"}

\* The challenges a response shows as solved, and its age.
Response == [shown : SUBSET Challenge, age : 0 .. Fetch]

\* "idle": not started in this pass; "looping": between model turns;
\* "calling": inside the submit callback; "solved": about to report a solve.
Pc == {"idle", "looping", "reserved", "marked", "calling", "answered", "solved", "done"}

Running == Pc \ {"idle", "done"}

Slot == [pc : Pc, scope : Scope \cup {NoScope}, cand : Candidate \cup {NoCandidate},
         tried : SUBSET Candidate, sent : 0 .. MaxSubmissions,
         verdict : Verdict \cup {NoVerdict}]

EmptySlot == [pc |-> "idle", scope |-> NoScope, cand |-> NoCandidate,
              tried |-> {}, sent |-> 0, verdict |-> NoVerdict]

Over(s) == [EmptySlot EXCEPT !.pc = "done", !.scope = s]

Definitive == Scope \X Candidate \X {"correct", "incorrect", "already_solved"}

Request == [scope : Scope, cand : Candidate, age : 0 .. Delay]

InPass(ch) ==
  \E w \in Solver : solver[w].pc # "idle" /\ ChallengeOf[solver[w].scope] = ch

-----------------------------------------------------------------------------
(* An attempt. *)

\* Brain._solve starts: the catalogue does not show the challenge solved, no
\* other lane of the pass was given it, and submission_reconciled lets it in.
BeginAttempt(w, s) ==
  /\ solver[w].pc = "idle" /\ fetched = NoCatalogue
  /\ view[ChallengeOf[s]] = "unsolved"
  /\ ~InPass(ChallengeOf[s])
  /\ solver' = [solver EXCEPT ![w] =
        IF Blocked(s) THEN Over(s) ELSE [EmptySlot EXCEPT !.pc = "looping", !.scope = s]]
  /\ UNCHANGED <<intents, view, fetched, wire, externalVars, learnt>>

\* The model proposes a candidate not yet submitted in this attempt, and _submit
\* runs to the end of reserve_submission.
Propose(w, c) ==
  LET s == solver[w].scope
      next(pc) == [solver EXCEPT ![w].pc = pc, ![w].cand = c, ![w].tried = @ \cup {c}]
  IN  /\ solver[w].pc = "looping"
      /\ c \notin solver[w].tried
      /\ \/ /\ solver[w].sent >= MaxSubmissions     \* submission budget exhausted
            /\ solver' = [solver EXCEPT ![w] = Over(@.scope)]
            /\ UNCHANGED intents
         \/ /\ solver[w].sent < MaxSubmissions
            /\ ReserveSubmission(s, c)
            /\ solver' = next("reserved")
         \/ /\ solver[w].sent < MaxSubmissions
            /\ AlreadyRejected(s, c)                \* None: the loop goes on
            /\ solver' = [next("looping") EXCEPT ![w].cand = NoCandidate]
            /\ UNCHANGED intents
         \/ /\ solver[w].sent < MaxSubmissions
            /\ OutOfCapacity(s, c)                  \* raises; the attempt crashes
            /\ solver' = [solver EXCEPT ![w] = Over(@.scope)]
            /\ UNCHANGED intents
      /\ UNCHANGED <<view, fetched, wire, externalVars, learnt>>

\* mark_submission_dispatch_possible commits the effect boundary.  It answers
\* False on a row that is not reserved, which another attempt in the same scope
\* would have to cause: BeginAttempt admits none.
Mark(w) ==
  /\ solver[w].pc = "reserved"
  /\ MarkDispatchPossible(solver[w].scope, solver[w].cand)
  /\ solver' = [solver EXCEPT ![w].pc = "marked"]
  /\ UNCHANGED <<view, fetched, wire, externalVars, learnt>>

\* The trusted callback sends the flag.
Dispatch(w) ==
  /\ solver[w].pc = "marked"
  /\ solver' = [solver EXCEPT ![w].pc = "calling", ![w].sent = @ + 1]
  /\ LET s == solver[w].scope
         c == solver[w].cand
     IN  wire' = wire \cup {[scope |-> s, cand |-> c, age |-> intents[s][c].age]}
  /\ UNCHANGED <<intents, view, fetched, externalVars, learnt>>

\* The callback raises or reports a transport failure, while the submission may
\* still be on its way.
CallFails(w) ==
  /\ solver[w].pc = "calling"
  /\ \E v \in {"error", "uncertain"} :
       solver' = [solver EXCEPT ![w].pc = "answered", ![w].verdict = v]
  /\ UNCHANGED <<intents, view, fetched, wire, externalVars, learnt>>

NextPc(v) ==
  IF v \in Concluding THEN "solved" ELSE IF v = "incorrect" THEN "looping" ELSE "done"

AfterVerdict(slot) ==
  IF NextPc(slot.verdict) = "done" THEN Over(slot.scope)
  ELSE [slot EXCEPT !.pc = NextPc(slot.verdict), !.cand = NoCandidate, !.verdict = NoVerdict]

\* Variant: _submit returns the verdict without reconciling it.
ReportsFirst(w) ==
  /\ solver[w].pc = "answered"
  /\ solver' = [solver EXCEPT ![w] = AfterVerdict(@)]
  /\ UNCHANGED <<intents, view, fetched, wire, externalVars, learnt>>

\* reconcile_submission commits the verdict; then _submit returns.
Record(w) ==
  LET slot == solver[w] IN
  /\ slot.pc = "answered"
  /\ ReconcileSubmission(slot.scope, slot.cand, slot.verdict)
  /\ learnt' = learnt \cup ({<<slot.scope, slot.cand, slot.verdict>>} \cap Definitive)
  /\ solver' = [solver EXCEPT ![w] = AfterVerdict(slot)]
  /\ UNCHANGED <<view, fetched, wire, externalVars>>

\* execute_attempt checkpoints the solved outcome and marks the cached brief.
ReportSolved(w) ==
  /\ solver[w].pc = "solved"
  /\ view' = [view EXCEPT ![ChallengeOf[solver[w].scope]] = "solved"]
  /\ solver' = [solver EXCEPT ![w] = Over(@.scope)]
  /\ UNCHANGED <<intents, fetched, wire, externalVars, learnt>>

\* The attempt ends unsolved: a budget is spent, the model stops, or a state
\* operation raises (a failed commit changes nothing) and the slice crashes.
\* Inside the callback every exception is caught, so "calling" is excluded; no
\* statement between the marker and the callback can raise, so "marked" is too.
EndAttempt(w) ==
  /\ solver[w].pc \in {"looping", "reserved", "answered", "solved"}
  /\ solver' = [solver EXCEPT ![w] = Over(@.scope)]
  /\ UNCHANGED <<intents, view, fetched, wire, externalVars, learnt>>

-----------------------------------------------------------------------------
(* Passes, the catalogue and the process. *)

AllEnded == \A w \in Solver : solver[w].pc \notin Running

\* begin_pass asks for the catalogue again; the platform answers, and the answer
\* is on its way while time passes.
FetchCatalogue ==
  /\ AllEnded /\ fetched = NoCatalogue
  /\ fetched' = [shown |-> {ch \in Challenge : platform[ch] = "listed"}, age |-> 0]
  /\ UNCHANGED <<intents, solver, view, wire, externalVars, learnt>>

\* A pass over the fetched catalogue, reconciled before it is cached.
PassWithFreshCatalogue ==
  /\ fetched # NoCatalogue
  /\ ReconcileCatalogue(Challenge, fetched.shown)
  /\ view' = [ch \in Challenge |-> IF ch \in fetched.shown THEN "solved" ELSE "unsolved"]
  /\ fetched' = NoCatalogue
  /\ solver' = [w \in Solver |-> EmptySlot]
  /\ UNCHANGED <<wire, externalVars, learnt>>

\* A pass with a catalogue still inside its refresh interval or a read that
\* failed: the cached briefs are ranked again.
PassWithCachedCatalogue ==
  /\ AllEnded
  /\ \A ch \in Challenge : view[ch] # "unread"
  /\ fetched' = NoCatalogue
  /\ solver' = [w \in Solver |-> EmptySlot]
  /\ UNCHANGED <<intents, view, wire, externalVars, learnt>>

\* The process dies and restarts: only the database survives.
Crash ==
  /\ solver' = [w \in Solver |-> EmptySlot]
  /\ view' = [ch \in Challenge |-> "unread"]
  /\ fetched' = NoCatalogue
  /\ UNCHANGED <<intents, wire, externalVars, learnt>>

-----------------------------------------------------------------------------
(* The platform and the network. *)

Answer(r) ==
  IF platform[ChallengeOf[r.scope]] # "open" THEN "already_solved"
  ELSE IF r.cand = Flag[r.scope] THEN "correct" ELSE "incorrect"

\* The attempt still waiting for this submission's answer, if any, gets it.
Answered(r, v) ==
  [w \in Solver |->
     IF solver[w].pc = "calling" /\ solver[w].scope = r.scope /\ solver[w].cand = r.cand
       THEN [solver[w] EXCEPT !.pc = "answered", !.verdict = v] ELSE solver[w]]

\* The platform processes a submission.
Process(r) ==
  LET ch == ChallengeOf[r.scope] IN
  /\ r \in wire
  /\ wire' = wire \ {r}
  /\ solver' = Answered(r, Answer(r))
  /\ IF Answer(r) = "correct"
       THEN /\ accepted' = accepted \cup {r.scope}
            /\ platform' = [platform EXCEPT ![ch] = "solved"]
       ELSE UNCHANGED <<accepted, platform>>
  /\ UNCHANGED <<intents, view, fetched, lag, learnt>>

\* A submission is rate limited, or lost without an effect.
Drop(r) ==
  /\ r \in wire
  /\ wire' = wire \ {r}
  /\ \E v \in {"ratelimited", "uncertain"} : solver' = Answered(r, v)
  /\ UNCHANGED <<intents, view, fetched, externalVars, learnt>>

\* Someone else of the team solves the challenge.
SolvedElsewhere(ch) ==
  /\ platform[ch] = "open"
  /\ platform' = [platform EXCEPT ![ch] = "solved"]
  /\ UNCHANGED <<intents, solver, view, fetched, wire, lag, accepted, learnt>>

\* A recorded solve becomes visible in the catalogue.
ListSolve(ch) ==
  /\ platform[ch] = "solved"
  /\ platform' = [platform EXCEPT ![ch] = "listed"]
  /\ lag' = [lag EXCEPT ![ch] = 0]
  /\ UNCHANGED <<intents, solver, view, fetched, wire, accepted, learnt>>

\* Time passes, within the bounds: Delay counts from the marker, so it covers
\* a pause of the process before the callback too.
Tick ==
  /\ \A r \in wire : r.age < Delay
  /\ \A w \in Solver : solver[w].pc = "marked" =>
        intents[solver[w].scope][solver[w].cand].age < Delay
  /\ \A ch \in Challenge : platform[ch] = "solved" => lag[ch] < Lag
  /\ fetched # NoCatalogue => fetched.age < Fetch
  /\ AgeIntents
  /\ wire' = {[r EXCEPT !.age = @ + 1] : r \in wire}
  /\ fetched' = IF fetched = NoCatalogue THEN fetched ELSE [fetched EXCEPT !.age = @ + 1]
  /\ lag' = [ch \in Challenge |-> IF platform[ch] = "solved" THEN lag[ch] + 1 ELSE lag[ch]]
  /\ UNCHANGED <<solver, view, platform, accepted, learnt>>

-----------------------------------------------------------------------------
Init ==
  /\ IntentsInit
  /\ solver = [w \in Solver |-> EmptySlot]
  /\ view = [ch \in Challenge |-> "unread"]
  /\ fetched = NoCatalogue
  /\ wire = {}
  /\ platform = [ch \in Challenge |-> "open"]
  /\ lag = [ch \in Challenge |-> 0]
  /\ accepted = {}
  /\ learnt = {}

AttemptStep(w) ==
  \/ \E c \in Candidate : Propose(w, c)
  \/ Mark(w) \/ Dispatch(w) \/ CallFails(w) \/ Record(w) \/ ReportSolved(w)
  \/ EndAttempt(w)

Next ==
  \/ \E w \in Solver, s \in Scope : BeginAttempt(w, s)
  \/ \E w \in Solver : AttemptStep(w)
  \/ FetchCatalogue
  \/ PassWithCachedCatalogue
  \/ PassWithFreshCatalogue
  \/ Crash
  \/ \E r \in wire : Process(r) \/ Drop(r)
  \/ \E ch \in Challenge : SolvedElsewhere(ch) \/ ListSolve(ch)
  \/ Tick

Spec == Init /\ [][Next]_vars

\* The attempt loop and the pass loop keep running between crashes, a catalogue
\* read succeeds again and again, and the platform answers, drops and lists
\* within its bounds; time never stops.  New attempts are never forced.
Fairness ==
  /\ \A w \in Solver : WF_vars(AttemptStep(w))
  /\ SF_vars(FetchCatalogue) /\ SF_vars(PassWithFreshCatalogue)
  /\ SF_vars(Tick)
  /\ WF_vars(\E r \in wire : Process(r) \/ Drop(r))
  /\ \A ch \in Challenge : WF_vars(ListSolve(ch))

FairSpec == Spec /\ Fairness

-----------------------------------------------------------------------------
(* Properties. *)

\* Type invariant of the attempts, the cached catalogue and the platform.
TypeOK ==
  /\ IntentsTypeOK
  /\ solver \in [Solver -> Slot]
  /\ view \in [Challenge -> View]
  /\ fetched \in Response \cup {NoCatalogue}
  /\ wire \in SUBSET Request
  /\ platform \in [Challenge -> {"open", "solved", "listed"}]
  /\ lag \in [Challenge -> 0 .. Lag]
  /\ accepted \in SUBSET Scope
  /\ learnt \in SUBSET Definitive

\* The code keeps the abstract promise: Brain._submit never sends into a scope
\* where an earlier submission may still take effect or was accepted, across
\* crashes, lost answers, restarts and the 300-second catalogue rule.
Promise == INSTANCE SubmissionPromise WITH
  outstanding <- {<<r.scope, r.cand>> : r \in wire}, accepted <- accepted

KeepsPromise == Promise!PromiseSpec

\* No candidate is sent again in the scope that rejected it, and nothing is
\* sent for a challenge any scope of which was durably reported solved.
SendsAgainst(s, c) ==
  \/ <<s, c, "incorrect">> \in learnt
  \/ \E t \in Siblings(s), d \in Candidate, v \in Concluding : <<t, d, v>> \in learnt

NeverSendsAgainstVerdict ==
  [][\A w \in Solver :
       solver[w].pc = "marked" /\ solver'[w].pc = "calling" =>
         ~SendsAgainst(solver[w].scope, solver[w].cand)]_vars

\* What the process believes solved survives it: a brief cached as solved is
\* listed as solved by the platform or blocked by a durable row.
SolvedBeliefIsDurable ==
  \A ch \in Challenge : view[ch] = "solved" =>
    platform[ch] = "listed" \/ \A s \in Scope : ChallengeOf[s] = ch => Blocked(s)

\* An unknown outcome never blocks a scope for ever: the catalogue rule clears it.
OutcomeUnknown(s) == \E c \in Candidate : intents[s][c].status \in Unresolved

UncertaintyIsCleared ==
  \A s \in Scope : OutcomeUnknown(s) ~> ~OutcomeUnknown(s)

=============================================================================
