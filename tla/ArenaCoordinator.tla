-------------------------- MODULE ArenaCoordinator ---------------------------
(* The outer coordinator of arena_main.py: passes over the ranked catalogue,  *)
(* the static lane beside the main one, and the end of the run.               *)
(*                                                                            *)
(* Two threads: the main one, inside the inherited main (external: it visits  *)
(* the listed targets in rank order and lets exceptions out), and the worker  *)
(* of _ParallelStaticLane.  Between two steps of a thread the other one or    *)
(* the clock may move.  Targets that are only deferred or only recorded as    *)
(* solved are visited in one step.  What an attempt does is its outcome.      *)
EXTENDS ChallengeState

CONSTANTS
    Selected,       \* the targets under ONLY_IDS or CATEGORIES
    Cooldown, Recovery,     \* _PASS_COOLDOWN_SECONDS, _PASS_RECOVERY_SECONDS
    MaxRun,         \* _MAX_RUN_SECONDS
    Openings,       \* external, a bound: the sets of challenges ever listed
    NoChallenge

ASSUME CoordinatorAssumption ==
    /\ Selected \subseteq Challenge /\ Openings \subseteq SUBSET Challenge
    /\ NoChallenge \notin Challenge
    /\ {Cooldown, Recovery, MaxRun} \subseteq Nat \ {0}
    /\ BackoffCap <= Cooldown /\ Cooldown <= Recovery

VARIABLES
    mode,           \* the selectors the run was started with
    left,           \* time to the deadline
    stopped,        \* stop_reason is set
    pass,           \* the pass_* fields
    cache,          \* _CatalogueCache
    main,           \* the main thread
    worker          \* the static lane's future

vars == <<rows, mode, left, stopped, pass, cache, main, worker>>

Lane == {"serial", "dynamic", "static"}

Pass == [called : BOOLEAN, lanes : SUBSET Lane, allSolved : BOOLEAN, waiting : BOOLEAN]

\* begin_pass
NewPass == [called |-> FALSE, lanes |-> {}, allSolved |-> TRUE, waiting |-> FALSE]

Cache == [read : BOOLEAN, listed : SUBSET Challenge, confirmed : SUBSET Challenge,
          solved : SUBSET Challenge]

MainPc == {"list", "admit", "admitted", "running", "take", "rest", "returned",
           "sleep", "ended"}
Main == [pc : MainPc, target : Challenge \cup {NoChallenge},
         static : Challenge \cup {NoChallenge}, pause : 0..Recovery]

\* "failed": the callable raised, so future.result() raises.
WorkerPc == {"none", "detail", "running", "done", "failed"}
Worker == [pc : WorkerPc, solved : BOOLEAN]

Idle == [pc |-> "none", solved |-> FALSE]

Targets == IF mode = "open" THEN cache.listed ELSE cache.listed \cap Selected

Goto(pc) == [main EXCEPT !.pc = pc]

-----------------------------------------------------------------------------
(* Coordinator. *)

\* admit: the deadline becomes the stop reason when it is noticed.
Stops == stopped \/ left = 0

Vacant(lane) == lane \notin pass.lanes /\ (lane = "serial" => pass.lanes = {})
                /\ "serial" \notin pass.lanes

Admitted(lane) == [pass EXCEPT !.called = TRUE, !.lanes = @ \cup {lane}]
Deferred == [pass EXCEPT !.called = TRUE, !.allSolved = FALSE]

\* How an attempt may end, and what note_result makes of it.  "terminal": the
\* model budget is exhausted or a model dispatch unresolved.
Ending == {"solved", "unsolved", "failed", "terminal", "waiting"}

Result(end) == IF end \in Outcome THEN end ELSE "failed"

NoteResult(end) ==
    /\ stopped' = (Stops \/ end = "terminal")
    /\ pass' = [pass EXCEPT !.waiting = @ \/ end = "waiting",
                            !.allSolved = @ /\ end = "solved"]

Quiet == ~pass.called \/ pass.lanes = {} \/ pass.allSolved

Delay == IF pass.waiting \/ Quiet THEN Recovery ELSE Cooldown

\* Variant: only a stop reason ends the run.
ContinueUnlessStopped == ~stopped

ShouldContinue == ~stopped /\ left > Delay

-----------------------------------------------------------------------------
(* The main thread. *)

\* The inherited main lists the catalogue: a read of it, or the cached copy
\* when that is recent or the read fails.  A first read that fails raises.
Catalogues ==
    {[read |-> TRUE, listed |-> o, confirmed |-> o \cap s, solved |-> o \cap s] :
        o \in {p \in Openings : cache.listed \subseteq p},
        s \in {t \in SUBSET Challenge : cache.confirmed \subseteq t}}
    \cup {k \in {cache} : k.read}

Candidates(k, kinds) == {c \in (k.listed \ k.solved) \cap kinds : Ready(c)}

\* prepare chooses a pair when both kinds have an eligible challenge; otherwise
\* the first target that is not listed as solved is the pass's only slice.
Prepared(k) ==
    LET static  == Candidates(k, Challenge \ Dynamic)
        dynamic == Candidates(k, Dynamic)
        open    == (IF mode = "open" THEN k.listed ELSE k.listed \cap Selected) \ k.solved
    IN  IF mode = "open" /\ static # {} /\ dynamic # {}
        THEN {[pc |-> "admit", target |-> d, static |-> s, pause |-> 0] :
                  d \in BestOf(dynamic, k.solved), s \in BestOf(static, k.solved)}
        ELSE IF open # {}
        THEN {[pc |-> "admit", target |-> c, static |-> NoChallenge, pause |-> 0] :
                  c \in BestOf(open, k.solved)}
        ELSE {[pc |-> "rest", target |-> NoChallenge, static |-> NoChallenge, pause |-> 0]}

ListChallenges ==
    /\ main.pc = "list" /\ worker.pc = "none"
    /\ \E k \in Catalogues :
         /\ cache' = k
         /\ main' \in Prepared(k)
    /\ UNCHANGED <<rows, mode, left, stopped, pass, worker>>

\* An exception leaves the inherited main and the pass loop: a first read of
\* the catalogue, a catalogue or a brief of another shape, a row that cannot be
\* read or written, the detail of the first target, a lane not collected.
MainFails ==
    /\ \/ main.pc \in {"list", "admit"}
       \/ main.pc = "take" /\ worker.pc = "failed"
    /\ main' = Goto("ended")
    /\ UNCHANGED <<rows, mode, left, stopped, pass, cache, worker>>

OwnLane == IF main.static = NoChallenge THEN "serial" ELSE "dynamic"

AdmitTarget ==
    /\ main.pc = "admit"
    /\ IF Stops \/ ~Vacant(OwnLane)
       THEN stopped' = Stops /\ pass' = Deferred /\ main' = Goto("take")
       ELSE /\ pass' = Admitted(OwnLane)
            /\ main' = Goto(IF main.static = NoChallenge THEN "running" ELSE "admitted")
            /\ UNCHANGED stopped
    /\ UNCHANGED <<rows, mode, left, cache, worker>>

\* The static lane is admitted after the dynamic one; refused, it raises.
AdmitStatic ==
    /\ main.pc = "admitted"
    /\ IF Stops \/ ~Vacant("static")
       THEN /\ stopped' = Stops /\ pass' = Deferred /\ main' = Goto("ended")
            /\ UNCHANGED worker
       ELSE /\ pass' = Admitted("static") /\ main' = Goto("running")
            /\ worker' = [Idle EXCEPT !.pc = "detail"]
            /\ UNCHANGED stopped
    /\ UNCHANGED <<rows, mode, left, cache>>

\* execute_attempt on the main thread.
MainAttemptEnds(end) ==
    /\ main.pc = "running"
    /\ rows' = Recorded(rows, {main.target}, Result(end))
    /\ cache' = IF end = "solved" THEN [cache EXCEPT !.solved = @ \cup {main.target}] ELSE cache
    /\ NoteResult(end)
    /\ main' = Goto("take")
    /\ UNCHANGED <<mode, left, worker>>

\* shell.close raises, which it does before the outcome of a result is recorded
\* and after that of an exception; or the result is malformed.
MainAttemptRaises ==
    /\ main.pc = "running"
    /\ \/ UNCHANGED <<rows, stopped, pass>>
       \/ rows' = Recorded(rows, {main.target}, "failed") /\ UNCHANGED <<stopped, pass>>
       \/ rows' = Recorded(rows, {main.target}, "failed") /\ NoteResult("failed")
    /\ main' = Goto("ended")
    /\ UNCHANGED <<mode, left, cache, worker>>

\* Variant: take does not wait for the worker.
TakeAtOnce ==
    /\ main.pc = "take" /\ worker.pc # "failed"
    /\ IF worker.pc = "done"
       THEN /\ cache' = IF worker.solved
                        THEN [cache EXCEPT !.solved = @ \cup {main.static}] ELSE cache
            /\ worker' = Idle
       ELSE UNCHANGED <<cache, worker>>
    /\ main' = Goto("rest")
    /\ UNCHANGED <<rows, mode, left, stopped, pass>>

\* The second target of a pair: wait for the worker and clear the lane.  A
\* serial slice, or a pair that was not started, has nothing to collect.
TakeStatic ==
    /\ main.pc = "take" /\ worker.pc \in {"none", "done"}
    /\ cache' = IF worker.solved THEN [cache EXCEPT !.solved = @ \cup {main.static}] ELSE cache
    /\ worker' = Idle
    /\ main' = Goto("rest")
    /\ UNCHANGED <<rows, mode, left, stopped, pass>>

\* The other targets: solved ones are recorded as solved, the rest deferred.
VisitRest ==
    LET rest   == Targets \ {main.target, main.static}
        solved == rest \cap cache.solved
    IN  /\ main.pc = "rest"
        /\ rows' = Recorded(rows, solved, "solved")
        /\ pass' = [pass EXCEPT !.called = @ \/ rest # {}, !.allSolved = @ /\ rest \subseteq solved]
        /\ stopped' = (stopped \/ (left = 0 /\ ~(rest \subseteq solved)))
        /\ main' = Goto("returned")
        /\ UNCHANGED <<mode, left, cache, worker>>

\* The pass loop of main: an explicit selector ends with its targets.
PassEnds ==
    /\ main.pc = "returned"
    /\ main' = IF (mode = "explicit" /\ Quiet) \/ ~ShouldContinue THEN Goto("ended")
               ELSE [main EXCEPT !.pc = "sleep", !.pause = Delay]
    /\ UNCHANGED <<rows, mode, left, stopped, pass, cache, worker>>

\* The inherited main answers with an error code.
MainRefuses ==
    /\ main.pc = "returned" /\ main' = Goto("ended")
    /\ UNCHANGED <<rows, mode, left, stopped, pass, cache, worker>>

BeginPass ==
    /\ main.pc = "sleep" /\ main.pause = 0
    /\ pass' = NewPass /\ main' = Goto("list")
    /\ UNCHANGED <<rows, mode, left, stopped, cache, worker>>

-----------------------------------------------------------------------------
(* The static lane and the clock. *)

Delivers(solved) == worker' = [pc |-> "done", solved |-> solved]

\* solve_static reads the detail with a client of its own.
WorkerDetail ==
    /\ worker.pc = "detail"
    /\ \/ worker' = [worker EXCEPT !.pc = "running"] /\ UNCHANGED <<rows, stopped, pass>>
       \/ worker' = [worker EXCEPT !.pc = "failed"] /\ UNCHANGED <<rows, stopped, pass>>
       \/ /\ rows' = Recorded(rows, {main.static}, "failed")    \* fails or changed
          /\ NoteResult("failed") /\ Delivers(FALSE)
    /\ UNCHANGED <<mode, left, cache, main>>

WorkerAttemptEnds(end) ==
    /\ worker.pc = "running"
    /\ rows' = Recorded(rows, {main.static}, Result(end))
    /\ NoteResult(end) /\ Delivers(end = "solved")
    /\ UNCHANGED <<mode, left, cache, main>>

\* The exception of execute_attempt becomes a result.
WorkerAttemptRaises ==
    /\ worker.pc = "running"
    /\ rows' \in {rows, Recorded(rows, {main.static}, "failed")}
    /\ NoteResult("failed") /\ Delivers(FALSE)
    /\ UNCHANGED <<mode, left, cache, main>>

Tick ==
    /\ left > 0 /\ main.pc # "ended"
    /\ left' = left - 1
    /\ rows' = [c \in Challenge |-> [rows[c] EXCEPT !.wait = AtLeast(@ - 1, 0)]]
    /\ main' = [main EXCEPT !.pause = AtLeast(@ - 1, 0)]
    /\ UNCHANGED <<mode, stopped, pass, cache, worker>>

Init ==
    /\ rows = [c \in Challenge |-> NoRow]
    /\ mode \in {"open", "categories", "explicit"}
    /\ left = MaxRun /\ stopped = FALSE /\ pass = NewPass
    /\ cache = [read |-> FALSE, listed |-> {}, confirmed |-> {}, solved |-> {}]
    /\ main = [pc |-> "list", target |-> NoChallenge, static |-> NoChallenge, pause |-> 0]
    /\ worker = Idle

MainSteps ==
    \/ ListChallenges \/ MainFails \/ AdmitTarget \/ AdmitStatic
    \/ \E end \in Ending : MainAttemptEnds(end)
    \/ MainAttemptRaises \/ TakeStatic \/ VisitRest \/ PassEnds \/ MainRefuses \/ BeginPass

WorkerSteps ==
    \/ WorkerDetail \/ WorkerAttemptRaises
    \/ \E end \in Ending : WorkerAttemptEnds(end)

Next == MainSteps \/ WorkerSteps \/ Tick

Spec == Init /\ [][Next]_vars

\* Something always moves as long as something can: each pass takes finitely
\* many steps of both threads and, to sleep, needs the clock.
Fairness == WF_vars(Next)

FairSpec == Spec /\ Fairness

-----------------------------------------------------------------------------
(* Properties. *)

\* Type invariant of the coordinator and the table.
TypeOK ==
    /\ rows \in [Challenge -> Row]
    /\ mode \in {"open", "categories", "explicit"}
    /\ left \in 0..MaxRun /\ stopped \in BOOLEAN
    /\ pass \in Pass /\ cache \in Cache /\ main \in Main /\ worker \in Worker

\* The static lane is free whenever a pass lists the catalogue, so prepare
\* never raises; and once the dynamic challenge of a pair is admitted, only the
\* deadline can keep the static one out and break the run.
LanesNeverJam ==
    /\ main.pc = "list" => worker.pc = "none"
    /\ main.pc = "admitted" => Vacant("static") /\ ~stopped

\* Back-off never defers a challenge within a run: when a pass ranks its
\* targets, every delay of the passes before is over.
BackoffIsOver == main.pc = "list" => \A c \in Challenge : Ready(c)

Starts(c) ==
    \/ main.pc # "running" /\ main'.pc = "running" /\ main.target = c
    \/ worker.pc = "none" /\ worker'.pc = "detail" /\ main.static = c

Rivals(c) ==
    {d \in Targets \ (cache.solved \cup {c}) : c \in Dynamic <=> d \in Dynamic}

\* A solve is never unlearned, whatever comes after it; and while the catalogue
\* does not list it yet, the challenge gets another slice only if no open one of
\* its kind is waiting.
SolvedComesLast ==
    [][\A c \in Challenge : rows[c].solved =>
           /\ rows'[c].solved
           /\ Starts(c) => \A d \in Rivals(c) : rows[d].solved]_vars

\* No listed challenge is left behind: whatever the crowd, the proofs and the
\* order of the passes, a challenge gets a slice only if it is at most
\* CreditCap attempts ahead of every open one of its kind.
NobodyLeftBehind ==
    [][\A c \in Challenge : Starts(c) =>
           \A d \in Rivals(c) : ~rows[d].solved =>
               rows[c].attempts <= rows[d].attempts + CreditCap]_vars

\* Every run ends, whatever attempts, catalogues and the worker do.
RunEnds == <>(main.pc = "ended")

=============================================================================
