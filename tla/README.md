# Formal model of the solver runtime

This directory holds TLA+ models of the agent's runtime: what it promises about
flag submissions, model spending, shared tool slots, shell jobs, the choice of what to
work on and the record of the results, while threads interleave, answers come late or
never, and the process is killed and restarted.
Paths are relative to the repository root; the `map` in `PROJECT.json` names, for
every definition that models code, the lines it stands for.

## 1. The system

| Part | State it keeps | Operations | Talks to |
| --- | --- | --- | --- |
| Submission intents (`agent_ext/runtime_state.py`, `Brain._submit`) | SQLite rows (scope, candidate) -> status, terminal, updated_at | reserve, mark dispatch possible, reconcile, reconcile catalogue, `submission_reconciled` | Brain, coordinator, catalogue cache |
| Challenge state, observations (`runtime_state.py`) | rows per challenge: attempts, failure streak, back-off, solved; command fingerprints per scope | record outcome, rank, record command, lookup, findings | coordinator, shell, prompt |
| Budget ledger (`agent_ext/model_gateway.py`) | SQLite `model_calls`, `ledger_meta` | open, reserve, settle, release_unstarted, snapshot | every Brain of both lanes |
| Model gateway and turns (`model_gateway.py`, `Brain._chat`) | dispatch thread, turn counter, route | complete, route, fail over, settle | ledger, provider |
| Tool admission (`agent_ext/resources.py`) | active cost, FIFO of tickets | acquire, release | shells, typed tools |
| Managed shell (`agent_ext/managed_shell.py`, `_StatefulShell`) | job table, executor threads, processes, pending commands | run, start, poll, cancel, close | admission, observations, vault |
| Coordinator and lanes (`arena_main.py`) | pass counters, stop reason, cached catalogue, the future of the static lane | admit, note_result, should_continue, list_challenges, prepare/start/take | everything above, upstream `main` |
| Output vault (`agent_ext/output_vault.py`) | captured outputs per scope | save, read, project | shell, prompt |
| Controller, scheduler, retry policy (`agent_ext/controller.py`, `scheduler.py`, `retry_policy.py`) | work entries per scope, the active attempt, blocked subsystems, usage | update catalogue, next action, claim, finish, resolve candidate, propose, requalify, observe evidence, cancel | strategy bridge, owners |
| Strategy bridge (`agent_ext/strategy_bridge.py`) | one attempt's candidate, evidence and request counts | run, submit candidate | controller, owners' callbacks, Brain |
| Submission store, verification (`agent_ext/submission_state.py`, `verification.py`) | intents and outcome events in SQLite | reserve, mark dispatch possible, prove not sent, record outcome, recover, qualify | owners |
| Internal results (`agent_ext/results.py`) | committed entries, published revision, a file | commit entry, project, reconcile | owners, the same SQLite file |
| Scoped memory (`agent_ext/memory.py`) | append-only observations, hypotheses, experiments | add, look up a reusable experiment, build a packet | - |
| Brain tool loop, discovery, contexts, typed tools, contracts, launchers | per-attempt locals | parsing, validation, dispatch by name | - |

A run is a loop of passes. A pass reads or reuses the catalogue, reconciles the
intent table against it, ranks the open challenges and gives out at most two
attempts: a dynamic challenge on the main thread and a static one beside it on a
worker thread (`_ParallelStaticLane`). Each attempt builds a `Brain`, which asks
the model for turns (through ledger and gateway), runs shell commands (through
admission) and submits candidates (through the intent table). Both lanes share the
SQLite files, the admission pool and the coordinator. The process may be killed
anywhere; only the files survive.

Beside this loop the repository has a second, serial way to drive a Brain:
`Controller` decides which scope is worked on next and `BrainAttempt` of the strategy
bridge executes that attempt, with the intent store and the projector of results
behind the owners' callbacks.

What makes this hard: a submission whose answer is lost may still be processed;
a model request that timed out may still be charged and its thread cannot be
cancelled; the two lanes reserve money between each other's read and write; a
cancelled command may be anywhere between queue, spawn and cleanup; a handle is
forgotten on some paths and not on others; every wait has a limit and so every wait
has an "it did not finish" exit; a callback may raise, or be interrupted, after it had
its effect; a verdict may be contradicted by the next event; and a pass that waits,
one that starts nothing and one that ran are paced by three different rules.

What makes each part correct:

- intents: a row means the set of verdicts it received; a challenge reported
  solved stays closed; never two submissions of one scope that may both take
  effect; nothing is blocked for ever;
- ledger and turns: what was charged or can be charged is counted, and the count
  fits the lowest limit whoever opened the file; accounts are final; threads do
  not pile up; the run stops on its budget only when it must;
- admission: the bounds hold, the queue is the set of waiters, first come first
  served, nobody starves;
- shells: what close reports as closed is quiet, no job is lost, no command runs
  twice in a scope, no thread waits for ever, and the pool bounds real processes;
- coordinator and ranking: the static lane is free when a pass needs it; back-off
  never holds a challenge back from a later pass; a solve is never unlearned; nobody
  is left behind; a run ends;
- controller and bridge: a candidate that was sent is never forgotten and never sent
  again; an open effect blocks its challenge, also under a retired scope; budgets are
  kept by interrupted attempts too; nobody is passed over for ever; attempts end;
- intent store: one send per candidate and scope; what was sent is never taken for
  unsent; a verdict is that of the set of events;
- results: what counts as published is in the file; the file never loses an entry it
  had; a projection or reconcile that has begun publishes what it covers.

## 2. Modules

| Module | Models | State and actions in the code |
| --- | --- | --- |
| `SubmissionIntents` | the intent table as operators, one per transaction; `TableSpec` is the table under any callers | `intents[s][c]` is the row; `updated_at` is an age in ticks |
| `IntentVerdicts` | any callers of that table, in any order | adds the history `verdicts`, `concluded` |
| `SubmissionPromise` | abstract: what the platform may see | `outstanding`, `accepted` |
| `SubmissionProtocol` | `Brain._submit` in both lanes, the catalogue cache, crashes, network and platform | `solver[w].pc` is the position inside `_solve`/`_submit`; `view` the cached briefs; `fetched` the catalogue response in flight |
| `BudgetLedger` | the ledger file as operators, one per transaction | `rows`, `limit` |
| `BudgetInstances` | ledger objects with their own limits over one file; those of a process end together (`Close`) | `own[i]` |
| `ModelCalls` | `_chat` and `complete` in two lanes with dispatch threads, restarts and a provider | `lane[w].pc` is the position inside `_chat`; `threads` the live dispatch threads; the history `lost` counts the timeouts of which the coordinator never heard |
| `Admission` | `acquire`'s critical sections and `Lease.release` as operators | `claim[c]`, `queue`; the active costs are sums over held claims |
| `AdmissionClients` | threads that use the pool in any order | - |
| `ManagedShells` | executor threads and attempt threads over one pool; EXTENDS `Admission` | `job[j].pc` is the position inside `_execute`, `shell[s].pc` inside a tool call or close; `handles` is `_jobs`, `commands` is `_commands`, `saved` the recorded outcomes |
| `LexOrder` | sort keys as tuples of numbers | - |
| `ChallengeState` | the table `challenge_state`: `checkpoint_outcome`, `rank` | `rows[c]` is a row; `wait` what is left of its back-off, `later` the challenges recorded after it; `BestOf` the possible heads of the ranking |
| `ArenaCoordinator` | passes, lanes, the catalogue cache and the end of a run; EXTENDS `ChallengeState` | `main.pc` is the position of the main thread inside the inherited main and `solve`, `worker` the static lane's future, `pass` the `pass_*` counters, `stopped` the stop reason |
| `RetryPolicy` | `retry_decision` and `select_challenge` as pure operators | `RetryDecision`, `Foremost` |
| `Controller` | the class of that name; EXTENDS `RetryPolicy` | `entries[s]` is a work entry, `active` and `claimed` the attempt; an action or an operator per method |
| `StrategyBridge` | `BrainAttempt` over the controller, with owners, catalogue and clock; EXTENDS `Controller` | `bridge.pc` is the callback that runs, or the place between two; `sent` and `reached` record what left and what arrived |
| `SubmissionState` | the intent store and the sender's threads | `intents[k]` is a row, `events` the event table, `sender[t].pc` the position of a sender |
| `EvidenceRecords` | entries, file and publication beside that store; EXTENDS `SubmissionState` | `writer[w].pc` is the position inside `project` or `reconcile`, `lock` is `_path_lock` |
| `*Proofs` | theorems, see section 5 | - |
| `MC*` | finite instances | - |

One SQLite transaction is one action. Between two transactions, two locks or two
effects, anything else may happen. A commit that fails rolls back and raises: the
attempt's `EndAttempt` from that program counter covers it. Every `\* Variant`
definition beside an action is a plausible slip in that code; the property it
breaks is named in `PROJECT.json` (`mutants`). No specification uses one.

External parts are the platform, the network, the provider and the operating
system. They are as free as what the code relies on permits:

- `PlatformAssumption` (`SubmissionProtocol`): a submission takes effect within
  `Delay` ticks of its marker or never, a solve is listed within `Lag`, a catalogue
  response is at most `Fetch` ticks old when reconciled, and
  `Delay + Lag + Fetch < ReconcileAge`. This is what the 300-second rule needs; the
  code states no bound of its own. With the sum equal to `ReconcileAge` the promise
  fails (TLC finds a second submission into an accepted scope). So the rule is
  safe against slow platforms up to 300 seconds in total and not beyond.
- `ProviderAssumption` (`ModelCalls`): a call costs at most what `_budget_request`
  reserves for its route, and a cost that the response states is the one charged. Without
  it no ledger could cover charges. A response may leave its cost or its whole usage out:
  it is then `unknown`, or `estimated` at the list price whatever was charged, since the
  test for BYOK reads the usage that is missing (`model_gateway.py` 254 and 271).
- The inherited `main` (`ArenaCoordinator`) lists the catalogue, visits the targets in
  rank order, lets exceptions out and answers with a code. `Openings` bounds which
  sets of challenges a catalogue may list; a listed challenge is not removed.
- The owners of the strategy bridge (`StrategyBridge`) are honest: what they say of a
  candidate fits what reached the platform, they do not call a candidate unqualified
  that was sent, and they do not resolve one that the bridge is handing off at that moment.
- The sender of the intent store (`SubmissionState`) does what
  `docs/evidence-policy.md` 39-40 asks for: it reserves, marks, and calls only if the
  marker was granted. What the adapter says
  of a request is any of `Answers`, in any order and number; of the keys in `Early` it
  may say it before the request was sent, which `record_outcome` accepts.
- Processes may ignore a kill for ever (uninterruptible sleep), and any wait may
  end by its limit at any time.

What the second group of modules leaves out of the code it maps:

- `ArenaCoordinator`: targets that are only deferred or only recorded as solved are
  visited in one step; wall clock and monotonic clock are one clock; progress, points
  and the rest of the tie-breakers are a nondeterministic choice among equal keys; the
  validation run of one pinned challenge is not there. What an attempt does is one of
  its endings, exceptions that leave `execute_attempt` included.
- `Controller`: ages and failure lists that no decision reads are dropped; the
  metadata of a task is its order, cost and benefit.
- `StrategyBridge`: the thread runs from callback to callback, since only callbacks
  let anything else happen. Interrupts arrive in callbacks, at the report of the loop
  (`InterruptedLoop`, which is also a report that raises) and between the record of a
  verdict and its use (`InterruptedHandoff`). `cancelled()` is `Cancel` before the guard
  that polls it;
  the attempt's steps, the shared deadline and the allowance of submissions are folded
  into the budget and deadline of the attempt.
- `SubmissionState`: events are a set, since a repeated identity changes nothing; the
  flag of synthetic fixtures and the diagnostics are dropped.

## 3. Runs

| Run | Question | Instance |
| --- | --- | --- |
| `intent_verdicts` | does a row mean its verdicts, is a solved challenge closed, is the capacity kept | two instance generations of one challenge and another challenge, one candidate each, room for two of three rows |
| `submission_protocol` | is `SubmissionPromise` implemented, are verdicts obeyed, is a solved belief durable, is an unknown outcome cleared again | one challenge, two generations, a right and a wrong candidate, room for two rows, `Delay = Lag = Fetch = 1`, `ReconcileAge = 4`, two submissions per attempt |
| `budget_instances` | limits and accounts with objects opened at different times | two objects, limits 2 and 3, three calls of 1 or 2 units |
| `model_calls` | coverage and dispatch within the limit up to what estimates gave back, threads, earned stops | two lanes, three calls, prices 1 to 3, limits 4 and 6, restarts with another limit |
| `unresolved_dispatch` | a documented claim that the code does not keep; expected to fail | that of `model_calls` |
| `tool_admission` | bounds, order, service | four threads, two slots, a queue of two, four costs of which one can never fit |
| `shells` | closed means quiet, nothing forgotten, no replay, processes bounded | two attempts, two jobs, one heavy and two light commands |
| `shells_liveness` | does every executor and every wait end | one attempt, two jobs, one slot |
| `shell_seen` | a documented claim that the code does not keep; expected to fail | one attempt, two jobs, three commands |
| `strategy_bridge` | is a sent candidate remembered and sent once, are siblings blocked, budgets and bypasses bounded, do attempts end | two challenges, one of them with two scopes; one candidate, one piece of evidence; two attempts per scope and in all, one request of each kind per attempt, a run of three ticks and attempts of two |
| `evidence_records` | one send, verdicts as the events say, file and bookkeeping in order, what is projected published | three candidates of which one has incomplete evidence, two of them with contradictory or vague answers, one of which may come before its request is sent; two sender threads, two writers, room for two intents, one loss |
| `arena` | free lanes, back-off, ranking, the end of a run | a dynamic challenge with a proof and 500 points and two static ones, one of them popular; a catalogue that grows from one to three; the three selector modes; five ticks, cooldown 1, recovery 2, back-off and crowd credit up to 1 |

Why the bounds suffice: the table, ledger and pool operations look at one row or
call at a time plus an aggregate (blocked, total, active), so two rows in the same
scope, two of one challenge and one of another show every way in which rows
influence each other; every counter that only accumulates (tries, turns, ages,
records) has a bound that is reached and whose exit the code has (submission budget,
`max_steps`, the 300 seconds, the capacity). Two jobs show a job that has the slot
and one that waits; a third command makes the handle limit reachable. Two lanes are
all there are; a challenge belongs to one lane in a pass, so `submission_protocol`
takes one lane and one challenge, and `ProtocolKeepsPromise` (section 5) shows the
promise for any lanes, challenges and a table that is too small for them. The
crash actions of the protocols above are unrestricted: any number of crashes at any
point. In a pass a lane starts at most one attempt, and a challenge is given to one lane: `_OuterCoordinator.admit` and `_ParallelStaticLane.prepare`.
In `arena` five ticks leave room for several passes with a pause between them, a pass
that is cut by the deadline, and both paces; three challenges give each lane a choice
or a rival. In `strategy_bridge` a second scope of one challenge is what retires an
entry, the second challenge is what is passed over, and the second attempt is what could
repeat a send. In `evidence_records` two writers are enough for one to overtake the
other, and one loss is a crash, a failed write or a lost file at any step; the proofs of
section 5 show the safety part for any number of losses.

Bounds by name: `MaxIntents`, `MaxRecords`, `MaxTurns`, `MaxSubmissions`,
`MaxHandles`, `CapActive`, `CapHeavy`, `CapMemory`, `CapPids`, `CapQueued`, `MaxCount`,
`MaxStreak`, `BackoffCap`, `CreditCap`, `CountCap`, `RetryGap`, `MaxAttempts`,
`MaxContinuations`, `MaxTotal`, `MaxScopes`, `PerAttempt`, `InTotal`, `MaxRetries`,
`MaxRepairs`, `MaxBackoff` and `MaxBypasses` are limits of the code itself with smaller
values; `ReconcileAge`, `Delay`, `Lag`, `Fetch`, `Cooldown`, `Recovery`, `MaxRun`,
`RunSeconds`, `AttemptSeconds`, `IdleGrace` and `BaseDelay` are times in ticks. Bounds of
the models only: `MaxLosses` and `Early` (`EvidenceRecords`), `Openings`
(`ArenaCoordinator`) and the guard `Running` of `StrategyBridge`, which stops feeding a controller that has stopped
and has nothing in flight. In `ManagedShells` the number of jobs is the size of
`Caller`; a job's slot is not reused.

The runs of `ManagedShells`, `StrategyBridge`, `EvidenceRecords` and `ArenaCoordinator`
do not check deadlock: their systems may really stop (all jobs and shells finished, the
run stopped, everything sent and published, the inherited main ended). All others do.

### Fairness

- `AdmissionClients`: weak fairness of a waiter's next look and of a holder's
  release. The waiter polls every 20 ms in a loop, and leases are released by `with`.
- `SubmissionProtocol`: weak fairness of a running attempt (its turns and deadline
  are bounded) and of the platform; strong fairness of reading and passing a
  catalogue and of time, because crashes may interrupt both again and again. Nobody
  is forced to begin an attempt or to crash.
- `ManagedShells`: weak fairness of executors and of the waits of tool calls and
  close: all have limits in seconds. No process is assumed to exit, and no slot is
  assumed to be freed by anyone but the executors themselves.
- `StrategyBridge`: weak fairness of the attempt's thread (its callbacks have limits),
  of the harness asking for the next action, and of the clock. Owners are not forced
  to do anything.
- `EvidenceRecords`: weak fairness of each writer that has begun. Nobody is forced to
  commit, to project or to reconcile: no source calls `reconcile` on a schedule, so an
  entry left by `commit_entry` is published when somebody next projects, and
  `ProjectionPublishes` claims no more.
- `ArenaCoordinator`: weak fairness of the whole next-state relation: as long as some
  thread or the clock can move, one does. That is less than the scheduler gives.

## 4. Where the code and its documentation part

- **A command counts as run that did not run** (`shell_seen`). `RuntimeState.lookup`
  promises to tell "whether an exact command already ran in this current scope"
  (`runtime_state.py` 1042). Two paths record a command of which no job has ended, and
  later attempts of the scope refuse it as a duplicate. `_StatefulShell.__call__`
  records whatever it gets, also `error:shell handle limit reached`, where no job was
  created: two starts fill the handles, a third call is refused and recorded. And
  `poll_bash` with a wait above five seconds answers an error string, which
  `_StatefulShell.poll` takes for the end of the job: the pending command is dropped,
  the error recorded as its result, and the job goes on unrecorded, while
  `docs/tooling.md` says the vault retains exact shell results. `NoJobForgotten` and
  `ClosedShellIsQuiet` hold in spite of it, because the inner shell keeps the handle.

- **The next pass starts beside an unresolved dispatch** (`unresolved_dispatch`).
  `docs/model-gateway.md` 65-66 says that after a timeout "the arena coordinator stops that
  process instead of starting another challenge dispatch". The coordinator learns of the
  timeout only from the error string in the attempt's result (`arena_main.py` 902-904).
  That result is lost when closing the shell raises in the `finally` of `Brain.solve`
  (`brain.py` 861-864, caught at `arena_main.py` 842-851), and on the static lane also when
  `shell.close()`, the outcome's record or the checkpoint raises (866, 889-895, caught at
  1001-1005): `note_result` hears of a crash and the run goes on. Each lost timeout leaves
  a live thread, and no more than that: `ThreadsBounded` counts them (`lost`).

Met while modelling, and not checked as violations:

- `docs/model-gateway.md` 96-98 says that a missing upstream cost of a BYOK response
  "remains unresolved at the full reservation instead of settling zero or a lower list
  estimate". That holds when the usage says BYOK. A response without any usage is settled
  at the list estimate, whatever its key; `ChargesCovered` and `DispatchesFitTheLimit`
  therefore hold up to what the estimates gave back of their reservations (`Understated`).

- `docs/strategy.md` 108-109 says that crash outcomes "affect durable ranking without
  killing the outer queue". `shell.close()` in the `finally` of `execute_attempt`
  (`arena_main.py` 866) may raise; on the main lane the exception then leaves the pass
  loop, and on the normal path the outcome of the attempt is lost with it
  (`MainAttemptRaises`). The static lane turns the same exception into a result.
- A failover, or a later turn on the stronger route, that does not fit the budget stops
  the whole run though the configured route might still fit (`brain.py` 764 and 702);
  `BudgetStopIsEarned` is therefore about first turns.
- The lease of a job may be given back while its process is alive (`managed_shell.py`
  249), and the process is killed right after; `PoolBoundsProcesses` says exactly this
  much and no more.
- A challenge that is listed as solved is recorded again in every pass, and so counts
  among the `RetryGap` others that a proven method waits for (`RetryDue`).
- `enforce_capacity` and `reserve` of the intent store (`submission_state.py`) are two
  transactions. Two threads that look at the last free row both insert one, so the table
  may exceed its limit, by fewer rows than there are sending threads
  (`OvershootBounded`).
- The back-off of at most two seconds is never longer than the pause between two
  passes, so within one run it defers nothing (`BackoffIsOver`); it can matter only to
  a process that was restarted at once.

## 5. Proofs

TLAPS checks the following for every value of the constants that satisfies the named
assumptions (`IntentsAssumption`, `PlatformAssumption`, `LedgerAssumption`,
`ProviderAssumption`, `LanesAssumption`, `CapacityAssumption`, `ShellAssumption`,
`SubmissionAssumption`, `LossesAssumption`, `RankingAssumption`, `CoordinatorAssumption`,
`LimitsAssumption`, `ControllerAssumption`, `BridgeAssumption`). The type invariant of every
component is among the theorems; no run spends a property on it.

- `IntentVerdictsProofs`: types, `VerdictOrderIrrelevant`, `ConcludedStaysBlocked`,
  `CapacityRespected`. For the first two the inductive invariant is `HistoryInv`: every row stands for
  the set of verdicts reconciled into it (`RowsMeanTheirVerdicts`) and every
  challenge in `concluded` has a row with a concluding verdict (`ConcludedHasRow`).
  `ConcludedStaysBlocked` alone is not inductive: the row that blocks could be
  reconciled into something else, and only its history says what it may become. The
  capacity is a theorem of the table itself, under any callers (`TableBounded`): the set
  of rows is finite and small, and only a reservation adds one. `VerdictsUseTheTable`
  carries it over.
- `BudgetLedgerProofs`: types, `FitsEveryLimit`, `AccountsAreFinal`. The step
  property needs `LimitIsLowest`: the durable limit never exceeds the limit of an
  open object, because every open and every restart lowers it or raises an error.
- `ModelCallsProofs`: types, `ChargesCovered`, `BudgetStopIsEarned`, `ThreadsBounded`,
  `DispatchesFitTheLimit`. `CoverInv` says
  of every call how far it can be charged given where it is (`FateCounted`), with what an
  estimate may understate (`Understated`), of every
  attempt what it knows of the call it holds (`HoldsReserved`), and that no call is
  held twice (`OwnCalls`): a settlement lowers a reservation only to what has been
  charged, and a release only touches a call that was never sent. `StopInv` adds what
  an attempt's first turn may look like. `ThreadInv` bounds the live threads by the
  lanes that still hold one (those that wait for it, have timed out, or ended while
  their thread was stopping) and the timeouts of which the coordinator never heard.
  `RoomInv` says that what is committed fits the limit as long as a lane holds a call it has not dispatched: a process lowers the limit
  only when it opens the ledger, and then it holds no call. `DispatchesFitTheLimit` adds
  up what the calls can be charged, which `CoverInv` bounds by what is committed and what
  estimates gave back. What is committed is a sum over the calls; the few facts needed of it
  (it is unique, and it moves by as much as one of its summands) are proved by induction
  over the finite set of calls.
- `ModelCallsProofs`, refinement: `LanesUseTheLedger` shows that the lanes implement
  `BudgetInstances` with one ledger object per lane: every step is an operation of one
  object, the end of a process's objects, or a stutter. `LanesFitEveryLimit` reads the
  theorems of `BudgetLedgerProofs` through it.
- `SubmissionProtocolProofs`: types, `KeepsPromise`, `NeverSendsAgainstVerdict`,
  `SolvedBeliefIsDurable`, and `CapacityRespected`, which `ProtocolUsesTheTable` reduces to
  `TableBounded`: the protocol reaches its rows through the transactions of the table only. `ProtocolInv` has a part for the attempts and one for the
  rows. `SlotFacts`: no two attempts of a pass work on one challenge, and from the
  reservation to the send nothing of the scope is on the wire, accepted or learnt
  (`SenderFine`). `RowInv`: each submission on the wire is alone in its scope and has an
  unresolved row no older than itself (`WireFacts`); an accepted candidate has a row
  that says so, or an unresolved one young enough (`AcceptedFacts`: at most `Delay`
  plus the time since the solve while unlisted, plus the age of the response while a
  response that misses it is under way); a verdict that was learnt is on record
  (`LearntFacts`). Each of these may be given up only for a challenge that is `Gone`:
  listed as solved, with no catalogue in the process that says otherwise. The
  promise alone is far from inductive: what the catalogue rule may forget depends on
  ages, and `Delay + Lag + Fetch < ReconcileAge` is used in exactly one lemma
  (`PassFreshStep`). `ProtocolKeepsPromise` is the step simulation: `Dispatch` is a
  `Send`, `Process` and `Drop` are a `Process`, all else stutters, and a tick ages the
  wire without changing what is outstanding.
- `ManagedShellsProofs`, the pool under any callers (`AdmissionClients`):
  types; `LeasesFitCapacity`, from `SlotsInv`, which ties the counters of leases to the set
  of held claims, and `UnitsInv`, which does the same for memory and processes (a unit that
  is out is a pair of a holder and a number up to its cost, so that a sum becomes the size of a
  set); and `NoOvertaking`, from `TicketsInv`: whoever waits has a ticket in the queue, so an
  empty queue means that a newcomer passes nobody.
- `ManagedShellsProofs`, the shells: types, `NoJobForgotten`, `NoReplay`, `ClosedShellIsQuiet`,
  `PoolBoundsProcesses`. `JobsInv` ties a job's position in `_execute` to its process
  and its claim (no process before a lease, none alive after the final kill, a lease
  from the grant to the end of the `with`). `OwnersInv` says what the attempt thread
  can rely on: an unfinished job is in the handle table, and while the shell can
  still start commands, the command of every job is recorded, pending, or the one
  being waited for. The last part is what makes `NoReplay` inductive: a handle may
  be forgotten, its command may not. Jobs only advance (`Advance`), so the two
  invariants are kept by the executors and by the attempt threads separately.
  `ShellsUseThePool` shows that the shells implement `AdmissionClients`: every step
  is one pool operation or leaves the pool alone; `ShellsSharePool` is the capacity and the
  order of the pool for the shells, and `PoolBoundsProcesses` follows from it,
  `SlotsInv` and `JobsInv`.
- `EvidenceRecordsProofs`, the store: `SentAtMostOnce`, `SentIsNotForgotten`,
  `VerdictIsOfEvents`, as theorems of `StoreSpec`. `DispatchInv` says that a row
  the marker was set for never counts as unsent (`FlagMatchesState`; the converse fails, since
  an outcome is accepted of a row that was never marked) and that the
  thread that was granted the marker is the only one and has not sent yet
  (`PermissionIsUnique`); without the second part a marker that was granted before a
  crash and one granted after it could not be told apart. The verdict of a row is
  inductive given `DispatchInv`, which keeps unsent states out of reach once an event
  has come. `OvershootBounded` bounds the rows: `RowsInv` counts with them the threads that
  found room and have not inserted yet (`Newcomers`), and the two together stay below the
  limit plus the number of threads.
- `EvidenceRecordsProofs`, the projector: `StoreImplemented` shows that every step with
  the projector is a step of the store or leaves it alone, so the three theorems above
  carry over. `FileInv` (`RevisionsAgree`, `OneProjector`, `KnowsItsRevision`) says that
  one writer holds the lock and that file, published revision and what the holder has
  read are in order; `PublishedIsOnDisk` and `FileNeverGoesBack` follow. The types of the
  whole module are proved with it (`EvidenceTyped`).
- `StrategyBridgeProofs`: types, `NoEffectForgotten`, `DeliveredOnce`,
  `OpenEffectBlocksChallenge`, `UsageWithinBudget`, `BypassesBounded`. An open effect is
  `unresolved`, except while the bridge hands it off and after an interrupt that stopped the
  run, where it may still await its verdict. `OwnershipInv` says who may touch an
  entry: the attempt in flight has one that is active or retired, with no open effect
  under it or under a sibling (`AttemptFacts`); the handoff has the one that awaits its
  candidate, which was not sent before the send and never reached the platform
  (`HandoffFacts`, `EffectFacts`). `ReachedIsKnown` is what makes `DeliveredOnce`
  inductive: what reached the platform is settled in its scope or still pending there,
  so no later attempt of the scope can be given it as a new candidate. Everything else
  that changes entries (catalogue updates, decisions, evidence, repaired subsystems) is
  `Quiet`: it settles nothing, opens no effect and leaves one that has a candidate
  where it is. `BypassesBounded` rests on `AgingInv`, which
  bounds for every `j` how many challenges have been passed over `MaxBypasses + j` times:
  aging puts them in front, so each further admission takes one out of them. That needs
  the order of two tasks to differ, as their sort keys do, and then the choice is total
  and unique (`SchedulerDecides`). The proofs assume that the owners know what reached the platform
  (`OwnersOutcome`), as the runs do.
- `ArenaCoordinatorProofs`: types, `LanesNeverJam`, `BackoffIsOver`, `SolvedComesLast`,
  `NobodyLeftBehind`. `ArenaInv` is `TypeInv` (what runs has a target),
  `LaneInv` (where the worker can be given where the main thread is), `BackoffInv` (what
  is left of a pause covers what is left of every back-off) and `PickInv`: between the
  listing and the admission no open rival of a chosen target is more deserving. The last
  rests on lemmas about the lexicographic order of the ranking key.

Only model-checked: everything under fairness (`UncertaintyIsCleared`,
`EveryWaiterServed`, `EveryJobEnds`, `EveryWaitEnds`, `EveryAttemptEnds`,
`ProjectionPublishes`, `RunEnds`), since the prover has no `ENABLED`.

## 6. Not modelled, and the plan

In this order:

1. `OutputRetention`: 256 observations per scope against the no-replay rule, and the
   vault beside it.
2. `BrainLoop`: steps, phases and repair turns of `Brain.solve`, to replace the free
   choice of callbacks in `StrategyBridge`.
3. The validation run of one pinned challenge in `ArenaCoordinator`.

Left out for good: scoped memory, whose lists belong to one object and meet no second
actor; parsing and validation of provider catalogues, tool arguments and
files (`provider_discovery`, `runtime_context`, `tools/`), static texts and records
(`playbooks`, `challenge_methods`, `contracts`), the launchers, and the process
confinement check, which is an operating-system matter.
