------------------------- MODULE ManagedShellsProofs -------------------------
(***************************************************************************)
(* For any number of attempts, jobs, commands and slots: a shell loses no  *)
(* job it may have to stop, runs no command twice and is quiet when it     *)
(* says it is closed.  The counters of the tool pool count its leases      *)
(* under any callers, and the shells use it like those of AdmissionClients,*)
(* so that the pool bounds the processes.                                  *)
(***************************************************************************)
EXTENDS ManagedShells, FiniteSetTheorems, SequenceTheorems, TLAPS

USE ShellAssumption

-----------------------------------------------------------------------------
(* The inductive invariants: what a job's position says about its process and *)
(* its lease, and what the attempt thread knows of the jobs it started.       *)

Early == {"free", "new", "waiting", "leased"}

JobPhase(j) ==
  /\ job[j].pc = "free" <=> job[j].shell = NoShell
  /\ job[j].pc # "free" => job[j].cmd \in Command
  /\ process[j] # "none" => job[j].pc \notin Early
  /\ process[j] = "live" => job[j].pc \notin {"reaping", "done"}
  /\ job[j].reaped => process[j] = "exited" \/ (job[j].pc = "done" /\ process[j] = "none")
  /\ claim[j].state = "waiting" <=> job[j].pc = "waiting"
  /\ claim[j].state = "held" <=> job[j].pc \in {"leased", "running", "leaving"}

JobsTyped ==
  /\ job \in [Caller -> Job]
  /\ process \in [Caller -> Process]
  /\ claim \in [Caller -> Claim]

JobsInv == JobsTyped /\ \A j \in Caller : JobPhase(j)

Waits4 == {"calling", "stopping", "cancelling", "draining"}

\* The scope has an outcome of the job's command, or will get one.
Known(j) == job[j].cmd \in Seen(job[j].shell) \/ j \in commands[job[j].shell]

OwnersTyped ==
  /\ handles \in [Shell -> SUBSET Caller]
  /\ commands \in [Shell -> SUBSET Caller]
  /\ saved \in [Shell -> SUBSET Saved]
  /\ shell \in [Shell -> Owner]

ShellPhase(s) ==
  /\ \A j \in handles[s] \cup commands[s] : job[j].shell = s
  /\ shell[s].pc \in Waits4 => shell[s].job \in handles[s]
  /\ shell[s].pc = "closed" => handles[s] = {}

JobTracked(j) ==
  LET owner == shell[job[j].shell] IN
  job[j].pc # "free" =>
    /\ ~Finished(j) => j \in handles[job[j].shell]
    /\ owner.pc \in {"open", "cancelling"} => Known(j)
    /\ owner.pc \in {"calling", "stopping"} => owner.job = j \/ Known(j)

OwnersInv ==
  /\ OwnersTyped
  /\ \A s \in Shell : ShellPhase(s)
  /\ \A j \in Caller : JobTracked(j)
  /\ NoReplay

-----------------------------------------------------------------------------
(* The executor threads, the processes and the pool.                          *)

\* What the pool operations do to a claim.
LEMMA EnterClaims ==
  ASSUME claim \in [Caller -> Claim], NEW j \in Caller, NEW cost \in Cost, Enter(j, cost)
  PROVE  /\ claim' \in [Caller -> Claim]
         /\ claim'[j].state \in {"held", "waiting"}
         /\ \A k \in Caller \ {j} : claim'[k] = claim[k]
<1>1. /\ [state |-> "held", cost |-> cost] \in Claim
      /\ [state |-> "waiting", cost |-> cost] \in Claim
  BY DEF Claim
<1>2. claim' = [claim EXCEPT ![j] = [state |-> "held", cost |-> cost]]
      \/ claim' = [claim EXCEPT ![j] = [state |-> "waiting", cost |-> cost]]
  BY DEF Enter, Take, Wait
<1> QED
  BY <1>1, <1>2

\* A waiter's claim turns into a lease.
LEMMA GrantClaims ==
  ASSUME claim \in [Caller -> Claim], NEW j \in Caller, Grant(j)
  PROVE  /\ claim' \in [Caller -> Claim]
         /\ claim'[j].state = "held"
         /\ \A k \in Caller \ {j} : claim'[k] = claim[k]
<1>1. [state |-> "held", cost |-> claim[j].cost] \in Claim
  BY DEF Claim
<1> QED
  BY <1>1 DEF Grant, Take

\* A waiter that gives up has no claim.
LEMMA LeaveClaims ==
  ASSUME claim \in [Caller -> Claim], NEW j \in Caller, Leave(j)
  PROVE  /\ claim' \in [Caller -> Claim]
         /\ claim'[j].state = "none"
         /\ \A k \in Caller \ {j} : claim'[k] = claim[k]
<1>1. [state |-> "none", cost |-> NoCost] \in Claim
  BY DEF Claim
<1> QED
  BY <1>1 DEF Leave

\* A released lease stays released.
LEMMA ReleaseClaims ==
  ASSUME claim \in [Caller -> Claim], NEW j \in Caller, Release(j)
  PROVE  /\ claim' \in [Caller -> Claim]
         /\ claim'[j].state = "released"
         /\ \A k \in Caller \ {j} : claim'[k] = claim[k]
<1>1. [claim[j] EXCEPT !.state = "released"] \in Claim
  BY DEF Claim
<1> QED
  BY <1>1 DEF Release, pool, Claim

\* A step of one job keeps what holds of the others.
Only(j) ==
  /\ JobsTyped'
  /\ \A k \in Caller \ {j} :
       job'[k] = job[k] /\ process'[k] = process[k] /\ claim'[k] = claim[k]

\* So it keeps the invariant if it keeps what holds of that job.
LEMMA OneJobMoves ==
  ASSUME JobsInv, NEW j \in Caller, Only(j), JobPhase(j)'
  PROVE  JobsInv'
<1>1. ASSUME NEW k \in Caller, k # j PROVE JobPhase(k)'
  BY <1>1 DEF JobsInv, JobPhase, Only
<1> QED
  BY <1>1 DEF JobsInv, Only

\* What the invariant says of one job.
LEMMA PhaseTyped ==
  ASSUME JobsInv, NEW j \in Caller
  PROVE  job[j] \in Job /\ process[j] \in Process /\ claim[j] \in Claim /\ JobPhase(j)
BY DEF JobsInv, JobsTyped

\* The executor of a job moves; its process or its claim may change with it.
LEMMA JobMoves ==
  ASSUME JobsInv, NEW j \in Caller, NEW pc \in JobPc, Moves(j, pc),
         process' \in [Caller -> Process], claim' \in [Caller -> Claim],
         \A k \in Caller \ {j} : process'[k] = process[k] /\ claim'[k] = claim[k]
  PROVE  Only(j) /\ job'[j] = [job[j] EXCEPT !.pc = pc]
BY ZenonT(40) DEF JobsInv, JobsTyped, Moves, Job, Only

\* Every step of _execute, and the end of a process, keeps the job's position in
\* line with its process and its claim.
LEMMA ExecutorKeepsJobs ==
  ASSUME JobsInv, NEW j \in Caller, Executor(j) \/ Exits(j)
  PROVE  JobsInv'
<1> USE PhaseTyped
<1>0. process \in [Caller -> Process] /\ claim \in [Caller -> Claim]
  BY DEF JobsInv, JobsTyped
<1>1. CASE TurnedAway(j)
  <2>1. Moves(j, "killing") /\ UNCHANGED <<process, claim>> /\ job[j].pc = "new"
    BY <1>1 DEF TurnedAway, pool
  <2>2. Only(j) /\ job'[j] = [job[j] EXCEPT !.pc = "killing"]
    BY <2>1, <1>0, JobMoves DEF JobPc
  <2>3. JobPhase(j)'
    BY <2>1, <2>2 DEF JobPhase, Early, Job
  <2> QED
    BY <2>2, <2>3, OneJobMoves
<1>2. CASE Asks(j)
  <2>1. job[j].cmd \in Command /\ CostOf[job[j].cmd] \in Cost /\ job[j].pc = "new" /\ UNCHANGED process
    BY <1>2 DEF Asks, JobPhase
  <2>2. /\ claim' \in [Caller -> Claim]
        /\ claim'[j].state \in {"held", "waiting"}
        /\ \A k \in Caller \ {j} : claim'[k] = claim[k]
    BY <1>0, <1>2, <2>1, EnterClaims DEF Asks
  <2>3. PICK pc \in {"leased", "waiting"} :
          Moves(j, pc) /\ (pc = "leased" <=> claim'[j].state = "held")
    BY <1>2 DEF Asks
  <2>4. Only(j) /\ job'[j] = [job[j] EXCEPT !.pc = pc]
    BY ZenonT(40), <1>0, <2>1, <2>2, <2>3, JobMoves DEF JobPc
  <2>5. JobPhase(j)'
    BY <2>1, <2>2, <2>3, <2>4 DEF JobPhase, Early, Job
  <2> QED
    BY <2>4, <2>5, OneJobMoves
<1>3. CASE Granted(j)
  <2>1. Moves(j, "leased") /\ UNCHANGED process /\ job[j].pc = "waiting" /\ Grant(j)
    BY <1>3 DEF Granted
  <2>2. Only(j) /\ job'[j] = [job[j] EXCEPT !.pc = "leased"]
    BY ZenonT(40), <2>1, <1>0, GrantClaims, JobMoves DEF JobPc
  <2>3. JobPhase(j)'
    BY <1>0, <2>1, <2>2, GrantClaims DEF JobPhase, Early, Job
  <2> QED
    BY <2>2, <2>3, OneJobMoves
<1>4. CASE Abandons(j)
  <2>1. Moves(j, "killing") /\ UNCHANGED process /\ job[j].pc = "waiting" /\ Leave(j)
    BY <1>4 DEF Abandons
  <2>2. Only(j) /\ job'[j] = [job[j] EXCEPT !.pc = "killing"]
    BY <2>1, <1>0, LeaveClaims, JobMoves DEF JobPc
  <2>3. JobPhase(j)'
    BY <1>0, <2>1, <2>2, LeaveClaims DEF JobPhase, Early, Job
  <2> QED
    BY <2>2, <2>3, OneJobMoves
<1>5. CASE Spawn(j)
  <2>1. UNCHANGED claim /\ job[j].pc = "leased"
    BY <1>5 DEF Spawn, pool
  <2>2. PICK pc \in {"running", "leaving"} :
          /\ Moves(j, pc)
          /\ process' \in {process, [process EXCEPT ![j] = "live"]}
    BY <1>5 DEF Spawn
  <2>3. /\ process' \in [Caller -> Process]
        /\ process'[j] \in {process[j], "live"}
        /\ \A k \in Caller \ {j} : process'[k] = process[k]
    BY <1>0, <2>2 DEF Process
  <2>4. Only(j) /\ job'[j] = [job[j] EXCEPT !.pc = pc]
    BY ZenonT(40), <2>1, <2>2, <2>3, <1>0, JobMoves DEF JobPc
  <2>5. JobPhase(j)'
    BY <2>1, <2>3, <2>4 DEF JobPhase, Early, Job
  <2> QED
    BY <2>4, <2>5, OneJobMoves
<1>6. CASE LoopEnds(j)
  <2>1. Moves(j, "leaving") /\ UNCHANGED claim /\ job[j].pc = "running"
    BY <1>6 DEF LoopEnds, pool
  <2>2. /\ process' \in [Caller -> Process]
        /\ process'[j] \in {process[j], Killed(process[j])}
        /\ \A k \in Caller \ {j} : process'[k] = process[k]
    BY <1>0, <1>6 DEF LoopEnds, Process, Killed
  <2>3. Only(j) /\ job'[j] = [job[j] EXCEPT !.pc = "leaving"]
    BY <2>1, <2>2, <1>0, JobMoves DEF JobPc
  <2>4. JobPhase(j)'
    BY <2>1, <2>2, <2>3 DEF JobPhase, Early, Job, Killed
  <2> QED
    BY <2>3, <2>4, OneJobMoves
<1>7. CASE GiveBack(j)
  <2>1. Moves(j, "killing") /\ UNCHANGED process /\ job[j].pc = "leaving" /\ Release(j)
    BY <1>7 DEF GiveBack
  <2>2. Only(j) /\ job'[j] = [job[j] EXCEPT !.pc = "killing"]
    BY <2>1, <1>0, ReleaseClaims, JobMoves DEF JobPc
  <2>3. JobPhase(j)'
    BY <1>0, <2>1, <2>2, ReleaseClaims DEF JobPhase, Early, Job
  <2> QED
    BY <2>2, <2>3, OneJobMoves
<1>8. CASE KillRest(j)
  <2>1. Moves(j, "reaping") /\ UNCHANGED claim /\ job[j].pc = "killing"
    BY <1>8 DEF KillRest, pool
  <2>2. /\ process' \in [Caller -> Process]
        /\ process'[j] = Killed(process[j])
        /\ \A k \in Caller \ {j} : process'[k] = process[k]
    BY <1>0, <1>8 DEF KillRest, Process, Killed
  <2>3. Only(j) /\ job'[j] = [job[j] EXCEPT !.pc = "reaping"]
    BY <2>1, <2>2, <1>0, JobMoves DEF JobPc
  <2>4. JobPhase(j)'
    BY <2>1, <2>2, <2>3 DEF JobPhase, Early, Job, Killed
  <2> QED
    BY <2>3, <2>4, OneJobMoves
<1>9. CASE Reap(j)
  <2>1. UNCHANGED <<claim, process>> /\ job[j].pc = "reaping"
    BY <1>9 DEF Reap, pool
  <2>2. PICK reaped \in BOOLEAN :
          /\ job' = [job EXCEPT ![j] = [@ EXCEPT !.pc = "done", !.reaped = reaped]]
          /\ reaped => job[j].reaped \/ process[j] # "dying"
    <3>1. CASE job[j].reaped \/ process[j] # "dying"
      BY <1>9, <3>1 DEF Reap
    <3>2. CASE ~(job[j].reaped \/ process[j] # "dying")
      BY <1>9, <3>2 DEF Reap
    <3> QED
      BY <3>1, <3>2
  <2>3. [job[j] EXCEPT !.pc = "done", !.reaped = reaped] \in Job
    BY DEF Job, JobPc
  <2>4. Only(j) /\ job'[j] = [job[j] EXCEPT !.pc = "done", !.reaped = reaped]
    BY <2>1, <2>2, <2>3 DEF Only, JobsInv, JobsTyped
  <2>5. JobPhase(j)'
    BY <2>1, <2>2, <2>4 DEF JobPhase, Early, Job, Process
  <2> QED
    BY <2>4, <2>5, OneJobMoves
<1>10. CASE Exits(j)
  <2>1. UNCHANGED <<claim, job>> /\ process[j] \in {"live", "dying"}
    BY <1>10 DEF Exits, pool
  <2>2. Only(j) /\ process'[j] = "exited"
    BY <1>10, <2>1 DEF Exits, Only, JobsInv, JobsTyped, Process
  <2>3. JobPhase(j)'
    BY <2>1, <2>2 DEF JobPhase, Early, Job
  <2> QED
    BY <2>2, <2>3, OneJobMoves
<1> QED
  BY <1>1, <1>2, <1>3, <1>4, <1>5, <1>6, <1>7, <1>8, <1>9, <1>10 DEF Executor

-----------------------------------------------------------------------------
(* What the attempt threads rely on: jobs only advance.                       *)

Advance ==
  \A k \in Caller :
    /\ job'[k].shell = job[k].shell /\ job'[k].cmd = job[k].cmd
    /\ job'[k].pc = "free" <=> job[k].pc = "free"
    /\ Finished(k) => Finished(k)'

\* An executor's move never takes a job back.
LEMMA MovesAdvance ==
  ASSUME JobsInv, NEW j \in Caller, NEW pc \in JobPc \ {"free"}, Moves(j, pc),
         job[j].pc \notin {"free", "done"}
  PROVE  Advance
<1>1. /\ job' \in [Caller -> Job]
      /\ job'[j] = [job[j] EXCEPT !.pc = pc]
      /\ \A k \in Caller \ {j} : job'[k] = job[k]
  BY DEF Moves, JobsInv, JobsTyped, Job
<1>2. job[j] \in Job
  BY DEF JobsInv, JobsTyped
<1> QED
  BY <1>1, <1>2 DEF Advance, Finished, Job

\* Nor does any step of an executor or a process.
LEMMA ExecutorAdvances ==
  ASSUME JobsInv, NEW j \in Caller, Executor(j) \/ Exits(j)
  PROVE  Advance /\ UNCHANGED owners
<1>1. CASE Reap(j)
  <2>1. UNCHANGED owners /\ job[j].pc = "reaping"
    BY <1>1 DEF Reap
  <2>2. \A k \in Caller \ {j} : job'[k] = job[k]
    BY <1>1 DEF Reap, JobsInv, JobsTyped
  <2>3. job'[j].pc = "done" /\ job'[j].shell = job[j].shell /\ job'[j].cmd = job[j].cmd
    BY <1>1 DEF Reap, JobsInv, JobsTyped, Job
  <2> QED
    BY <2>1, <2>2, <2>3 DEF Advance, Finished
<1>2. CASE Exits(j)
  BY <1>2 DEF Exits, Advance, Finished
<1>3. CASE \/ TurnedAway(j) \/ Asks(j) \/ Granted(j) \/ Abandons(j) \/ Spawn(j)
           \/ LoopEnds(j) \/ GiveBack(j) \/ KillRest(j)
  <2>1. UNCHANGED owners /\ job[j].pc \notin {"free", "done"}
    BY <1>3 DEF TurnedAway, Asks, Granted, Abandons, Spawn, LoopEnds, GiveBack, KillRest
  <2>2. \E pc \in JobPc \ {"free"} : Moves(j, pc)
    BY <1>3 DEF TurnedAway, Asks, Granted, Abandons, Spawn, LoopEnds, GiveBack, KillRest, JobPc
  <2> QED
    BY <2>1, <2>2, MovesAdvance
<1> QED
  BY <1>1, <1>2, <1>3 DEF Executor

\* Setting the flag and killing keeps every job where it is.
LEMMA StoppingKeepsJobs ==
  ASSUME JobsInv, NEW js \in SUBSET Caller, Stopping(js), UNCHANGED claim
  PROVE  JobsInv' /\ Advance
<1>1. ASSUME NEW k \in Caller
      PROVE  /\ job'[k] \in Job
             /\ job'[k].pc = job[k].pc /\ job'[k].shell = job[k].shell
             /\ job'[k].cmd = job[k].cmd /\ job'[k].reaped = job[k].reaped
  <2>1. job[k] \in Job
    BY PhaseTyped
  <2>2. job'[k] = IF k \in js THEN [job[k] EXCEPT !.cancelled = TRUE] ELSE job[k]
    BY DEF Stopping
  <2> QED
    BY <2>1, <2>2 DEF Job
<1>2. ASSUME NEW k \in Caller
      PROVE  process'[k] \in Process /\ process'[k] \in {process[k], Killed(process[k])}
  BY PhaseTyped DEF Stopping, Process, Killed
<1>3. JobsTyped'
  <2>1. job' = [k \in Caller |-> job'[k]] /\ process' = [k \in Caller |-> process'[k]]
    BY DEF Stopping
  <2> QED
    BY <1>1, <1>2, <2>1 DEF JobsInv, JobsTyped
<1>4. ASSUME NEW k \in Caller PROVE JobPhase(k)'
  BY <1>1, <1>2, PhaseTyped DEF JobPhase, Early, Killed
<1>5. Advance
  BY <1>1 DEF Advance, Finished
<1> QED
  BY <1>3, <1>4, <1>5 DEF JobsInv

-----------------------------------------------------------------------------
(* The attempt threads.                                                       *)

\* A job belongs to a shell or to nobody.
LEMMA OwnedOrFree ==
  ASSUME JobsInv, NEW j \in Caller
  PROVE  /\ job[j].shell \in Shell \cup {NoShell}
         /\ job[j].pc = "free" <=> job[j].shell \notin Shell
         /\ job[j].shell \in Shell => job[j].cmd \in Command
BY PhaseTyped DEF JobPhase, Job

\* Jobs that advance disturb no attempt thread.
LEMMA AdvanceKeepsOwners ==
  ASSUME JobsInv, OwnersInv, Advance, UNCHANGED owners
  PROVE  OwnersInv'
<1>1. UNCHANGED <<handles, commands, saved, shell>>
  BY DEF owners
<1>2. OwnersTyped'
  BY <1>1 DEF OwnersInv, OwnersTyped
<1>3. ASSUME NEW s \in Shell PROVE ShellPhase(s)'
  BY <1>1 DEF OwnersInv, OwnersTyped, ShellPhase, Advance
<1>4. ASSUME NEW j \in Caller PROVE JobTracked(j)'
  BY <1>1 DEF OwnersInv, JobTracked, Advance, Known, Seen
<1>5. NoReplay'
  BY DEF OwnersInv, NoReplay, Advance
<1> QED
  BY <1>2, <1>3, <1>4, <1>5 DEF OwnersInv

\* A step of one attempt thread keeps what holds of the others.
OnlyShell(s) ==
  /\ OwnersTyped'
  /\ \A t \in Shell \ {s} :
       /\ handles'[t] = handles[t] /\ commands'[t] = commands[t]
       /\ saved'[t] = saved[t] /\ shell'[t] = shell[t]

\* So it keeps the invariant if it keeps what holds of that thread and its jobs.
LEMMA OneShellMoves ==
  ASSUME JobsInv, OwnersInv, Advance, NEW s \in Shell, OnlyShell(s), ShellPhase(s)',
         \A j \in Caller : job[j].shell = s => JobTracked(j)'
  PROVE  OwnersInv'
<1>1. ASSUME NEW t \in Shell, t # s PROVE ShellPhase(t)'
  BY <1>1 DEF OwnersInv, OwnersTyped, ShellPhase, Advance, OnlyShell
<1>2. ASSUME NEW j \in Caller, job[j].shell # s PROVE JobTracked(j)'
  <2>1. CASE job[j].shell \in Shell
    BY <1>2, <2>1 DEF OwnersInv, JobTracked, Advance, Known, Seen, OnlyShell
  <2>2. CASE job[j].shell \notin Shell
    BY <2>2, OwnedOrFree DEF JobTracked, Advance
  <2> QED
    BY <2>1, <2>2
<1>3. NoReplay'
  BY DEF OwnersInv, NoReplay, Advance
<1> QED
  BY <1>1, <1>2, <1>3 DEF OwnersInv, OnlyShell

\* An outcome is recorded, and none is lost.
LEMMA OutcomeRecorded ==
  ASSUME OwnersTyped, NEW s \in Shell, NEW c \in Command, NEW what \in {"result", "error"},
         Outcome(s, c, what)
  PROVE  /\ saved' \in [Shell -> SUBSET Saved]
         /\ c \in Seen(s)' /\ Seen(s) \subseteq Seen(s)'
         /\ \A t \in Shell \ {s} : saved'[t] = saved[t]
<1>1. <<c, what>> \in Saved
  BY DEF Saved
<1>2. CASE c \in Seen(s)
  <2>1. saved' = saved
    BY <1>2 DEF Outcome, OwnersTyped
  <2> QED
    BY <1>2, <2>1 DEF Seen, OwnersTyped
<1>3. CASE c \notin Seen(s)
  <2>1. saved' = [saved EXCEPT ![s] = @ \cup {<<c, what>>}]
    BY <1>3 DEF Outcome
  <2>2. saved'[s] = saved[s] \cup {<<c, what>>} /\ saved' \in [Shell -> SUBSET Saved]
    BY <1>1, <2>1 DEF OwnersTyped
  <2>3. c \in Seen(s)'
    <3>1. <<c, what>> \in saved'[s] /\ <<c, what>>[1] = c
      BY <2>2
    <3> QED
      BY <3>1 DEF Seen
  <2>4. Seen(s) \subseteq Seen(s)'
    BY <2>2 DEF Seen
  <2> QED
    BY <2>1, <2>2, <2>3, <2>4 DEF OwnersTyped
<1> QED
  BY <1>2, <1>3

\* Collecting an outcome forgets one handle and leaves the command known.
LEMMA CollectRecords ==
  ASSUME OwnersTyped, NEW s \in Shell, NEW j \in Caller, job[j].cmd \in Command,
         NEW called \in BOOLEAN, Collect(s, j, called)
  PROVE  /\ handles' \in [Shell -> SUBSET Caller] /\ handles'[s] = handles[s] \ {j}
         /\ commands' \in [Shell -> SUBSET Caller] /\ commands'[s] = commands[s] \ {j}
         /\ saved' \in [Shell -> SUBSET Saved] /\ Seen(s) \subseteq Seen(s)'
         /\ called \/ j \in commands[s] => job[j].cmd \in Seen(s)'
         /\ \A t \in Shell \ {s} :
              handles'[t] = handles[t] /\ commands'[t] = commands[t] /\ saved'[t] = saved[t]
<1>1. /\ handles' \in [Shell -> SUBSET Caller] /\ handles'[s] = handles[s] \ {j}
      /\ commands' \in [Shell -> SUBSET Caller] /\ commands'[s] = commands[s] \ {j}
      /\ \A t \in Shell \ {s} : handles'[t] = handles[t] /\ commands'[t] = commands[t]
  BY DEF Collect, OwnersTyped
<1>2. CASE called \/ j \in commands[s]
  <2>1. Outcome(s, job[j].cmd, "result")
    BY <1>2 DEF Collect
  <2> QED
    BY <1>1, <2>1, OutcomeRecorded
<1>3. CASE ~(called \/ j \in commands[s])
  <2>1. UNCHANGED saved
    BY <1>3 DEF Collect
  <2> QED
    BY <1>1, <1>3, <2>1 DEF Seen, OwnersTyped
<1> QED
  BY <1>2, <1>3

\* A thread that goes elsewhere.
LEMMA ShellGoes ==
  ASSUME OwnersTyped, NEW s \in Shell, NEW pc \in OwnerPc
  PROVE  /\ Goto(s, pc) =>
              /\ shell' \in [Shell -> Owner] /\ shell'[s].pc = pc /\ shell'[s].job = shell[s].job
              /\ \A t \in Shell \ {s} : shell'[t] = shell[t]
         /\ \A j \in Caller \cup {NoJob} : WaitsFor(s, pc, j) =>
              /\ shell' \in [Shell -> Owner] /\ shell'[s].pc = pc /\ shell'[s].job = j
              /\ \A t \in Shell \ {s} : shell'[t] = shell[t]
BY DEF OwnersTyped, Goto, WaitsFor, Owner

\* Starting a job: it is registered, and only its owner's thread notices.
LEMMA NewJobStarts ==
  ASSUME JobsInv, OwnersInv, NEW s \in Shell, NEW j \in Caller, NEW c \in Command,
         NewJob(s, j, c)
  PROVE  /\ JobsInv'
         /\ job[j].pc = "free" /\ job'[j].pc = "new" /\ job'[j].shell = s /\ job'[j].cmd = c
         /\ \A k \in Caller \ {j} : job'[k] = job[k]
         /\ handles' \in [Shell -> SUBSET Caller] /\ handles'[s] = handles[s] \cup {j}
         /\ \A t \in Shell \ {s} : handles'[t] = handles[t]
<1>1. job[j].pc = "free" /\ UNCHANGED <<process, claim>>
  BY DEF NewJob, pool
<1> DEFINE new == [NotAJob EXCEPT !.pc = "new", !.shell = s, !.cmd = c]
<1>2. new \in Job /\ new.pc = "new" /\ new.shell = s /\ new.cmd = c /\ new.reaped = FALSE
  BY DEF NotAJob, Job, JobPc
<1>3. job' = [job EXCEPT ![j] = new]
  BY DEF NewJob
<1> HIDE DEF new
<1>4. Only(j) /\ job'[j] = new
  BY <1>1, <1>2, <1>3 DEF Only, JobsInv, JobsTyped
<1>5. JobPhase(j)'
  BY <1>1, <1>2, <1>4, PhaseTyped DEF JobPhase, Early
<1>6. JobsInv'
  BY <1>4, <1>5, OneJobMoves
<1>7. /\ handles' \in [Shell -> SUBSET Caller] /\ handles'[s] = handles[s] \cup {j}
      /\ \A t \in Shell \ {s} : handles'[t] = handles[t]
  BY DEF NewJob, OwnersInv, OwnersTyped
<1> QED
  BY <1>1, <1>2, <1>4, <1>6, <1>7 DEF Only

\* A command that is no duplicate belongs to no job of the scope.
LEMMA FreshCommand ==
  ASSUME JobsInv, OwnersInv, NEW s \in Shell, NEW c \in Command, shell[s].pc = "open",
         ~Duplicate(s, c), NEW k \in Caller, job[k].shell = s
  PROVE  job[k].cmd # c
BY OwnedOrFree DEF OwnersInv, JobTracked, Known, Duplicate

\* What a new job needs of its owner's thread.
LEMMA NewJobKeepsOwners ==
  ASSUME JobsInv, OwnersInv, NEW s \in Shell, NEW j \in Caller, NEW c \in Command,
         NewJob(s, j, c), shell[s].pc = "open", ~Duplicate(s, c), UNCHANGED saved,
         OnlyShell(s), commands[s] \subseteq commands'[s], commands'[s] \subseteq commands[s] \cup {j},
         \/ shell'[s].pc = "open" /\ j \in commands'[s]
         \/ shell'[s].pc = "calling" /\ shell'[s].job = j
  PROVE  OwnersInv'
<1>1. ASSUME NEW t \in Shell PROVE ShellPhase(t)'
  <2>1. \A k \in handles[t] \cup commands[t] : k \in Caller /\ job[k].shell = t /\ k # j
    BY OwnedOrFree, NewJobStarts DEF OwnersInv, OwnersTyped, ShellPhase
  <2>2. CASE t # s
    BY <2>1, <2>2, NewJobStarts DEF OwnersInv, ShellPhase, OnlyShell
  <2>3. CASE t = s
    BY <2>1, <2>3, NewJobStarts DEF ShellPhase, Waits4
  <2> QED
    BY <2>2, <2>3
<1>2. ASSUME NEW k \in Caller PROVE JobTracked(k)'
  <2>1. CASE k = j
    BY <2>1, NewJobStarts DEF JobTracked, Known
  <2>2. CASE k # j /\ job[k].shell = s
    <3>1. /\ job'[k] = job[k]
          /\ ~Finished(k) => k \in handles'[s]
          /\ Known(k)
      BY <2>2, OwnedOrFree, NewJobStarts DEF OwnersInv, JobTracked
    <3>2. Known(k)'
      BY <2>2, <3>1 DEF Known, Seen
    <3> QED
      BY <2>2, <3>1, <3>2 DEF JobTracked, Finished
  <2>3. CASE k # j /\ job[k].shell # s
    <3>1. job'[k] = job[k]
      BY <2>3, NewJobStarts
    <3>2. CASE job[k].shell \in Shell
      BY <2>3, <3>1, <3>2 DEF OwnersInv, JobTracked, Known, Seen, OnlyShell, Finished
    <3>3. CASE job[k].shell \notin Shell
      BY <3>1, <3>3, OwnedOrFree DEF JobTracked
    <3> QED
      BY <3>2, <3>3
  <2> QED
    BY <2>1, <2>2, <2>3
<1>3. NoReplay'
  <2>1. \A k \in Caller \ {j} : job[k].shell = s => job[k].cmd # c
    BY FreshCommand
  <2> QED
    BY <2>1, NewJobStarts DEF OwnersInv, NoReplay
<1> QED
  BY <1>1, <1>2, <1>3 DEF OwnersInv, OnlyShell

\* run_bash keeps both invariants.
LEMMA CallKeeps ==
  ASSUME JobsInv, OwnersInv, NEW s \in Shell, NEW c \in Command, Call(s, c)
  PROVE  JobsInv' /\ OwnersInv'
<1>1. shell[s].pc = "open" /\ ~Duplicate(s, c) /\ UNCHANGED commands
  BY DEF Call
<1>2. CASE \E j \in Caller : NewJob(s, j, c) /\ WaitsFor(s, "calling", j) /\ UNCHANGED saved
  <2>1. PICK j \in Caller : NewJob(s, j, c) /\ WaitsFor(s, "calling", j) /\ UNCHANGED saved
    BY <1>2
  <2>2. /\ shell' \in [Shell -> Owner] /\ shell'[s].pc = "calling" /\ shell'[s].job = j
        /\ \A t \in Shell \ {s} : shell'[t] = shell[t]
    BY <2>1, ShellGoes DEF OwnersInv, OwnerPc
  <2>3. OnlyShell(s)
    BY <1>1, <2>1, <2>2, NewJobStarts DEF OnlyShell, OwnersTyped, OwnersInv
  <2> QED
    BY <1>1, <2>1, <2>2, <2>3, NewJobStarts, NewJobKeepsOwners
<1>3. CASE Outcome(s, c, "error") /\ UNCHANGED <<pool, job, process, handles, shell>>
  <2>1. JobsInv' /\ Advance
    BY <1>3 DEF JobsInv, JobsTyped, JobPhase, Advance, Finished, pool
  <2>2. OnlyShell(s) /\ Seen(s) \subseteq Seen(s)'
    BY <1>1, <1>3, OutcomeRecorded DEF OnlyShell, OwnersTyped, OwnersInv
  <2>3. ShellPhase(s)'
    BY <1>1, <1>3 DEF ShellPhase, OwnersInv
  <2>4. ASSUME NEW k \in Caller, job[k].shell = s PROVE JobTracked(k)'
    BY <1>1, <1>3, <2>2, <2>4 DEF OwnersInv, JobTracked, Finished, Known
  <2> QED
    BY <2>1, <2>2, <2>3, <2>4, OneShellMoves
<1> QED
  BY <1>2, <1>3 DEF Call

\* start_bash keeps both invariants.
LEMMA StartKeeps ==
  ASSUME JobsInv, OwnersInv, NEW s \in Shell, NEW c \in Command, Start(s, c)
  PROVE  JobsInv' /\ OwnersInv'
<1>1. PICK j \in Caller : NewJob(s, j, c) /\ commands' = [commands EXCEPT ![s] = @ \cup {j}]
  BY DEF Start
<1>2. shell[s].pc = "open" /\ ~Duplicate(s, c) /\ UNCHANGED <<saved, shell>>
  BY DEF Start
<1>3. commands' \in [Shell -> SUBSET Caller] /\ commands'[s] = commands[s] \cup {j}
  BY <1>1 DEF OwnersInv, OwnersTyped
<1>4. OnlyShell(s)
  BY <1>1, <1>2, <1>3, NewJobStarts DEF OnlyShell, OwnersTyped, OwnersInv
<1> QED
  BY <1>1, <1>2, <1>3, <1>4, NewJobStarts, NewJobKeepsOwners

\* poll_bash keeps both invariants.
LEMMA PollKeeps ==
  ASSUME JobsInv, OwnersInv, NEW s \in Shell, NEW j \in Caller, Poll(s, j)
  PROVE  JobsInv' /\ OwnersInv'
<1>1. /\ shell[s].pc = "open" /\ j \in handles[s] /\ job[j].pc = "done"
      /\ UNCHANGED <<pool, job, process>>
  BY DEF Poll
<1>2. JobsInv' /\ Advance
  BY <1>1 DEF JobsInv, JobsTyped, JobPhase, Advance, Finished, pool
<1>3. job[j].shell = s /\ job[j].cmd \in Command
  BY <1>1, OwnedOrFree DEF OwnersInv, ShellPhase
<1>4. CASE job[j].reaped
  <2>1. Collect(s, j, FALSE) /\ UNCHANGED shell
    BY <1>4 DEF Poll
  <2>2. /\ handles' \in [Shell -> SUBSET Caller] /\ handles'[s] = handles[s] \ {j}
        /\ commands' \in [Shell -> SUBSET Caller] /\ commands'[s] = commands[s] \ {j}
        /\ saved' \in [Shell -> SUBSET Saved] /\ Seen(s) \subseteq Seen(s)'
        /\ j \in commands[s] => job[j].cmd \in Seen(s)'
        /\ \A t \in Shell \ {s} :
             handles'[t] = handles[t] /\ commands'[t] = commands[t] /\ saved'[t] = saved[t]
    BY <1>3, <2>1, CollectRecords DEF OwnersInv
  <2>3. OnlyShell(s)
    BY <2>1, <2>2 DEF OnlyShell, OwnersTyped, OwnersInv
  <2>4. ShellPhase(s)'
    BY <1>1, <2>1, <2>2 DEF ShellPhase, OwnersInv, Waits4
  <2>5. ASSUME NEW k \in Caller, job[k].shell = s PROVE JobTracked(k)'
    <3>1. Known(k) /\ (~Finished(k) => k \in handles[s])
      BY <1>1, <2>5, OwnedOrFree DEF OwnersInv, JobTracked
    <3>2. Known(k)'
      BY <1>1, <2>2, <2>5, <3>1 DEF Known
    <3>3. Finished(j)
      BY <1>1, <1>4 DEF Finished
    <3>4. ~Finished(k) => k \in handles'[s]
      BY <2>2, <3>1, <3>3
    <3> QED
      BY <1>1, <2>1, <2>5, <3>2, <3>4 DEF JobTracked, Finished
  <2> QED
    BY <1>2, <2>3, <2>4, <2>5, OneShellMoves
<1>5. CASE ~job[j].reaped
  <2>1. Goto(s, "closing") /\ UNCHANGED <<handles, commands, saved>>
    BY <1>5 DEF Poll
  <2>2. OnlyShell(s) /\ shell'[s].pc = "closing"
    BY <2>1, ShellGoes DEF OnlyShell, OwnersTyped, OwnersInv, OwnerPc
  <2>3. ShellPhase(s)'
    BY <1>1, <2>1, <2>2 DEF ShellPhase, OwnersInv, Waits4
  <2>4. ASSUME NEW k \in Caller, job[k].shell = s PROVE JobTracked(k)'
    BY <1>1, <2>1, <2>2, <2>4 DEF OwnersInv, JobTracked, Finished
  <2> QED
    BY <1>2, <2>2, <2>3, <2>4, OneShellMoves
<1> QED
  BY <1>4, <1>5

\* So does a poll that is refused for its wait, though the handle stays.
LEMMA PollTooLongKeeps ==
  ASSUME JobsInv, OwnersInv, NEW s \in Shell, NEW j \in Caller, PollTooLong(s, j)
  PROVE  JobsInv' /\ OwnersInv'
<1>1. /\ shell[s].pc = "open" /\ j \in commands[s]
      /\ commands' = [commands EXCEPT ![s] = @ \ {j}]
      /\ Outcome(s, job[j].cmd, "error")
      /\ UNCHANGED <<pool, job, process, handles, shell>>
  BY DEF PollTooLong
<1>2. JobsInv' /\ Advance
  BY <1>1 DEF JobsInv, JobsTyped, JobPhase, Advance, Finished, pool
<1>3. job[j].shell = s /\ job[j].cmd \in Command
  BY <1>1, OwnedOrFree DEF OwnersInv, ShellPhase
<1>4. /\ OnlyShell(s) /\ Seen(s) \subseteq Seen(s)' /\ job[j].cmd \in Seen(s)'
      /\ commands'[s] = commands[s] \ {j}
  BY <1>1, <1>3, OutcomeRecorded DEF OnlyShell, OwnersTyped, OwnersInv
<1>5. ShellPhase(s)'
  BY <1>1, <1>4 DEF ShellPhase, OwnersInv
<1>6. ASSUME NEW k \in Caller, job[k].shell = s PROVE JobTracked(k)'
  BY <1>1, <1>3, <1>4, <1>6 DEF OwnersInv, JobTracked, Finished, Known
<1> QED
  BY <1>2, <1>4, <1>5, <1>6, OneShellMoves

\* Steps that stop jobs and move the thread, and leave the tables alone.
LEMMA QuietKeeps ==
  ASSUME JobsInv, OwnersInv, NEW s \in Shell, Advance, UNCHANGED <<handles, commands, saved>>,
         shell' \in [Shell -> Owner], \A t \in Shell \ {s} : shell'[t] = shell[t],
         shell'[s].pc \in Waits4 => shell'[s].job \in handles[s],
         shell'[s].pc = "closed" => handles[s] = {},
         \/ shell'[s].pc \notin {"open", "cancelling", "calling", "stopping"}
         \/ shell'[s].pc \in {"open", "cancelling"} /\ shell[s].pc \in {"open", "cancelling"}
         \/ /\ shell'[s].pc \in {"calling", "stopping"} /\ shell[s].pc \in {"calling", "stopping"}
            /\ shell'[s].job = shell[s].job
  PROVE  OwnersInv'
<1>1. OnlyShell(s)
  BY DEF OnlyShell, OwnersTyped, OwnersInv
<1>2. ShellPhase(s)'
  BY DEF ShellPhase, OwnersInv, OwnersTyped, Advance
<1>3. ASSUME NEW k \in Caller, job[k].shell = s PROVE JobTracked(k)'
  <2>1. Known(k) => Known(k)'
    BY <1>3 DEF Known, Seen, Advance
  <2> QED
    BY <1>3, <2>1 DEF OwnersInv, JobTracked, Advance
<1> QED
  BY <1>1, <1>2, <1>3, OneShellMoves

\* A wait that returns collects the job it waited for.
LEMMA ReturnsKeeps ==
  ASSUME JobsInv, OwnersInv, NEW s \in Shell, Returns(s)
  PROVE  JobsInv' /\ OwnersInv'
<1> DEFINE j == shell[s].job
           pc == shell[s].pc
           called == pc \in {"calling", "stopping"}
<1>1. /\ pc \in Waits4 /\ Finished(j) /\ j \in handles[s]
      /\ UNCHANGED <<pool, job, process>>
      /\ Collect(s, j, called) /\ WaitsFor(s, AfterWait(s), NoJob)
  BY DEF Returns, Waits4, OwnersInv, ShellPhase
<1>2. JobsInv' /\ Advance
  BY <1>1 DEF JobsInv, JobsTyped, JobPhase, Advance, Finished, pool
<1>3. j \in Caller /\ job[j].shell = s /\ job[j].cmd \in Command
  BY <1>1, OwnedOrFree DEF OwnersInv, OwnersTyped, ShellPhase
<1>4. /\ handles' \in [Shell -> SUBSET Caller] /\ handles'[s] = handles[s] \ {j}
      /\ commands' \in [Shell -> SUBSET Caller] /\ commands'[s] = commands[s] \ {j}
      /\ saved' \in [Shell -> SUBSET Saved] /\ Seen(s) \subseteq Seen(s)'
      /\ called \/ j \in commands[s] => job[j].cmd \in Seen(s)'
      /\ \A t \in Shell \ {s} :
           handles'[t] = handles[t] /\ commands'[t] = commands[t] /\ saved'[t] = saved[t]
  <2>1. called \in BOOLEAN
    OBVIOUS
  <2> HIDE DEF called, j
  <2> QED
    BY <1>1, <1>3, <2>1, CollectRecords DEF OwnersInv
<1>5. /\ shell' \in [Shell -> Owner] /\ shell'[s].pc = AfterWait(s)
      /\ AfterWait(s) \in {"open", "closing"} /\ (AfterWait(s) = "open" => pc # "draining")
      /\ \A t \in Shell \ {s} : shell'[t] = shell[t]
  <2>1. AfterWait(s) \in OwnerPc /\ AfterWait(s) \in {"open", "closing"}
        /\ (AfterWait(s) = "open" => pc # "draining")
    BY DEF AfterWait, OwnerPc
  <2> QED
    BY <1>1, <2>1, ShellGoes DEF OwnersInv
<1>6. OnlyShell(s)
  BY <1>4, <1>5 DEF OnlyShell, OwnersTyped, OwnersInv
<1>7. ShellPhase(s)'
  BY <1>1, <1>4, <1>5 DEF ShellPhase, OwnersInv, Waits4
<1>8. ASSUME NEW k \in Caller, job[k].shell = s PROVE JobTracked(k)'
  <2>1. ~Finished(k) => k \in handles'[s]
    BY <1>1, <1>4, <1>8, OwnedOrFree DEF OwnersInv, JobTracked
  <2>2. shell'[s].pc = "open" => Known(k)'
    <3>1. CASE called
      <4>1. k = j \/ Known(k)
        BY <1>8, <3>1, OwnedOrFree DEF OwnersInv, JobTracked
      <4> QED
        BY <1>1, <1>4, <1>8, <3>1, <4>1 DEF Known
    <3>2. CASE pc = "cancelling"
      <4>1. Known(k)
        BY <1>8, <3>2, OwnedOrFree DEF OwnersInv, JobTracked
      <4> QED
        BY <1>1, <1>4, <1>8, <4>1 DEF Known
    <3> QED
      BY <1>1, <1>5, <3>1, <3>2 DEF Waits4
  <2> QED
    BY <1>1, <1>5, <1>8, <2>1, <2>2 DEF JobTracked, Finished
<1> QED
  BY <1>2, <1>6, <1>7, <1>8, OneShellMoves

\* A wait that raises leaves every handle where it is.
LEMMA RaisesKeeps ==
  ASSUME JobsInv, OwnersInv, NEW s \in Shell, Raises(s)
  PROVE  JobsInv' /\ OwnersInv'
<1>1. UNCHANGED <<pool, handles, commands, saved>> /\ handles[s] \in SUBSET Caller
  BY DEF Raises, OwnersInv, OwnersTyped
<1>2. CASE shell[s].pc = "draining"
  <2>1. /\ Stopping(handles[s])
        /\ shell' = [shell EXCEPT ![s] = [pc |-> "shutting", job |-> NoJob, raised |-> TRUE]]
    BY <1>2 DEF Raises
  <2>2. [pc |-> "shutting", job |-> NoJob, raised |-> TRUE] \in Owner
    BY DEF Owner, OwnerPc
  <2>3. /\ shell' \in [Shell -> Owner] /\ shell'[s].pc = "shutting"
        /\ \A t \in Shell \ {s} : shell'[t] = shell[t]
    BY <2>1, <2>2 DEF OwnersInv, OwnersTyped
  <2>4. JobsInv' /\ Advance
    BY <1>1, <2>1, StoppingKeepsJobs DEF pool
  <2> QED
    BY <1>1, <2>3, <2>4, QuietKeeps DEF Waits4
<1>3. CASE shell[s].pc # "draining"
  <2>1. WaitsFor(s, "closing", NoJob) /\ UNCHANGED <<job, process>>
    BY <1>3 DEF Raises
  <2>2. JobsInv' /\ Advance
    BY <1>1, <2>1 DEF JobsInv, JobsTyped, JobPhase, Advance, Finished, pool
  <2>3. /\ shell' \in [Shell -> Owner] /\ shell'[s].pc = "closing"
        /\ \A t \in Shell \ {s} : shell'[t] = shell[t]
    BY <2>1, ShellGoes DEF OwnersInv, OwnerPc
  <2> QED
    BY <1>1, <2>2, <2>3, QuietKeeps DEF Waits4
<1> QED
  BY <1>2, <1>3

\* A cancellation, an overdue call and the start of a close.
LEMMA StopsKeep ==
  ASSUME JobsInv, OwnersInv, NEW s \in Shell,
         \/ \E j \in Caller : Cancel(s, j)
         \/ CallOverdue(s) \/ EndAttempt(s) \/ Shut(s)
  PROVE  JobsInv' /\ OwnersInv'
<1>1. CASE \E j \in Caller : Cancel(s, j)
  <2>1. PICK j \in Caller : Cancel(s, j)
    BY <1>1
  <2>2. JobsInv' /\ Advance
    BY <2>1, StoppingKeepsJobs DEF Cancel, pool
  <2>3. /\ shell' \in [Shell -> Owner] /\ shell'[s].pc = "cancelling" /\ shell'[s].job = j
        /\ \A t \in Shell \ {s} : shell'[t] = shell[t]
    BY <2>1, ShellGoes DEF Cancel, OwnersInv, OwnerPc
  <2> QED
    BY <2>1, <2>2, <2>3, QuietKeeps DEF Cancel
<1>2. CASE CallOverdue(s)
  <2>1. shell[s].pc = "calling" /\ shell[s].job \in handles[s] /\ shell[s].job \in Caller
    BY <1>2 DEF CallOverdue, OwnersInv, OwnersTyped, ShellPhase, Waits4
  <2>2. JobsInv' /\ Advance
    BY <1>2, <2>1, StoppingKeepsJobs DEF CallOverdue, pool
  <2>3. /\ shell' \in [Shell -> Owner] /\ shell'[s].pc = "stopping" /\ shell'[s].job = shell[s].job
        /\ \A t \in Shell \ {s} : shell'[t] = shell[t]
    BY <1>2, ShellGoes DEF CallOverdue, OwnersInv, OwnerPc
  <2> QED
    BY <1>2, <2>1, <2>2, <2>3, QuietKeeps DEF CallOverdue
<1>3. CASE EndAttempt(s)
  <2>1. JobsInv' /\ Advance
    BY <1>3 DEF EndAttempt, JobsInv, JobsTyped, JobPhase, Advance, Finished, pool
  <2>2. /\ shell' \in [Shell -> Owner] /\ shell'[s].pc = "closing"
        /\ \A t \in Shell \ {s} : shell'[t] = shell[t]
    BY ZenonT(40), <1>3 DEF EndAttempt, OwnersInv, OwnersTyped, Owner, OwnerPc
  <2> QED
    BY <1>3, <2>1, <2>2, QuietKeeps DEF EndAttempt, Waits4
<1>4. CASE Shut(s)
  <2>1. handles[s] \in SUBSET Caller
    BY DEF OwnersInv, OwnersTyped
  <2>2. JobsInv' /\ Advance
    BY <1>4, <2>1, StoppingKeepsJobs DEF Shut, pool
  <2>3. /\ shell' \in [Shell -> Owner] /\ shell'[s].pc = "shutting"
        /\ \A t \in Shell \ {s} : shell'[t] = shell[t]
    BY <1>4, ShellGoes DEF Shut, OwnersInv, OwnerPc
  <2> QED
    BY <1>4, <2>2, <2>3, QuietKeeps DEF Shut, Waits4
<1> QED
  BY <1>1, <1>2, <1>3, <1>4

\* close keeps a handle until its job is finished, and each pending command known.
LEMMA DrainKeeps ==
  ASSUME JobsInv, OwnersInv, NEW s \in Shell, NEW j \in Caller, Drain(s, j)
  PROVE  JobsInv' /\ OwnersInv'
<1>1. shell[s].pc = "closing" /\ j \in commands[s] /\ UNCHANGED <<pool, handles>>
  BY DEF Drain
<1>2. CASE j \in handles[s]
  <2>1. Stopping({j}) /\ WaitsFor(s, "draining", j) /\ UNCHANGED <<commands, saved>>
    BY <1>2 DEF Drain
  <2>2. JobsInv' /\ Advance
    BY <1>1, <2>1, StoppingKeepsJobs DEF pool
  <2>3. /\ shell' \in [Shell -> Owner] /\ shell'[s].pc = "draining" /\ shell'[s].job = j
        /\ \A t \in Shell \ {s} : shell'[t] = shell[t]
    BY <2>1, ShellGoes DEF OwnersInv, OwnerPc
  <2> QED
    BY <1>1, <1>2, <2>1, <2>2, <2>3, QuietKeeps
<1>3. CASE j \notin handles[s]
  <2>1. /\ commands' = [commands EXCEPT ![s] = @ \ {j}]
        /\ Outcome(s, job[j].cmd, "error")
        /\ UNCHANGED <<job, process, shell>>
    BY <1>3 DEF Drain
  <2>2. JobsInv' /\ Advance
    BY <1>1, <2>1 DEF JobsInv, JobsTyped, JobPhase, Advance, Finished, pool
  <2>3. job[j].shell = s /\ job[j].cmd \in Command
    BY <1>1, OwnedOrFree DEF OwnersInv, ShellPhase
  <2>4. OnlyShell(s)
    BY <1>1, <2>1, <2>3, OutcomeRecorded DEF OnlyShell, OwnersTyped, OwnersInv
  <2>5. ShellPhase(s)'
    BY <1>1, <2>1 DEF ShellPhase, OwnersInv, OwnersTyped, Waits4
  <2>6. ASSUME NEW k \in Caller, job[k].shell = s PROVE JobTracked(k)'
    BY <1>1, <2>1, <2>6 DEF OwnersInv, JobTracked, Finished
  <2> QED
    BY <2>2, <2>4, <2>5, <2>6, OneShellMoves
<1> QED
  BY <1>2, <1>3

\* close reaps, gives up waiting, and keeps what is not finished.
LEMMA CloseKeeps ==
  ASSUME JobsInv, OwnersInv, NEW s \in Shell,
         CloseReturns(s) \/ \E j \in Caller : ShutReaps(s, j)
  PROVE  JobsInv' /\ OwnersInv'
<1>1. ASSUME NEW j \in Caller, ShutReaps(s, j) PROVE JobsInv' /\ OwnersInv'
  <2>1. UNCHANGED <<claim, process, owners>> /\ process[j] = "exited"
    BY <1>1 DEF ShutReaps, pool
  <2>2. /\ Only(j)
        /\ job'[j] = [job[j] EXCEPT !.reaped = TRUE]
    <3>1. [job[j] EXCEPT !.reaped = TRUE] \in Job
      BY PhaseTyped DEF Job
    <3>2. job' = [job EXCEPT ![j] = [@ EXCEPT !.reaped = TRUE]]
      BY <1>1 DEF ShutReaps
    <3> QED
      BY <3>1, <3>2, <2>1 DEF Only, JobsInv, JobsTyped
  <2>3. JobPhase(j)'
    BY <2>1, <2>2, PhaseTyped DEF JobPhase, Early, Job
  <2>4. Advance
    BY <2>2, PhaseTyped DEF Advance, Only, Finished, Job
  <2> QED
    BY <2>1, <2>2, <2>3, <2>4, OneJobMoves, AdvanceKeepsOwners
<1>2. ASSUME CloseReturns(s) PROVE JobsInv' /\ OwnersInv'
  <2> DEFINE unfinished == {j \in handles[s] : ~Finished(j)}
             pc == IF unfinished = {} /\ ~shell[s].raised THEN "closed" ELSE "failed"
  <2>1. /\ handles' = [handles EXCEPT ![s] = unfinished] /\ Goto(s, pc)
        /\ UNCHANGED <<pool, job, process, commands, saved>>
    BY <1>2 DEF CloseReturns
  <2>2. handles' \in [Shell -> SUBSET Caller] /\ handles'[s] = unfinished
    BY <2>1 DEF OwnersInv, OwnersTyped
  <2>3. /\ shell' \in [Shell -> Owner] /\ shell'[s].pc = pc
        /\ \A t \in Shell \ {s} : shell'[t] = shell[t]
    <3>1. pc \in OwnerPc
      BY DEF OwnerPc
    <3> HIDE DEF pc
    <3> QED
      BY <2>1, <3>1, ShellGoes DEF OwnersInv
  <2>4. JobsInv' /\ Advance
    BY <2>1 DEF JobsInv, JobsTyped, JobPhase, Advance, Finished, pool
  <2>5. OnlyShell(s)
    BY <2>1, <2>2, <2>3 DEF OnlyShell, OwnersTyped, OwnersInv
  <2>6. ShellPhase(s)'
    BY <2>1, <2>2, <2>3 DEF ShellPhase, OwnersInv, OwnersTyped, Waits4
  <2>7. ASSUME NEW k \in Caller, job[k].shell = s PROVE JobTracked(k)'
    BY <2>1, <2>2, <2>3, <2>7 DEF OwnersInv, JobTracked, Finished
  <2> QED
    BY <2>4, <2>5, <2>6, <2>7, OneShellMoves
<1> QED
  BY <1>1, <1>2

-----------------------------------------------------------------------------
(* The invariants hold.                                                       *)

\* Both invariants hold for ever.
LEMMA Inductive == Spec => [](JobsInv /\ OwnersInv)
<1>1. Init => JobsInv /\ OwnersInv
  <2> SUFFICES ASSUME Init PROVE JobsInv /\ OwnersInv
    OBVIOUS
  <2>1. \A j \in Caller : /\ job[j] = NotAJob /\ process[j] = "none"
                          /\ claim[j] = [state |-> "none", cost |-> NoCost]
    BY DEF Init, PoolInit
  <2>2. NotAJob \in Job /\ "none" \in Process /\ [state |-> "none", cost |-> NoCost] \in Claim
    BY DEF NotAJob, Job, JobPc, Process, Claim
  <2>3. JobsTyped
    BY <2>1, <2>2 DEF JobsTyped, Init, PoolInit
  <2>4. ASSUME NEW j \in Caller PROVE JobPhase(j) /\ JobTracked(j) /\ job[j].pc = "free"
    BY <2>1 DEF JobPhase, JobTracked, NotAJob, Early
  <2>5. OwnersTyped
    BY DEF Init, OwnersTyped, Owner, OwnerPc
  <2>6. ASSUME NEW s \in Shell PROVE ShellPhase(s)
    BY DEF Init, ShellPhase, Waits4
  <2> QED
    BY <2>3, <2>4, <2>5, <2>6 DEF JobsInv, OwnersInv, NoReplay
<1>2. JobsInv /\ OwnersInv /\ [Next]_vars => JobsInv' /\ OwnersInv'
  <2> SUFFICES ASSUME JobsInv, OwnersInv, [Next]_vars PROVE JobsInv' /\ OwnersInv'
    OBVIOUS
  <2>1. ASSUME NEW j \in Caller, Executor(j) \/ Exits(j) PROVE JobsInv' /\ OwnersInv'
    BY <2>1, ExecutorKeepsJobs, ExecutorAdvances, AdvanceKeepsOwners
  <2>2. ASSUME NEW s \in Shell, ToolCall(s) PROVE JobsInv' /\ OwnersInv'
    BY <2>2, CallKeeps, StartKeeps, PollKeeps, PollTooLongKeeps, StopsKeep DEF ToolCall
  <2>3. ASSUME NEW s \in Shell, Waits(s) \/ EndAttempt(s) PROVE JobsInv' /\ OwnersInv'
    BY <2>3, StopsKeep, ReturnsKeeps, RaisesKeeps DEF Waits
  <2>4. ASSUME NEW s \in Shell, Closes(s) PROVE JobsInv' /\ OwnersInv'
    BY <2>4, StopsKeep, DrainKeeps, CloseKeeps DEF Closes
  <2>5. CASE UNCHANGED vars
    <3>1. UNCHANGED <<claim, job, process, owners>>
      BY <2>5 DEF vars, pool
    <3>2. JobsInv' /\ Advance
      BY <3>1 DEF JobsInv, JobsTyped, JobPhase, Advance, Finished
    <3> QED
      BY <3>1, <3>2, AdvanceKeepsOwners
  <2> QED
    BY <2>1, <2>2, <2>3, <2>4, <2>5 DEF Next
<1> QED
  BY <1>1, <1>2, PTL DEF Spec

-----------------------------------------------------------------------------
(* The theorems.                                                              *)

\* A job that may still have a thread or a process stays registered with its
\* shell, whatever is polled, cancelled, refused or given up.
THEOREM NoJobForgottenTheorem == Spec => []NoJobForgotten
<1>1. JobsInv /\ OwnersInv => NoJobForgotten
  BY DEF OwnersInv, JobTracked, NoJobForgotten
<1> QED
  BY <1>1, Inductive, PTL

\* No command gets a second job in its scope.
THEOREM NoReplayTheorem == Spec => []NoReplay
<1>1. OwnersInv => NoReplay
  BY DEF OwnersInv
<1> QED
  BY <1>1, Inductive, PTL

\* A close that returns leaves no thread, no process, no ticket and no lease.
THEOREM ClosedShellTheorem == Spec => []ClosedShellIsQuiet
<1>1. ASSUME JobsInv, OwnersInv PROVE ClosedShellIsQuiet
  <2> SUFFICES ASSUME NEW s \in Shell, NEW j \in Caller, shell[s].pc = "closed", job[j].shell = s
               PROVE  Finished(j) /\ process[j] \in {"none", "exited"} /\ j \notin Waiting \cup Held
    BY DEF ClosedShellIsQuiet
  <2>1. Finished(j)
    BY <1>1, OwnedOrFree DEF OwnersInv, ShellPhase, JobTracked
  <2> QED
    BY <1>1, <2>1, PhaseTyped DEF Finished, JobPhase, Waiting, Held
<1> QED
  BY <1>1, Inductive, PTL

-----------------------------------------------------------------------------
(* The tool pool under any callers: the counters of the pool are the sizes of *)
(* the sets of leases really out, so these never exceed its slots.            *)

USE CapacityAssumption

\* The counters count the leases.
Counted ==
  /\ active = Cardinality(Held)
  /\ heavy = Cardinality(HeldHeavy)

SlotsInv ==
  /\ claim \in [Caller -> Claim]
  /\ Counted
  /\ active <= CapActive /\ heavy <= CapHeavy

\* The sets of leases are finite, and capacities are numbers.
LEMMA Finite ==
  /\ IsFiniteSet(Held) /\ IsFiniteSet(HeldHeavy)
  /\ Cardinality(Held) \in Nat /\ Cardinality(HeldHeavy) \in Nat
  /\ CapActive \in Nat /\ CapHeavy \in Nat
<1>1. Held \subseteq Caller /\ HeldHeavy \subseteq Caller
  BY DEF Held, HeldHeavy
<1>2. IsFiniteSet(Held) /\ IsFiniteSet(HeldHeavy)
  BY <1>1, FS_Subset
<1> QED
  BY <1>2, FS_CardinalityType

\* A cost asks for no heavy slot or for one.
LEMMA HeavyIsBit == \A cost \in Cost \cup {NoCost} : cost.heavy \in {0, 1}
<1>1. \A cost \in Cost : cost.heavy \in {0, 1}
  BY DEF NoCost
<1>2. NoCost.heavy = 0
  BY DEF NoCost
<1> QED
  BY <1>1, <1>2

\* A lease handed out is counted once.
LEMMA TakeCounts ==
  ASSUME SlotsInv, NEW c \in Caller, NEW cost \in Cost \cup {NoCost}, c \notin Held,
         Fits(cost), Take(c, cost)
  PROVE  SlotsInv'
<1>1. /\ claim' \in [Caller -> Claim]
      /\ claim'[c].state = "held" /\ claim'[c].cost = cost
      /\ \A d \in Caller : d # c => claim'[d] = claim[d]
  <2>1. [state |-> "held", cost |-> cost] \in Claim
    BY DEF Claim
  <2> QED
    BY <2>1 DEF Take, SlotsInv
<1>2. Held' = Held \cup {c}
  BY <1>1 DEF Held
<1>3. HeldHeavy' = IF cost.heavy = 1 THEN HeldHeavy \cup {c} ELSE HeldHeavy
  BY <1>1, <1>2 DEF HeldHeavy, Held
<1>4. c \notin HeldHeavy
  BY DEF HeldHeavy
<1>5. Cardinality(Held') = Cardinality(Held) + 1
  BY <1>2, Finite, FS_AddElement
<1>6. Cardinality(HeldHeavy') = Cardinality(HeldHeavy) + cost.heavy
  <2>1. CASE cost.heavy = 1
    BY <2>1, <1>3, <1>4, Finite, FS_AddElement
  <2>2. CASE cost.heavy = 0
    BY <2>2, <1>3, Finite
  <2> QED
    BY <2>1, <2>2, HeavyIsBit
<1>7. Counted'
  BY <1>5, <1>6 DEF Counted, Take, SlotsInv
<1>8. active' <= CapActive /\ heavy' <= CapHeavy
  <2>1. active \in Nat /\ active < CapActive /\ active' = active + 1
    BY Finite DEF SlotsInv, Counted, Fits, Take
  <2>2. heavy + cost.heavy <= CapHeavy /\ heavy' = heavy + cost.heavy
    BY DEF Fits, Take
  <2> QED
    BY <2>1, <2>2, Finite
<1> QED
  BY <1>1, <1>7, <1>8 DEF SlotsInv

\* A released lease is no longer counted.
LEMMA ReleaseCounts ==
  ASSUME SlotsInv, NEW c \in Caller, Release(c)
  PROVE  SlotsInv'
<1>1. CASE claim[c].state = "released" /\ UNCHANGED pool
  BY <1>1 DEF pool, SlotsInv, Counted, Held, HeldHeavy
<1>2. CASE claim[c].state = "held"
  <2> DEFINE cost == claim[c].cost
  <2>1. /\ active' = active - 1 /\ heavy' = heavy - cost.heavy
        /\ claim' = [claim EXCEPT ![c].state = "released"]
        /\ claim[c] \in Claim /\ cost.heavy \in {0, 1} /\ c \in Held
    BY <1>2, HeavyIsBit DEF Release, SlotsInv, Claim, Held
  <2>2. /\ claim' \in [Caller -> Claim]
        /\ claim'[c].state = "released"
        /\ \A d \in Caller : d # c => claim'[d] = claim[d]
    BY <2>1 DEF SlotsInv, Claim
  <2>3. Held' = Held \ {c}
    BY <2>2 DEF Held
  <2>4. HeldHeavy' = HeldHeavy \ {c}
    BY <2>2, <2>3 DEF HeldHeavy, Held
  <2>5. Cardinality(Held') = Cardinality(Held) - 1
    BY <2>1, <2>3, Finite, FS_RemoveElement
  <2>6. Cardinality(HeldHeavy') = Cardinality(HeldHeavy) - cost.heavy
    <3>1. CASE cost.heavy = 1
      <4>1. c \in HeldHeavy
        BY <3>1, <2>1 DEF HeldHeavy
      <4>2. Cardinality(HeldHeavy \ {c}) = Cardinality(HeldHeavy) - 1
        BY <4>1, Finite, FS_RemoveElement
      <4> QED
        BY <4>2, <3>1, <2>4
    <3>2. CASE cost.heavy = 0
      <4>1. HeldHeavy' = HeldHeavy
        BY <3>2, <2>4 DEF HeldHeavy
      <4> QED
        BY <4>1, <3>2, Finite
    <3> QED
      BY <3>1, <3>2, <2>1
  <2>7. Counted'
    BY <2>1, <2>5, <2>6 DEF Counted, SlotsInv
  <2>8. active' <= CapActive /\ heavy' <= CapHeavy
    <3>1. active \in Nat /\ heavy \in Nat /\ active <= CapActive /\ heavy <= CapHeavy
      BY Finite DEF SlotsInv, Counted
    <3> HIDE DEF cost
    <3> QED
      BY <3>1, <2>1, Finite
  <2> QED
    BY <2>2, <2>7, <2>8 DEF SlotsInv
<1> QED
  BY <1>1, <1>2 DEF Release

\* Entering the queue and leaving it hand nothing out.
LEMMA WaitingKeeps ==
  ASSUME SlotsInv, NEW c \in Caller,
         \/ \E cost \in Cost : claim[c].state \notin {"waiting", "held"} /\ Wait(c, cost)
         \/ Leave(c)
  PROVE  SlotsInv'
<1> DEFINE Quiet ==
      /\ UNCHANGED <<active, heavy>>
      /\ claim' \in [Caller -> Claim]
      /\ claim[c].state # "held" /\ claim'[c].state # "held"
      /\ \A d \in Caller : d # c => claim'[d] = claim[d]
<1>1. Quiet
  <2>1. CASE Leave(c)
    <3>1. [state |-> "none", cost |-> NoCost] \in Claim
      BY DEF Claim
    <3> QED
      BY <2>1, <3>1 DEF Leave, SlotsInv
  <2>2. ASSUME NEW cost \in Cost, claim[c].state \notin {"waiting", "held"}, Wait(c, cost)
        PROVE  Quiet
    <3>1. [state |-> "waiting", cost |-> cost] \in Claim
      BY DEF Claim
    <3> QED
      BY <2>2, <3>1 DEF Wait, SlotsInv
  <2> HIDE DEF Quiet
  <2> QED
    BY <2>1, <2>2
<1>2. Held' = Held /\ HeldHeavy' = HeldHeavy
  BY <1>1 DEF Held, HeldHeavy
<1> QED
  BY <1>1, <1>2 DEF SlotsInv, Counted

Clients == INSTANCE AdmissionClients

\* The pool's operations read the same in the module of its clients.
LEMMA SamePool ==
  /\ PoolInit <=> Clients!Init
  /\ \A j \in Caller : \A cost \in Cost : Enter(j, cost) <=> Clients!Enter(j, cost)
  /\ \A j \in Caller : Grant(j) <=> Clients!Grant(j)
  /\ \A j \in Caller : Leave(j) <=> Clients!Leave(j)
  /\ \A j \in Caller : Release(j) <=> Clients!Release(j)
<1>1. PoolInit <=> Clients!Init
  BY DEF PoolInit, NoCost, Clients!Init, Clients!PoolInit, Clients!NoCost
<1>2. \A j \in Caller : \A cost \in Cost : Enter(j, cost) <=> Clients!Enter(j, cost)
  BY DEF Enter, Refuses, Fits, Take, Wait,
         Clients!Enter, Clients!Refuses, Clients!Fits, Clients!Take, Clients!Wait
<1>3. \A j \in Caller : Grant(j) <=> Clients!Grant(j)
  BY DEF Grant, Fits, Take, Clients!Grant, Clients!Fits, Clients!Take
<1>4. \A j \in Caller : Leave(j) <=> Clients!Leave(j)
  BY DEF Leave, Without, NoCost, Clients!Leave, Clients!Without, Clients!NoCost
<1>5. \A j \in Caller : Release(j) <=> Clients!Release(j)
  BY DEF Release, pool, Clients!Release, Clients!pool
<1> QED
  BY <1>1, <1>2, <1>3, <1>4, <1>5

\* The counters count in every run of the clients.
LEMMA PoolCounts == Clients!Spec => []SlotsInv
<1>1. Clients!Init => SlotsInv
  <2> SUFFICES ASSUME PoolInit PROVE SlotsInv
    BY SamePool
  <2>1. claim \in [Caller -> Claim] /\ \A c \in Caller : claim[c].state = "none"
    BY DEF PoolInit, Claim
  <2>2. Held = {} /\ HeldHeavy = {}
    BY <2>1 DEF Held, HeldHeavy
  <2>3. active = 0 /\ heavy = 0
    BY DEF PoolInit
  <2> QED
    BY <2>1, <2>2, <2>3, FS_EmptySet, Finite DEF SlotsInv, Counted
<1>2. SlotsInv /\ [Clients!Next]_(Clients!pool) => SlotsInv'
  <2> SUFFICES ASSUME SlotsInv, [Clients!Next]_(Clients!pool) PROVE SlotsInv'
    OBVIOUS
  <2>1. ASSUME NEW c \in Caller, NEW cost \in Cost, Enter(c, cost) PROVE SlotsInv'
    <3>1. c \notin Held
      BY <2>1 DEF Enter, Held
    <3> QED
      BY <2>1, <3>1, TakeCounts, WaitingKeeps DEF Enter
  <2>2. ASSUME NEW c \in Caller, Grant(c) PROVE SlotsInv'
    <3>1. c \notin Held /\ claim[c] \in Claim
      BY <2>2 DEF Grant, Held, SlotsInv
    <3> QED
      BY <2>2, <3>1, TakeCounts DEF Grant, Claim
  <2>3. ASSUME NEW c \in Caller, Leave(c) PROVE SlotsInv'
    BY <2>3, WaitingKeeps
  <2>4. ASSUME NEW c \in Caller, Release(c) PROVE SlotsInv'
    BY <2>4, ReleaseCounts
  <2>5. CASE UNCHANGED Clients!pool
    BY <2>5 DEF Clients!pool, SlotsInv, Counted, Held, HeldHeavy
  <2>6. ASSUME NEW c \in Caller, Clients!Step(c) PROVE SlotsInv'
    BY <2>1, <2>2, <2>3, <2>4, <2>6, SamePool DEF Clients!Step
  <2> QED
    BY <2>5, <2>6 DEF Clients!Next
<1> QED
  BY <1>1, <1>2, PTL DEF Clients!Spec

-----------------------------------------------------------------------------
(* Memory and processes: the counters are the numbers of units out.           *)

\* As many units as a number says.
LEMMA Units ==
  ASSUME NEW c, NEW n \in Nat
  PROVE  IsFiniteSet({c} \X (1..n)) /\ Cardinality({c} \X (1..n)) = n
<1>1. IsFiniteSet({c}) /\ Cardinality({c}) = 1
  BY FS_Singleton
<1>2. IsFiniteSet(1..n) /\ Cardinality(1..n) = n
  <2>1. IsFiniteSet(1..n) /\ Cardinality(1..n) = IF 1 > n THEN 0 ELSE n - 1 + 1
    BY FS_Interval, 1 \in Int, n \in Int
  <2> QED
    BY <2>1
<1>3. Cardinality({c} \X (1..n)) = 1 * n /\ IsFiniteSet({c} \X (1..n))
  BY <1>1, <1>2, FS_Product
<1> QED
  BY <1>3

\* Another caller's units add to what is out.
LEMMA UnitsAdded ==
  ASSUME NEW S, IsFiniteSet(S), NEW c, NEW n \in Nat, \A u \in S : u[1] # c
  PROVE  /\ IsFiniteSet(S \cup ({c} \X (1..n)))
         /\ Cardinality(S \cup ({c} \X (1..n))) = Cardinality(S) + n
<1> DEFINE T == {c} \X (1..n)
<1>1. IsFiniteSet(T) /\ Cardinality(T) = n
  BY Units
<1>2. S \cap T = {}
  OBVIOUS
<1> HIDE DEF T
<1>3. Cardinality(S \cup T) = Cardinality(S) + Cardinality(T) - Cardinality({})
  BY <1>1, <1>2, FS_Union
<1>4. Cardinality({}) = 0 /\ Cardinality(S) \in Nat /\ IsFiniteSet(S \cup T)
  BY <1>1, FS_EmptySet, FS_CardinalityType, FS_Union
<1>5. Cardinality(S \cup T) = Cardinality(S) + n
  BY <1>1, <1>3, <1>4
<1> QED
  BY <1>4, <1>5 DEF T

\* A caller's own units go when its lease does.
LEMMA UnitsGone ==
  ASSUME NEW S, IsFiniteSet(S), NEW c, NEW n \in Nat, {c} \X (1..n) \subseteq S
  PROVE  /\ IsFiniteSet(S \ ({c} \X (1..n)))
         /\ Cardinality(S \ ({c} \X (1..n))) = Cardinality(S) - n
<1> DEFINE T == {c} \X (1..n)
<1>1. Cardinality(T) = n /\ S \cap T = T
  BY Units
<1> HIDE DEF T
<1>2. IsFiniteSet(S \ T) /\ Cardinality(S \ T) = Cardinality(S) - Cardinality(S \cap T)
  BY FS_Difference
<1>3. IsFiniteSet(S \ T) /\ Cardinality(S \ T) = Cardinality(S) - n
  BY <1>1, <1>2
<1> QED
  BY <1>3 DEF T

UnitsInv ==
  /\ IsFiniteSet(MemoryOut) /\ memory = Cardinality(MemoryOut) /\ memory <= CapMemory
  /\ IsFiniteSet(PidsOut) /\ pids = Cardinality(PidsOut) /\ pids <= CapPids

\* Costs are numbers, and so are the counters.
LEMMA UnitsTyped ==
  /\ \A cost \in Cost \cup {NoCost} : cost.memory \in Nat /\ cost.pids \in Nat
  /\ UnitsInv => memory \in Nat /\ pids \in Nat
  /\ CapMemory \in Nat /\ CapPids \in Nat
<1>1. \A cost \in Cost \cup {NoCost} : cost.memory \in Nat /\ cost.pids \in Nat
  BY DEF NoCost
<1>2. UnitsInv => memory \in Nat /\ pids \in Nat
  BY FS_CardinalityType DEF UnitsInv
<1> QED
  BY <1>1, <1>2

\* As long as the leases out stay the same, so do the units.
LEMMA UnitsKept ==
  ASSUME UnitsInv, UNCHANGED <<memory, pids>>, Held' = Held,
         \A d \in Held : claim'[d] = claim[d]
  PROVE  UnitsInv'
<1>1. MemoryOut' = MemoryOut /\ PidsOut' = PidsOut
  BY DEF MemoryOut, PidsOut
<1> QED
  BY <1>1 DEF UnitsInv

\* A lease that is handed out takes its units.
LEMMA UnitsTaken ==
  ASSUME SlotsInv, UnitsInv, NEW c \in Caller, NEW cost \in Cost \cup {NoCost}, c \notin Held,
         Fits(cost), Take(c, cost)
  PROVE  UnitsInv'
<1>1. /\ claim'[c].state = "held" /\ claim'[c].cost = cost
      /\ \A d \in Caller : d # c => claim'[d] = claim[d]
  BY DEF Take, SlotsInv
<1>2. Held' = Held \cup {c}
  BY <1>1 DEF Held
<1>3. \A d \in Held : claim'[d] = claim[d]
  BY <1>1 DEF Held
<1>4. /\ MemoryOut' = MemoryOut \cup ({c} \X (1..cost.memory))
      /\ \A u \in MemoryOut : u[1] # c
  BY <1>1, <1>2, <1>3 DEF MemoryOut
<1>5. /\ PidsOut' = PidsOut \cup ({c} \X (1..cost.pids))
      /\ \A u \in PidsOut : u[1] # c
  BY <1>1, <1>2, <1>3 DEF PidsOut
<1>6. cost.memory \in Nat /\ cost.pids \in Nat
  BY UnitsTyped
<1>7. IsFiniteSet(MemoryOut') /\ Cardinality(MemoryOut') = Cardinality(MemoryOut) + cost.memory
  BY <1>4, <1>6, UnitsAdded DEF UnitsInv
<1>8. IsFiniteSet(PidsOut') /\ Cardinality(PidsOut') = Cardinality(PidsOut) + cost.pids
  BY <1>5, <1>6, UnitsAdded DEF UnitsInv
<1> QED
  BY <1>7, <1>8 DEF UnitsInv, Take, Fits

\* A lease that is given back returns them, the first time.
LEMMA UnitsReturned ==
  ASSUME SlotsInv, UnitsInv, NEW c \in Caller, Release(c)
  PROVE  UnitsInv'
<1>1. CASE claim[c].state = "released" /\ UNCHANGED pool
  BY <1>1, UnitsKept DEF pool, Held
<1>2. CASE claim[c].state = "held"
  <2> DEFINE cost == claim[c].cost
  <2>1. /\ memory' = memory - cost.memory /\ pids' = pids - cost.pids
        /\ claim' = [claim EXCEPT ![c].state = "released"]
        /\ claim[c] \in Claim /\ cost \in Cost \cup {NoCost}
    BY <1>2 DEF Release, SlotsInv, Claim
  <2>2. claim'[c].state = "released" /\ \A d \in Caller : d # c => claim'[d] = claim[d]
    BY <2>1 DEF SlotsInv, Claim
  <2>3. Held' = Held \ {c} /\ c \in Held /\ \A d \in Held' : claim'[d] = claim[d]
    BY <1>2, <2>2 DEF Held
  <2>4. /\ MemoryOut' = MemoryOut \ ({c} \X (1..cost.memory))
        /\ {c} \X (1..cost.memory) \subseteq MemoryOut
    BY <2>3 DEF MemoryOut
  <2>5. /\ PidsOut' = PidsOut \ ({c} \X (1..cost.pids))
        /\ {c} \X (1..cost.pids) \subseteq PidsOut
    BY <2>3 DEF PidsOut
  <2>6. cost.memory \in Nat /\ cost.pids \in Nat
    BY <2>1, UnitsTyped
  <2> HIDE DEF cost
  <2>7. IsFiniteSet(MemoryOut') /\ Cardinality(MemoryOut') = Cardinality(MemoryOut) - cost.memory
    BY <2>4, <2>6, UnitsGone DEF UnitsInv
  <2>8. IsFiniteSet(PidsOut') /\ Cardinality(PidsOut') = Cardinality(PidsOut) - cost.pids
    BY <2>5, <2>6, UnitsGone DEF UnitsInv
  <2>9. memory' <= CapMemory /\ pids' <= CapPids
    <3>1. memory \in Nat /\ pids \in Nat /\ memory <= CapMemory /\ pids <= CapPids
      BY UnitsTyped DEF UnitsInv
    <3> QED
      BY <2>1, <2>6, <3>1, UnitsTyped
  <2> QED
    BY <2>1, <2>7, <2>8, <2>9 DEF UnitsInv
<1> QED
  BY <1>1, <1>2 DEF Release

\* The units count in every run of the clients.
LEMMA UnitsCount == Clients!Spec => []UnitsInv
<1>1. Clients!Init => UnitsInv
  <2> SUFFICES ASSUME PoolInit PROVE UnitsInv
    BY SamePool
  <2>1. Held = {} /\ memory = 0 /\ pids = 0
    BY DEF PoolInit, Held
  <2>2. MemoryOut = {} /\ PidsOut = {}
    BY <2>1 DEF MemoryOut, PidsOut
  <2> QED
    BY <2>1, <2>2, FS_EmptySet, UnitsTyped DEF UnitsInv
<1>2. SlotsInv /\ UnitsInv /\ [Clients!Next]_(Clients!pool) => UnitsInv'
  <2> SUFFICES ASSUME SlotsInv, UnitsInv, [Clients!Next]_(Clients!pool) PROVE UnitsInv'
    OBVIOUS
  <2>1. ASSUME NEW c \in Caller, NEW cost \in Cost, Wait(c, cost), c \notin Held PROVE UnitsInv'
    <3>1. UNCHANGED <<memory, pids>> /\ Held' = Held /\ \A d \in Held : claim'[d] = claim[d]
      BY <2>1 DEF Wait, Held, SlotsInv
    <3> QED
      BY <3>1, UnitsKept
  <2>2. ASSUME NEW c \in Caller, NEW cost \in Cost, Enter(c, cost) PROVE UnitsInv'
    <3>1. c \notin Held
      BY <2>2 DEF Enter, Held
    <3> QED
      BY <2>1, <2>2, <3>1, UnitsTaken DEF Enter
  <2>3. ASSUME NEW c \in Caller, Grant(c) PROVE UnitsInv'
    <3>1. c \notin Held /\ claim[c] \in Claim
      BY <2>3 DEF Grant, Held, SlotsInv
    <3> QED
      BY <2>3, <3>1, UnitsTaken DEF Grant, Claim
  <2>4. ASSUME NEW c \in Caller, Leave(c) PROVE UnitsInv'
    <3>1. UNCHANGED <<memory, pids>> /\ Held' = Held /\ \A d \in Held : claim'[d] = claim[d]
      BY <2>4 DEF Leave, Held, SlotsInv
    <3> QED
      BY <3>1, UnitsKept
  <2>5. ASSUME NEW c \in Caller, Clients!Step(c) PROVE UnitsInv'
    BY <2>2, <2>3, <2>4, <2>5, SamePool, UnitsReturned DEF Clients!Step
  <2>6. CASE UNCHANGED Clients!pool
    BY <2>6, UnitsKept DEF Clients!pool, Held
  <2> QED
    BY <2>5, <2>6 DEF Clients!Next
<1> QED
  BY <1>1, <1>2, PoolCounts, PTL DEF Clients!Spec

\* The leases out never exceed the pool's slots, heavy or other, its memory and
\* its processes, however entries, grants, cancellations, timeouts and repeated
\* releases interleave.
THEOREM LeasesBounded == Clients!Spec => []LeasesFitCapacity
<1>1. SlotsInv /\ UnitsInv => LeasesFitCapacity
  BY DEF SlotsInv, Counted, UnitsInv, LeasesFitCapacity
<1> QED
  BY <1>1, PoolCounts, UnitsCount, PTL

-----------------------------------------------------------------------------
(* The queue.                                                                 *)

\* Every waiting caller has a ticket in the queue.
Ticketed(d) == \E i \in DOMAIN queue : queue[i] = d

TicketsInv ==
  /\ queue \in Seq(Caller) /\ claim \in [Caller -> Claim]
  /\ \A d \in Waiting : Ticketed(d)

\* Dropping one caller's ticket leaves everyone else's.
LEMMA WithoutKeeps ==
  ASSUME TicketsInv, NEW c \in Waiting
  PROVE  /\ Without(c) \in Seq(Caller)
         /\ \A d \in Waiting \ {c} : \E i \in DOMAIN Without(c) : Without(c)[i] = d
<1> DEFINE at == CHOOSE i \in DOMAIN queue : queue[i] = c
<1>1. at \in 1..Len(queue) /\ queue[at] = c
  BY DEF TicketsInv, Ticketed
<1>2. Without(c) = [j \in 1..Len(queue) - 1 |-> IF j < at THEN queue[j] ELSE queue[j + 1]]
  BY DEF Without
<1> HIDE DEF at
<1>3. Len(queue) - 1 \in Nat /\ \A i \in 1..Len(queue) : queue[i] \in Caller
  BY <1>1 DEF TicketsInv
<1>4. \A j \in 1..Len(queue) - 1 : Without(c)[j] \in Caller
  BY <1>1, <1>2, <1>3 DEF TicketsInv
<1>5. Without(c) \in Seq(Caller) /\ DOMAIN Without(c) = 1..Len(queue) - 1
  <2>1. Without(c) \in [1..Len(queue) - 1 -> Caller]
    BY <1>2, <1>4
  <2> QED
    BY <1>3, <2>1, SeqDef
<1>6. ASSUME NEW d \in Waiting \ {c}
      PROVE  \E i \in DOMAIN Without(c) : Without(c)[i] = d
  <2>1. PICK i \in 1..Len(queue) : queue[i] = d
    BY DEF TicketsInv, Ticketed
  <2>2. i # at
    BY <1>1, <2>1
  <2>3. CASE i < at
    <3>1. i \in 1..Len(queue) - 1 /\ Without(c)[i] = d
      BY <1>1, <1>2, <2>1, <2>3 DEF TicketsInv
    <3> QED
      BY <1>5, <3>1
  <2>4. CASE i > at
    <3>1. i - 1 \in 1..Len(queue) - 1 /\ Without(c)[i - 1] = d
      BY <1>1, <1>2, <2>1, <2>4 DEF TicketsInv
    <3> QED
      BY <1>5, <3>1
  <2> QED
    BY <1>1, <2>1, <2>2, <2>3, <2>4
<1> QED
  BY <1>5, <1>6

\* No pool operation loses the ticket of a caller that still waits.
LEMMA TicketsStep ==
  ASSUME TicketsInv, NEW c \in Caller,
         (\E cost \in Cost : Enter(c, cost)) \/ Grant(c) \/ Leave(c) \/ Release(c)
  PROVE  TicketsInv'
<1>1. ASSUME NEW cost \in Cost, Enter(c, cost), Take(c, cost), UNCHANGED queue
      PROVE  TicketsInv'
  <2>1. claim' \in [Caller -> Claim]
    BY <1>1 DEF Take, TicketsInv, Claim
  <2>2. Waiting' = Waiting
    BY <1>1 DEF Take, Enter, Waiting, TicketsInv
  <2> QED
    BY <1>1, <2>1, <2>2 DEF TicketsInv, Ticketed
<1>2. ASSUME NEW cost \in Cost, Wait(c, cost) PROVE TicketsInv'
  <2>1. claim' \in [Caller -> Claim]
    BY <1>2 DEF Wait, TicketsInv, Claim
  <2>2. Waiting' \subseteq Waiting \cup {c}
    BY <1>2 DEF Wait, Waiting, TicketsInv
  <2>3. /\ queue' \in Seq(Caller) /\ Len(queue') = Len(queue) + 1
        /\ queue'[Len(queue) + 1] = c
        /\ \A i \in 1..Len(queue) : queue'[i] = queue[i]
    BY <1>2 DEF Wait, TicketsInv
  <2>4. Ticketed(c)'
    <3>1. DOMAIN queue' = 1..Len(queue') /\ Len(queue) \in Nat
      BY <2>3 DEF TicketsInv
    <3>2. Len(queue) + 1 \in DOMAIN queue'
      BY <2>3, <3>1
    <3> QED
      BY <2>3, <3>2 DEF Ticketed
  <2>5. ASSUME NEW d \in Waiting PROVE Ticketed(d)'
    <3>1. PICK i \in 1..Len(queue) : queue[i] = d
      BY <2>5 DEF Ticketed, TicketsInv
    <3>2. i \in 1..Len(queue') /\ queue'[i] = d
      BY <2>3, <3>1 DEF TicketsInv
    <3>3. DOMAIN queue' = 1..Len(queue')
      BY <2>3
    <3> QED
      BY <3>2, <3>3 DEF Ticketed
  <2> QED
    BY <2>1, <2>2, <2>3, <2>4, <2>5 DEF TicketsInv
<1>3. CASE Grant(c)
  <2>1. claim' \in [Caller -> Claim] /\ Waiting' = Waiting \ {c}
    BY <1>3 DEF Grant, Take, TicketsInv, Claim, Waiting
  <2>2. c \in Waiting
    BY <1>3 DEF Grant, Waiting
  <2>3. queue # <<>> /\ queue[1] = c
    BY <1>3, <2>2 DEF Grant, TicketsInv, Ticketed
  <2>4. /\ queue' \in Seq(Caller) /\ Len(queue') = Len(queue) - 1
        /\ \A i \in 1..Len(queue) - 1 : queue'[i] = queue[i + 1]
    BY <1>3, <2>3 DEF Grant, TicketsInv
  <2>5. ASSUME NEW d \in Waiting \ {c} PROVE Ticketed(d)'
    <3>1. PICK i \in 1..Len(queue) : queue[i] = d
      BY <2>5 DEF Ticketed, TicketsInv
    <3>2. i - 1 \in 1..Len(queue') /\ queue'[i - 1] = d
      BY <2>3, <2>4, <3>1 DEF TicketsInv
    <3>3. DOMAIN queue' = 1..Len(queue')
      BY <2>4
    <3> QED
      BY <3>2, <3>3 DEF Ticketed
  <2> QED
    BY <2>1, <2>4, <2>5 DEF TicketsInv
<1>4. CASE Leave(c)
  <2>1. claim' \in [Caller -> Claim] /\ Waiting' = Waiting \ {c} /\ c \in Waiting
    BY <1>4 DEF Leave, TicketsInv, Claim, Waiting
  <2>2. queue' = Without(c)
    BY <1>4 DEF Leave
  <2> QED
    BY <2>1, <2>2, WithoutKeeps DEF TicketsInv, Ticketed
<1>5. CASE Release(c)
  <2>1. UNCHANGED queue /\ claim' \in [Caller -> Claim]
    BY <1>5 DEF Release, pool, TicketsInv, Claim
  <2>2. Waiting' = Waiting
    <3>1. ASSUME NEW d \in Caller
          PROVE  claim'[d].state = "waiting" <=> claim[d].state = "waiting"
      BY <1>5 DEF Release, pool, TicketsInv, Claim
    <3> QED
      BY <3>1 DEF Waiting
  <2> QED
    BY <2>1, <2>2 DEF TicketsInv, Ticketed
<1> QED
  BY <1>1, <1>2, <1>3, <1>4, <1>5 DEF Enter

\* The clients' steps are the pool's operations.
LEMMA StepIsOperation ==
  ASSUME NEW c \in Caller, Clients!Step(c)
  PROVE  (\E cost \in Cost : Enter(c, cost)) \/ Grant(c) \/ Leave(c) \/ Release(c)
BY SamePool DEF Clients!Step

\* Every waiter has a ticket in every run of the clients.
LEMMA TicketsKept == Clients!Spec => []TicketsInv
<1>1. Clients!Init => TicketsInv
  <2> SUFFICES ASSUME PoolInit PROVE TicketsInv
    BY SamePool
  <2>1. claim \in [Caller -> Claim] /\ \A c \in Caller : claim[c].state = "none"
    BY DEF PoolInit, Claim
  <2> QED
    BY <2>1 DEF PoolInit, TicketsInv, Waiting
<1>2. TicketsInv /\ [Clients!Next]_(Clients!pool) => TicketsInv'
  <2> SUFFICES ASSUME TicketsInv, [Clients!Next]_(Clients!pool) PROVE TicketsInv'
    OBVIOUS
  <2>1. CASE UNCHANGED Clients!pool
    BY <2>1 DEF Clients!pool, TicketsInv, Ticketed, Waiting
  <2>2. ASSUME NEW c \in Caller, Clients!Step(c) PROVE TicketsInv'
    BY <2>2, StepIsOperation, TicketsStep
  <2> QED
    BY <2>1, <2>2 DEF Clients!Next
<1> QED
  BY <1>1, <1>2, PTL DEF Clients!Spec

\* The queue holds callers, the counters never go below zero, and a claim is
\* one of the four states of a caller's last acquire, for any callers, costs and
\* capacity.
THEOREM PoolTyped == Clients!Spec => []PoolTypeOK
<1>1. ASSUME SlotsInv, UnitsInv, TicketsInv PROVE PoolTypeOK
  <2>1. active \in Nat /\ heavy \in Nat
    BY <1>1, Finite DEF SlotsInv, Counted
  <2>2. memory \in Nat /\ pids \in Nat
    BY <1>1, FS_CardinalityType DEF UnitsInv
  <2> QED
    BY <1>1, <2>1, <2>2 DEF PoolTypeOK, TicketsInv
<1> QED
  BY <1>1, PoolCounts, UnitsCount, TicketsKept, PTL

\* No newcomer and no waiter further back is handed a lease while another
\* caller waits in front, for any callers, costs and capacity.
THEOREM FirstComeFirstServed == Clients!Spec => NoOvertaking
<1> DEFINE Fair == \A c \in Held' \ Held : \A d \in Waiting \ {c} : Before(c, d)
<1>1. TicketsInv /\ [Clients!Next]_(Clients!pool) => [Fair]_pool
  <2> SUFFICES ASSUME TicketsInv, NEW e \in Caller, Clients!Step(e) PROVE Fair
    BY DEF Clients!Next, Clients!pool, pool
  <2> HIDE DEF Fair
  <2>1. ASSUME NEW cost \in Cost, Enter(e, cost) PROVE Fair
    <3>1. CASE queue = <<>>
      <4>1. Waiting = {}
        BY <3>1 DEF TicketsInv, Ticketed
      <4> QED
        BY <4>1 DEF Fair
    <3>2. CASE queue # <<>>
      <4>1. claim' = [claim EXCEPT ![e] = [state |-> "waiting", cost |-> cost]]
        BY <2>1, <3>2 DEF Enter, Wait
      <4>2. ASSUME NEW d \in Caller, claim'[d].state = "held"
            PROVE  claim[d].state = "held"
        BY <4>1, <4>2 DEF TicketsInv
      <4>3. Held' \subseteq Held
        BY <4>2 DEF Held
      <4> QED
        BY <4>3 DEF Fair
    <3> QED
      BY <3>1, <3>2
  <2>2. CASE Grant(e)
    <3>1. Held' \ Held \subseteq {e}
      BY <2>2 DEF Grant, Take, Held, TicketsInv
    <3>2. e \in Waiting
      BY <2>2 DEF Grant, Waiting
    <3>3. 1 \in DOMAIN queue /\ queue[1] = e
      BY <2>2, <3>2 DEF Grant, TicketsInv, Ticketed
    <3>4. ASSUME NEW d \in Waiting \ {e} PROVE Before(e, d)
      BY <3>3, <3>4 DEF Before, TicketsInv
    <3> QED
      BY <3>1, <3>4 DEF Fair
  <2>3. CASE Leave(e)
    <3>1. Held' \subseteq Held
      BY <2>3 DEF Leave, Held, TicketsInv
    <3> QED
      BY <3>1 DEF Fair
  <2>4. CASE Release(e)
    <3>1. Held' \subseteq Held
      BY <2>4 DEF Release, pool, Held, TicketsInv
    <3> QED
      BY <3>1 DEF Fair
  <2> QED
    BY StepIsOperation, <2>1, <2>2, <2>3, <2>4
<1> QED
  BY <1>1, TicketsKept, PTL DEF Clients!Spec, NoOvertaking

-----------------------------------------------------------------------------
(* The shells are clients of the pool.                                        *)

\* Executors enter, are granted, leave and release; all else leaves the pool
\* alone.
LEMMA PoolStep ==
  ASSUME JobsInv, [Next]_vars
  PROVE  [Clients!Next]_(Clients!pool)
<1>1. ASSUME NEW j \in Caller, Asks(j) PROVE \E cost \in Cost : Clients!Enter(j, cost)
  <2>1. CostOf[job[j].cmd] \in Cost
    BY <1>1, PhaseTyped DEF Asks, JobPhase
  <2> QED
    BY <1>1, <2>1, SamePool DEF Asks
<1>2. ASSUME NEW j \in Caller, Executor(j) \/ Exits(j) PROVE [Clients!Next]_(Clients!pool)
  <2>1. CASE Asks(j)
    BY <2>1, <1>1 DEF Clients!Next, Clients!Step
  <2>2. CASE Granted(j)
    BY <2>2, SamePool DEF Granted, Clients!Next, Clients!Step
  <2>3. CASE Abandons(j)
    BY <2>3, SamePool DEF Abandons, Clients!Next, Clients!Step
  <2>4. CASE GiveBack(j)
    BY <2>4, SamePool DEF GiveBack, Clients!Next, Clients!Step
  <2>5. CASE TurnedAway(j) \/ Spawn(j) \/ LoopEnds(j) \/ KillRest(j) \/ Reap(j) \/ Exits(j)
    BY <2>5 DEF TurnedAway, Spawn, LoopEnds, KillRest, Reap, Exits, pool, Clients!pool
  <2> QED
    BY <1>2, <2>1, <2>2, <2>3, <2>4, <2>5 DEF Executor
<1>3. ASSUME NEW s \in Shell, ToolCall(s) \/ Waits(s) \/ EndAttempt(s) \/ Closes(s)
      PROVE  UNCHANGED pool
  <2>1. CASE ToolCall(s)
    BY <2>1 DEF ToolCall, Call, Start, NewJob, Poll, PollTooLong, Cancel
  <2>2. CASE Waits(s)
    BY <2>2 DEF Waits, CallOverdue, Returns, Raises
  <2>3. CASE EndAttempt(s)
    BY <2>3 DEF EndAttempt
  <2>4. CASE Closes(s)
    BY <2>4 DEF Closes, Shut, CloseReturns, Drain, ShutReaps
  <2> QED
    BY <1>3, <2>1, <2>2, <2>3, <2>4
<1>4. CASE UNCHANGED vars
  BY <1>4 DEF vars, pool, Clients!pool
<1> QED
  BY <1>2, <1>3, <1>4 DEF Next, pool, Clients!pool

\* Every behaviour of the shells is one of the pool under its clients.
THEOREM ShellsUseThePool == Spec => Clients!Spec
<1>1. Init => Clients!Init
  BY SamePool DEF Init
<1>2. JobsInv /\ [Next]_vars => [Clients!Next]_(Clients!pool)
  BY PoolStep
<1> QED
  BY <1>1, <1>2, Inductive, PTL DEF Spec, Clients!Spec

\* No more processes run, unless about to be killed, than the pool has slots.
THEOREM PoolBoundsProcessesTheorem == Spec => []PoolBoundsProcesses
<1>1. ASSUME JobsInv, SlotsInv PROVE PoolBoundsProcesses
  <2>1. Uncontrolled \subseteq Held
    BY <1>1, PhaseTyped DEF Uncontrolled, Held, JobPhase, Early, Job, JobPc
  <2>2. Cardinality(Held) <= CapActive
    BY <1>1 DEF SlotsInv, Counted
  <2>3. Cardinality(Uncontrolled) <= Cardinality(Held) /\ Cardinality(Uncontrolled) \in Nat
    BY <2>1, Finite, FS_Subset, FS_CardinalityType
  <2> QED
    BY <2>1, <2>2, <2>3, Finite DEF PoolBoundsProcesses
<1> QED
  BY <1>1, PoolCounts, Inductive, ShellsUseThePool, PTL

\* The shells keep the pool's promises: their leases never exceed its capacity,
\* and no command overtakes one that waits, whoever cancels, times out or dies.
THEOREM ShellsSharePool == Spec => []LeasesFitCapacity /\ NoOvertaking
BY ShellsUseThePool, LeasesBounded, FirstComeFirstServed, PTL

\* Every variable of the shells keeps its type; a job has a process only once
\* it got its lease.
THEOREM ShellsTyped == Spec => []TypeOK
<1>1. JobsInv /\ OwnersInv /\ PoolTypeOK => TypeOK
  BY DEF JobsInv, JobsTyped, JobPhase, Early, OwnersInv, OwnersTyped, TypeOK
<1> QED
  BY <1>1, Inductive, ShellsUseThePool, PoolTyped, PTL

=============================================================================
