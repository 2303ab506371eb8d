----------------------------- MODULE ManagedShells ---------------------------
(***************************************************************************)
(* The shells of the attempts that run beside each other: ManagedShell of  *)
(* agent_ext/managed_shell.py under _StatefulShell of arena_main.py.  Each *)
(* shell belongs to one attempt thread, which starts, polls, cancels and   *)
(* closes; each job has an executor thread and a process of its own; all   *)
(* executors share the tool pool, where a job is the Caller.               *)
(*                                                                         *)
(* Every wait of the code has a time limit, so a wait is two actions that  *)
(* compete: what is waited for, or the limit.  A killed process may stay   *)
(* for as long as the kernel likes.                                        *)
(***************************************************************************)
EXTENDS Admission

CONSTANTS
  Shell,         \* attempts, each in a scope of its own
  Command,       \* command lines
  CostOf,        \* [Command -> Cost]: _heavy and the Cost of _new_job
  MaxHandles,    \* _MAX_HANDLES
  NoShell, NoCommand, NoJob

ASSUME ShellAssumption ==
  /\ CostOf \in [Command -> Cost]
  /\ MaxHandles \in Nat \ {0}
  /\ NoShell \notin Shell /\ NoCommand \notin Command /\ NoJob \notin Caller

VARIABLES
  job,           \* [Caller -> Job]: a handle's job and its executor thread
  process,       \* [Caller -> Process]: the job's process
  handles,       \* [Shell -> SUBSET Caller]: ManagedShell._jobs
  commands,      \* [Shell -> SUBSET Caller]: _StatefulShell._commands
  saved,         \* [Shell -> SUBSET Saved]: durable outcomes of the scope
  shell          \* [Shell -> Owner]: the attempt thread

owners == <<handles, commands, saved, shell>>
vars == <<pool, job, process, owners>>

\* "new": before the admission; "leaving": inside the `with`, after the output
\* loop; "killing": after the lease, before the final kill; "reaping": after it.
JobPc == {"free", "new", "waiting", "leased", "running", "leaving", "killing",
          "reaping", "done"}

Job == [pc : JobPc, shell : Shell \cup {NoShell}, cmd : Command \cup {NoCommand},
        cancelled : BOOLEAN, reaped : BOOLEAN]

NotAJob == [pc |-> "free", shell |-> NoShell, cmd |-> NoCommand,
            cancelled |-> FALSE, reaped |-> FALSE]

\* "dying": killed and not gone yet.
Process == {"none", "live", "dying", "exited"}

\* What a saved outcome holds: the projection of a job that ended, or only the
\* error string of a call.
Saved == Command \X {"result", "error"}

\* "calling" to "draining" wait for `job`; "draining" is a cancel of close.
OwnerPc == {"open", "calling", "stopping", "cancelling", "closing", "draining",
            "shutting", "closed", "failed"}

Owner == [pc : OwnerPc, job : Caller \cup {NoJob}, raised : BOOLEAN]

Killed(p) == IF p = "live" THEN "dying" ELSE p

Finished(j) == job[j].pc = "done" /\ job[j].reaped

-----------------------------------------------------------------------------
(* The executor thread of a job: _execute. *)

Moves(j, pc) == job' = [job EXCEPT ![j].pc = pc]

\* The deadline, the confinement check or the pool refuses the job.
TurnedAway(j) ==
  /\ job[j].pc = "new"
  /\ Moves(j, "killing")
  /\ UNCHANGED <<pool, process, owners>>

Asks(j) ==
  /\ job[j].pc = "new" /\ ~job[j].cancelled
  /\ Enter(j, CostOf[job[j].cmd])
  /\ Moves(j, IF claim'[j].state = "held" THEN "leased" ELSE "waiting")
  /\ UNCHANGED <<process, owners>>

Granted(j) ==
  /\ job[j].pc = "waiting" /\ ~job[j].cancelled
  /\ Grant(j)
  /\ Moves(j, "leased")
  /\ UNCHANGED <<process, owners>>

\* Cancelled, or past the deadline, while it waits.
Abandons(j) ==
  /\ job[j].pc = "waiting"
  /\ Leave(j)
  /\ Moves(j, "killing")
  /\ UNCHANGED <<process, owners>>

Spawn(j) ==
  /\ job[j].pc = "leased"
  /\ \/ process' = [process EXCEPT ![j] = "live"] /\ Moves(j, "running")
     \/ UNCHANGED process /\ Moves(j, "leaving")      \* OSError
  /\ UNCHANGED <<pool, owners>>

\* The output loop ends: the process is gone, or it is killed (cancelled, past
\* the deadline, over the output limit), or an OSError leaves it alone.
LoopEnds(j) ==
  /\ job[j].pc = "running"
  /\ process' \in {process, [process EXCEPT ![j] = Killed(@)]}
  /\ Moves(j, "leaving")
  /\ UNCHANGED <<pool, owners>>

\* Two seconds for the process, then the `with` releases the lease.
GiveBack(j) ==
  /\ job[j].pc = "leaving"
  /\ Release(j)
  /\ Moves(j, "killing")
  /\ UNCHANGED <<process, owners>>

\* Variant: only a process that was stopped on purpose is killed.
KillCancelled(j) ==
  /\ job[j].pc = "killing"
  /\ process' = [process EXCEPT ![j] = IF job[j].cancelled THEN Killed(@) ELSE @]
  /\ Moves(j, "reaping")
  /\ UNCHANGED <<pool, owners>>

\* _execute's finally, which ends whatever the loop left alive.
KillRest(j) ==
  /\ job[j].pc = "killing"
  /\ process' = [process EXCEPT ![j] = Killed(@)]
  /\ Moves(j, "reaping")
  /\ UNCHANGED <<pool, owners>>

\* Variant: the executor waits for the process however long it takes.
ReapPatiently(j) ==
  /\ job[j].pc = "reaping" /\ process[j] # "dying"
  /\ job' = [job EXCEPT ![j].pc = "done", ![j].reaped = TRUE]
  /\ UNCHANGED <<pool, process, owners>>

\* The process is reaped, or stays and the cleanup has failed.
Reap(j) ==
  /\ job[j].pc = "reaping"
  /\ job' = [job EXCEPT ![j].pc = "done", ![j].reaped = @ \/ process[j] # "dying"]
  /\ UNCHANGED <<pool, process, owners>>

\* External: the process ends, by itself or because it was killed.
Exits(j) ==
  /\ process[j] \in {"live", "dying"}
  /\ process' = [process EXCEPT ![j] = "exited"]
  /\ UNCHANGED <<pool, job, owners>>

-----------------------------------------------------------------------------
(* The attempt thread between two tool calls. *)

Goto(s, pc) == shell' = [shell EXCEPT ![s].pc = pc]

WaitsFor(s, pc, j) == shell' = [shell EXCEPT ![s].pc = pc, ![s].job = j]

\* lookup: the scope has an outcome for the command.
Seen(s) == {o[1] : o \in saved[s]}

\* record: the first outcome of a command stays.
Outcome(s, c, what) ==
  saved' = [saved EXCEPT ![s] = IF c \in Seen(s) THEN @ ELSE @ \cup {<<c, what>>}]

\* Variant: pending commands are not looked up.
DuplicateOfSaved(s, c) == c \in Seen(s)

Duplicate(s, c) == c \in Seen(s) \/ \E j \in commands[s] : job[j].cmd = c

NewJob(s, j, c) ==
  /\ job[j].pc = "free" /\ Cardinality(handles[s]) < MaxHandles
  /\ job' = [job EXCEPT ![j] = [NotAJob EXCEPT !.pc = "new", !.shell = s, !.cmd = c]]
  /\ handles' = [handles EXCEPT ![s] = @ \cup {j}]
  /\ UNCHANGED <<pool, process>>

\* run_bash: a job to wait for, or "error:shell handle limit reached", which is
\* recorded like any output.
Call(s, c) ==
  /\ shell[s].pc = "open" /\ ~Duplicate(s, c)
  /\ \/ \E j \in Caller : NewJob(s, j, c) /\ WaitsFor(s, "calling", j) /\ UNCHANGED saved
     \/ /\ Cardinality(handles[s]) >= MaxHandles
        /\ Outcome(s, c, "error")
        /\ UNCHANGED <<pool, job, process, handles, shell>>
  /\ UNCHANGED commands

\* start_bash with a handle to spare; an error string changes nothing.
Start(s, c) ==
  /\ shell[s].pc = "open" /\ ~Duplicate(s, c)
  /\ \E j \in Caller : NewJob(s, j, c) /\ commands' = [commands EXCEPT ![s] = @ \cup {j}]
  /\ UNCHANGED <<saved, shell>>

\* Forget the handle, and record what the command printed, when it is pending or
\* was called.
Collect(s, j, called) ==
  /\ handles' = [handles EXCEPT ![s] = @ \ {j}]
  /\ commands' = [commands EXCEPT ![s] = @ \ {j}]
  /\ IF called \/ j \in commands[s] THEN Outcome(s, job[j].cmd, "result") ELSE UNCHANGED saved

\* Variant: the handle is forgotten before the job is known to be reaped.
PollForgets(s, j) ==
  /\ shell[s].pc = "open" /\ j \in handles[s] /\ job[j].pc = "done"
  /\ Collect(s, j, FALSE)
  /\ IF job[j].reaped THEN UNCHANGED shell ELSE Goto(s, "closing")
  /\ UNCHANGED <<pool, job, process>>

\* poll_bash of a finished job; "running:" changes nothing, and a job that was
\* not reaped raises, which ends the attempt.
Poll(s, j) ==
  /\ shell[s].pc = "open" /\ j \in handles[s] /\ job[j].pc = "done"
  /\ IF job[j].reaped
       THEN Collect(s, j, FALSE) /\ UNCHANGED shell
       ELSE Goto(s, "closing") /\ UNCHANGED <<handles, commands, saved>>
  /\ UNCHANGED <<pool, job, process>>

\* poll_bash with a wait above five seconds answers an error string, which the
\* outer shell takes for the command's output.
PollTooLong(s, j) ==
  /\ shell[s].pc = "open" /\ j \in commands[s]
  /\ commands' = [commands EXCEPT ![s] = @ \ {j}]
  /\ Outcome(s, job[j].cmd, "error")
  /\ UNCHANGED <<pool, job, process, handles, shell>>

\* Set the flag and kill what has been spawned so far.
Stopping(js) ==
  /\ job' = [j \in Caller |-> IF j \in js THEN [job[j] EXCEPT !.cancelled = TRUE] ELSE job[j]]
  /\ process' = [j \in Caller |-> IF j \in js THEN Killed(process[j]) ELSE process[j]]

Cancel(s, j) ==
  /\ shell[s].pc = "open" /\ j \in handles[s]
  /\ Stopping({j})
  /\ WaitsFor(s, "cancelling", j)
  /\ UNCHANGED <<pool, handles, commands, saved>>

\* A called job is still not done two seconds after its deadline.
CallOverdue(s) ==
  /\ shell[s].pc = "calling" /\ job[shell[s].job].pc # "done"
  /\ Stopping({shell[s].job})
  /\ Goto(s, "stopping")
  /\ UNCHANGED <<pool, handles, commands, saved>>

AfterWait(s) == IF shell[s].pc = "draining" THEN "closing" ELSE "open"

\* The job waited for is done and reaped: its output is returned.
Returns(s) ==
  LET j == shell[s].job IN
  /\ shell[s].pc \in {"calling", "stopping", "cancelling", "draining"} /\ Finished(j)
  /\ Collect(s, j, shell[s].pc \in {"calling", "stopping"})
  /\ WaitsFor(s, AfterWait(s), NoJob)
  /\ UNCHANGED <<pool, job, process>>

\* "shell job cleanup failed": not reaped, or not done in time.
Raises(s) ==
  LET pc == shell[s].pc
      j  == shell[s].job
  IN  /\ \/ pc \in {"calling", "stopping", "cancelling", "draining"}
            /\ job[j].pc = "done" /\ ~job[j].reaped
         \/ pc \in {"stopping", "cancelling", "draining"} /\ job[j].pc # "done"
      /\ IF pc = "draining"
           THEN /\ Stopping(handles[s])
                /\ shell' = [shell EXCEPT ![s] = [pc |-> "shutting", job |-> NoJob, raised |-> TRUE]]
           ELSE WaitsFor(s, "closing", NoJob) /\ UNCHANGED <<job, process>>
      /\ UNCHANGED <<pool, handles, commands, saved>>

-----------------------------------------------------------------------------
(* The end of an attempt: _StatefulShell.close, from Brain.solve and again     *)
(* from execute_attempt.                                                       *)

EndAttempt(s) ==
  /\ shell[s].pc \in {"open", "failed"}
  /\ shell' = [shell EXCEPT ![s].pc = "closing", ![s].raised = FALSE]
  /\ UNCHANGED <<pool, job, process, handles, commands, saved>>

\* Each pending command is cancelled and recorded, one after the other; a handle
\* the inner shell has dropped already answers an error string.
Drain(s, j) ==
  /\ shell[s].pc = "closing" /\ j \in commands[s]
  /\ \/ /\ j \in handles[s]
        /\ Stopping({j})
        /\ WaitsFor(s, "draining", j)
        /\ UNCHANGED <<commands, saved>>
     \/ /\ j \notin handles[s]
        /\ commands' = [commands EXCEPT ![s] = @ \ {j}]
        /\ Outcome(s, job[j].cmd, "error")
        /\ UNCHANGED <<job, process, shell>>
  /\ UNCHANGED <<pool, handles>>

\* ManagedShell.close stops what is left.
Shut(s) ==
  /\ shell[s].pc = "closing" /\ commands[s] = {}
  /\ Stopping(handles[s])
  /\ Goto(s, "shutting")
  /\ UNCHANGED <<pool, handles, commands, saved>>

\* It reaps a process itself when the executor is late.
ShutReaps(s, j) ==
  /\ shell[s].pc = "shutting" /\ j \in handles[s] /\ ~Finished(j)
  /\ process[j] = "exited"
  /\ job' = [job EXCEPT ![j].reaped = TRUE]
  /\ UNCHANGED <<pool, process, owners>>

\* Variant: a reaped process is taken for a finished job.
CloseTrustsReaped(s) ==
  LET unfinished == {j \in handles[s] : ~job[j].reaped}
  IN  /\ shell[s].pc = "shutting"
      /\ handles' = [handles EXCEPT ![s] = unfinished]
      /\ Goto(s, IF unfinished = {} /\ ~shell[s].raised THEN "closed" ELSE "failed")
      /\ UNCHANGED <<pool, job, process, commands, saved>>

\* Variant: close waits until every job is finished.
ClosePatiently(s) ==
  /\ shell[s].pc = "shutting" /\ \A j \in handles[s] : Finished(j)
  /\ handles' = [handles EXCEPT ![s] = {}]
  /\ Goto(s, IF ~shell[s].raised THEN "closed" ELSE "failed")
  /\ UNCHANGED <<pool, job, process, commands, saved>>

\* Every job is finished or has had its time; unfinished ones stay registered
\* and make close raise.
CloseReturns(s) ==
  LET unfinished == {j \in handles[s] : ~Finished(j)}
  IN  /\ shell[s].pc = "shutting"
      /\ handles' = [handles EXCEPT ![s] = unfinished]
      /\ Goto(s, IF unfinished = {} /\ ~shell[s].raised THEN "closed" ELSE "failed")
      /\ UNCHANGED <<pool, job, process, commands, saved>>

-----------------------------------------------------------------------------
Init ==
  /\ PoolInit
  /\ job = [j \in Caller |-> NotAJob]
  /\ process = [j \in Caller |-> "none"]
  /\ handles = [s \in Shell |-> {}]
  /\ commands = [s \in Shell |-> {}]
  /\ saved = [s \in Shell |-> {}]
  /\ shell = [s \in Shell |-> [pc |-> "open", job |-> NoJob, raised |-> FALSE]]

Executor(j) ==
  \/ TurnedAway(j) \/ Asks(j) \/ Granted(j) \/ Abandons(j) \/ Spawn(j)
  \/ LoopEnds(j) \/ GiveBack(j) \/ KillRest(j) \/ Reap(j)

\* What the model asks for, and what it gets to see.
ToolCall(s) ==
  \/ \E c \in Command : Call(s, c) \/ Start(s, c)
  \/ \E j \in Caller : Poll(s, j) \/ PollTooLong(s, j) \/ Cancel(s, j)

Waits(s) == CallOverdue(s) \/ Returns(s) \/ Raises(s)

Closes(s) ==
  \/ Shut(s) \/ CloseReturns(s)
  \/ \E j \in Caller : Drain(s, j) \/ ShutReaps(s, j)

Next ==
  \/ \E j \in Caller : Executor(j) \/ Exits(j)
  \/ \E s \in Shell : ToolCall(s) \/ Waits(s) \/ EndAttempt(s) \/ Closes(s)

Spec == Init /\ [][Next]_vars

\* Threads run, and time limits pass.  No process is assumed ever to exit.
FairSpec ==
  /\ Spec
  /\ \A j \in Caller : WF_vars(Executor(j))
  /\ \A s \in Shell : WF_vars(Waits(s)) /\ WF_vars(Closes(s))

-----------------------------------------------------------------------------
(* Properties. *)

\* Type invariant of the shells, their jobs and the pool.
TypeOK ==
  /\ PoolTypeOK
  /\ job \in [Caller -> Job]
  /\ process \in [Caller -> Process]
  /\ \A j \in Caller : process[j] # "none" =>
        job[j].pc \notin {"free", "new", "waiting", "leased"}
  /\ handles \in [Shell -> SUBSET Caller]
  /\ commands \in [Shell -> SUBSET Caller]
  /\ saved \in [Shell -> SUBSET Saved]
  /\ shell \in [Shell -> Owner]

\* When close returns without raising, nothing of the attempt is left: every job
\* is finished, no process runs, no ticket and no lease is out.
ClosedShellIsQuiet ==
  \A s \in Shell, j \in Caller :
    shell[s].pc = "closed" /\ job[j].shell = s =>
      Finished(j) /\ process[j] \in {"none", "exited"} /\ j \notin Waiting \cup Held

\* A job that may still have a thread or a process can always be found by close.
NoJobForgotten ==
  \A j \in Caller : job[j].pc # "free" /\ ~Finished(j) => j \in handles[job[j].shell]

\* An exact command is executed at most once in a scope, however starts, calls,
\* polls and cancellations follow each other.
NoReplay ==
  \A j, k \in Caller :
    job[j].pc # "free" /\ job[k].pc # "free"
    /\ job[j].shell = job[k].shell /\ job[j].cmd = job[k].cmd => j = k

\* The pool bounds what really runs: a process outside a lease has been killed or
\* is about to be.
Uncontrolled == {j \in Caller : process[j] = "live" /\ job[j].pc # "killing"}

PoolBoundsProcesses ==
  /\ Uncontrolled \subseteq Held
  /\ Cardinality(Uncontrolled) <= CapActive

\* Neither a full pool nor a process that cannot be killed keeps an executor, and
\* so its slot, or a tool call, a cancellation or a close, waiting for ever.
EveryJobEnds == \A j \in Caller : job[j].pc # "free" ~> job[j].pc = "done"

EveryWaitEnds ==
  \A s \in Shell : shell[s].pc # "open" ~> shell[s].pc \in {"open", "closed", "failed"}

\* agent_ext/runtime_state.py of lookup: "Return whether an exact command already
\* ran in this current scope."  So what is recorded for lookup is the outcome of a
\* job that was given the command and has ended.
SeenMeansRan ==
  [][\A s \in Shell : \A o \in saved'[s] \ saved[s] :
       \E j \in Caller : job[j].shell = s /\ job[j].cmd = o[1] /\ job[j].pc = "done"]_vars

=============================================================================
