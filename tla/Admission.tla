------------------------------- MODULE Admission -----------------------------
(***************************************************************************)
(* The local-tool pool of agent_ext/resources.py, shared by every shell of *)
(* the process: a FIFO of tickets and four counters under one condition    *)
(* variable.  A critical section that does not wait is one atomic action;  *)
(* acquire is two, split at _condition.wait, which the code leaves on any  *)
(* notification and every 20 milliseconds.                                 *)
(***************************************************************************)
EXTENDS Naturals, Sequences, FiniteSets, FiniteSetsExt

CONSTANTS
  Caller,        \* threads that run a tool
  Cost,          \* estimates a caller may ask for
  CapActive, CapHeavy, CapMemory, CapPids, CapQueued   \* Capacity

ASSUME CapacityAssumption ==
  /\ {CapActive, CapHeavy, CapMemory, CapPids, CapQueued} \subseteq Nat \ {0}
  /\ CapHeavy <= CapActive
  /\ Cost \subseteq [memory : Nat \ {0}, pids : Nat \ {0}, heavy : {0, 1}]
  /\ IsFiniteSet(Caller)

VARIABLES
  queue,                        \* tickets, by the caller that holds them
  active, heavy, memory, pids,  \* what the leases handed out add up to
  claim                         \* [Caller -> Claim]: the caller's last acquire

pool == <<queue, active, heavy, memory, pids, claim>>

NoCost == [memory |-> 0, pids |-> 0, heavy |-> 0]

\* "held" and "released" are the two states of a Lease.
Claim == [state : {"none", "waiting", "held", "released"}, cost : Cost \cup {NoCost}]

-----------------------------------------------------------------------------
(* Reads. *)

Fits(cost) ==
  /\ active < CapActive
  /\ heavy + cost.heavy <= CapHeavy
  /\ memory + cost.memory <= CapMemory
  /\ pids + cost.pids <= CapPids

\* Variant: a request that can never fit is queued like any other.
RefusesOnlyFull(cost) == Len(queue) >= CapQueued

\* "cost_exceeds_capacity" and "queue_full".
Refuses(cost) ==
  \/ cost.memory > CapMemory \/ cost.pids > CapPids
  \/ Len(queue) >= CapQueued

\* The queue without a caller's ticket.
Without(c) ==
  LET at == CHOOSE i \in DOMAIN queue : queue[i] = c
  IN  [j \in 1..Len(queue) - 1 |-> IF j < at THEN queue[j] ELSE queue[j + 1]]

-----------------------------------------------------------------------------
(* Writes. *)

Take(c, cost) ==
  /\ active' = active + 1
  /\ heavy' = heavy + cost.heavy
  /\ memory' = memory + cost.memory
  /\ pids' = pids + cost.pids
  /\ claim' = [claim EXCEPT ![c] = [state |-> "held", cost |-> cost]]

Wait(c, cost) ==
  /\ queue' = Append(queue, c)
  /\ claim' = [claim EXCEPT ![c] = [state |-> "waiting", cost |-> cost]]
  /\ UNCHANGED <<active, heavy, memory, pids>>

\* Variant: a newcomer whose cost fits does not look at the queue.
EnterAhead(c, cost) ==
  /\ claim[c].state \notin {"waiting", "held"}
  /\ ~Refuses(cost)
  /\ IF Fits(cost) THEN Take(c, cost) /\ UNCHANGED queue ELSE Wait(c, cost)

\* acquire up to its first wait: the ticket is appended and, when it is the head
\* and the cost fits, handed out and removed in the same critical section.
Enter(c, cost) ==
  /\ claim[c].state \notin {"waiting", "held"}
  /\ ~Refuses(cost)
  /\ IF queue = <<>> /\ Fits(cost) THEN Take(c, cost) /\ UNCHANGED queue ELSE Wait(c, cost)

\* A waiter wakes up at the head of the queue and its cost fits.
Grant(c) ==
  /\ claim[c].state = "waiting"
  /\ Head(queue) = c /\ Fits(claim[c].cost)
  /\ Take(c, claim[c].cost)
  /\ queue' = Tail(queue)

\* A waiter wakes up cancelled or past its deadline; finally drops its ticket.
Leave(c) ==
  /\ claim[c].state = "waiting"
  /\ queue' = Without(c)
  /\ claim' = [claim EXCEPT ![c] = [state |-> "none", cost |-> NoCost]]
  /\ UNCHANGED <<active, heavy, memory, pids>>

\* Variant: a lease gives back its cost each time it is released.
ReleaseAgain(c) ==
  /\ claim[c].state \in {"held", "released"}
  /\ active' = active - 1
  /\ heavy' = heavy - claim[c].cost.heavy
  /\ memory' = memory - claim[c].cost.memory
  /\ pids' = pids - claim[c].cost.pids
  /\ claim' = [claim EXCEPT ![c].state = "released"]
  /\ UNCHANGED queue

\* Lease.release, which may be called again.
Release(c) ==
  \/ /\ claim[c].state = "held"
     /\ active' = active - 1
     /\ heavy' = heavy - claim[c].cost.heavy
     /\ memory' = memory - claim[c].cost.memory
     /\ pids' = pids - claim[c].cost.pids
     /\ claim' = [claim EXCEPT ![c].state = "released"]
     /\ UNCHANGED queue
  \/ claim[c].state = "released" /\ UNCHANGED pool

PoolInit ==
  /\ queue = <<>>
  /\ active = 0 /\ heavy = 0 /\ memory = 0 /\ pids = 0
  /\ claim = [c \in Caller |-> [state |-> "none", cost |-> NoCost]]

Held == {c \in Caller : claim[c].state = "held"}
HeldHeavy == {c \in Held : claim[c].cost.heavy = 1}
Waiting == {c \in Caller : claim[c].state = "waiting"}

\* The units of memory and the process slots that are out, one by one.
MemoryOut == UNION {{c} \X (1..claim[c].cost.memory) : c \in Held}
PidsOut == UNION {{c} \X (1..claim[c].cost.pids) : c \in Held}

\* The counters are the sizes of the code's integers, never below zero.
PoolTypeOK ==
  /\ queue \in Seq(Caller)
  /\ {active, heavy, memory, pids} \subseteq Nat
  /\ claim \in [Caller -> Claim]

-----------------------------------------------------------------------------
(* Properties. *)

\* Whatever enters, leaves and is released twice, the leases really out never
\* exceed the concurrent tools, the heavy ones, the memory and the processes the
\* pool was sized for.
LeasesFitCapacity ==
  /\ Cardinality(Held) <= CapActive
  /\ Cardinality(HeldHeavy) <= CapHeavy
  /\ Cardinality(MemoryOut) <= CapMemory
  /\ Cardinality(PidsOut) <= CapPids

\* First come, first served, for costs that do not fit as well: a lease is only
\* handed out when everyone who was waiting before has gone.
Before(c, d) ==
  \E i \in DOMAIN queue : queue[i] = c /\ \A j \in DOMAIN queue : queue[j] = d => i < j

NoOvertaking ==
  [][\A c \in Held' \ Held : \A d \in Waiting \ {c} : Before(c, d)]_pool

=============================================================================
