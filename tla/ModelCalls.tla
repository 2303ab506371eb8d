----------------------------- MODULE ModelCalls ------------------------------
(***************************************************************************)
(* Model requests of a run: the attempt lanes of a pass (Brain._chat in    *)
(* brain.py under execute_attempt in arena_main.py), the shared budget     *)
(* ledger, the gateway's dispatch threads (ModelGateway.complete), and the *)
(* provider, which is external: it charges what it likes up to its price,  *)
(* answers late, with or without usage data, or never.                     *)
(*                                                                         *)
(* A call is charged at most MaxPrice of its route, which is what          *)
(* _budget_request reserves (the catalogue estimate times 1.5 or 3, or the *)
(* opaque reserve), and a cost the provider states is the one it charges:  *)
(* ProviderAssumption.  An answer without usage data says nothing of its   *)
(* key, so its estimate may be below what a BYOK key was charged.          *)
(***************************************************************************)
EXTENDS BudgetLedger

CONSTANTS
  Lane,          \* the attempts a pass may run beside each other
  Route,         \* models a request can be sent to
  Cheap, Hard, Failover,  \* the configured, intended stronger and failover route
  ListPrice, MaxPrice,    \* by route: the estimate and the reservation
  MaxTurns,      \* Brain.max_steps
  NoId, NoRoute

ASSUME ProviderAssumption ==
  /\ {Cheap, Hard, Failover} \subseteq Route
  /\ ListPrice \in [Route -> Amount] /\ MaxPrice \in [Route -> Amount \ {0}]
  /\ \A r \in Route : ListPrice[r] <= MaxPrice[r]
  /\ MaxTurns \in Nat \ {0}
  /\ NoId \notin CallId /\ NoRoute \notin Route

ASSUME LanesAssumption == IsFiniteSet(Lane)

VARIABLES
  cap,           \* MODEL_BUDGET_USD of the running process
  stopped,       \* the coordinator has a stop_reason
  lane,          \* [Lane -> Slot]: the attempt in it, lost in a crash
  threads,       \* calls with a live dispatch thread in this process
  provider,      \* external: [CallId -> Fate]
  lost           \* history: timeouts this process's coordinator never heard of

vars == <<rows, limit, cap, stopped, lane, threads, provider, lost>>

\* "idle": not started in this pass; "open": between model requests; "routed":
\* before a reservation; "admitted": before the dispatch; "waiting": inside
\* outcome.get; "refused": the provider was unavailable; "rerouted": before the
\* failover's reservation; "readmitted": before its dispatch; "answered":
\* before the settlement; "budget", "timeout" and "failed": the attempt's error.
Pc == {"idle", "open", "routed", "admitted", "waiting", "refused", "rerouted",
       "readmitted", "answered", "budget", "timeout", "failed", "done"}

Provenance == {"measured", "estimated", "unknown"}

Slot == [pc : Pc, turns : 0 .. MaxTurns, route : Route \cup {NoRoute},
         call : CallId \cup {NoId}, provenance : Provenance]

EmptySlot == [pc |-> "idle", turns |-> 0, route |-> NoRoute, call |-> NoId,
              provenance |-> "unknown"]

Ended == [EmptySlot EXCEPT !.pc = "done"]

\* What became of a call outside the process: the provider may still charge an
\* "open" one.
Fate == [state : {"unsent", "open", "closed"}, route : Route \cup {NoRoute},
         charge : Amount \cup {0}]

Unsent == [state |-> "unsent", route |-> NoRoute, charge |-> 0]

Goto(w, pc) == lane' = [lane EXCEPT ![w].pc = pc]

-----------------------------------------------------------------------------
(* One model request of an attempt. *)

\* The Brain of a new attempt opens the ledger; a durable limit below the
\* process's own makes that raise and the attempt crash.  An attempt admitted
\* before the other lane stopped the run still starts.
Begin(w) ==
  /\ lane[w].pc = "idle"
  /\ \/ OpenLedger(cap) /\ Goto(w, "open")
     \/ limit # 0 /\ cap > limit /\ lane' = [lane EXCEPT ![w] = Ended] /\ UNCHANGED limit
  /\ UNCHANGED <<rows, cap, stopped, threads, provider, lost>>

\* _chat counts a turn.  On the first one it may pick the stronger route when
\* the snapshot it just read leaves room for its price.
Prepare(w) ==
  /\ lane[w].pc = "open" /\ lane[w].turns < MaxTurns
  /\ \E r \in Route :
       /\ IF lane[w].turns > 0 THEN r = lane[w].route
          ELSE r = Cheap \/ (r = Hard /\ Available(cap) >= MaxPrice[Hard])
       /\ lane' = [lane EXCEPT ![w].pc = "routed", ![w].turns = @ + 1, ![w].route = r]
  /\ UNCHANGED <<rows, limit, cap, stopped, threads, provider, lost>>

\* The ledger admits the call under a fresh identity.
Admit(w) ==
  /\ lane[w].pc \in {"routed", "rerouted"}
  /\ \E id \in CallId :
       /\ ReserveCall(cap, id, MaxPrice[lane[w].route])
       /\ lane' = [lane EXCEPT ![w].call = id,
                     ![w].pc = IF @ = "routed" THEN "admitted" ELSE "readmitted"]
  /\ UNCHANGED <<limit, cap, stopped, threads, provider, lost>>

Denied(w) ==
  /\ lane[w].pc \in {"routed", "rerouted"}
  /\ \E id \in CallId : BudgetExhausted(cap, id, MaxPrice[lane[w].route])

FirstChoice(w) ==
  lane[w].pc = "routed" /\ lane[w].turns = 1 /\ lane[w].route = Hard

\* A competing writer took the room the snapshot showed: the first turn goes
\* back to the configured route and reserves again.
Reroute(w) ==
  /\ Denied(w) /\ FirstChoice(w)
  /\ lane' = [lane EXCEPT ![w].route = Cheap]
  /\ UNCHANGED <<rows, limit, cap, stopped, threads, provider, lost>>

\* Variant: a refused first choice ends the attempt at once.
RefuseAtOnce(w) ==
  /\ Denied(w)
  /\ Goto(w, "budget")
  /\ UNCHANGED <<rows, limit, cap, stopped, threads, provider, lost>>

\* "model budget exhausted".
Refuse(w) ==
  /\ Denied(w) /\ ~FirstChoice(w)
  /\ Goto(w, "budget")
  /\ UNCHANGED <<rows, limit, cap, stopped, threads, provider, lost>>

\* LedgerCapacityError.
TableFull(w) ==
  /\ lane[w].pc \in {"routed", "rerouted"}
  /\ Cardinality(Recorded) >= MaxRecords
  /\ Goto(w, "failed")
  /\ UNCHANGED <<rows, limit, cap, stopped, threads, provider, lost>>

\* ModelGateway.complete starts its dispatch thread.
Dispatch(w) ==
  /\ lane[w].pc \in {"admitted", "readmitted"}
  /\ threads' = threads \cup {lane[w].call}
  /\ provider' = [provider EXCEPT ![lane[w].call] =
                    [state |-> "open", route |-> lane[w].route, charge |-> 0]]
  /\ Goto(w, "waiting")
  /\ UNCHANGED <<rows, limit, cap, stopped, lost>>

\* The attempt's deadline passed before the failover could be dispatched.
ReleaseFailover(w) ==
  /\ lane[w].pc = "readmitted"
  /\ ReleaseUnstarted(lane[w].call)
  /\ Goto(w, "failed")
  /\ UNCHANGED <<limit, cap, stopped, threads, provider, lost>>

\* The caller stops waiting; the thread stays.
Timeout(w) ==
  /\ lane[w].pc = "waiting"
  /\ Goto(w, "timeout")
  /\ UNCHANGED <<rows, limit, cap, stopped, threads, provider, lost>>

\* Variant: the refused call is taken for one that never ran.
FailOverForFree(w) ==
  /\ lane[w].pc = "refused"
  /\ \/ /\ lane[w].turns = 1 /\ MaxTurns > 2
        /\ ReleaseUnstarted(lane[w].call)
        /\ lane' = [lane EXCEPT ![w].pc = "rerouted", ![w].turns = 2, ![w].route = Failover]
     \/ Goto(w, "failed") /\ UNCHANGED rows
  /\ UNCHANGED <<limit, cap, stopped, threads, provider, lost>>

\* GatewayAvailabilityError on the first turn may be answered by one request
\* on the failover route; the refused call can still be billed and stays.
FailOver(w) ==
  /\ lane[w].pc = "refused"
  /\ \/ /\ lane[w].turns = 1 /\ MaxTurns > 2
        /\ lane' = [lane EXCEPT ![w].pc = "rerouted", ![w].turns = 2, ![w].route = Failover]
     \/ Goto(w, "failed")
  /\ UNCHANGED <<rows, limit, cap, stopped, threads, provider, lost>>

\* settle, then the observed model identity is checked.
Settle(w) ==
  LET s == lane[w]
      cost == IF s.provenance = "measured" THEN provider[s.call].charge ELSE ListPrice[s.route]
  IN  /\ s.pc = "answered"
      /\ IF s.provenance = "unknown" THEN UNCHANGED rows
         ELSE SettleCall(s.call, s.provenance, cost)
      /\ \E pc \in {"open", "failed"} :
           lane' = [lane EXCEPT ![w] = [s EXCEPT !.pc = pc, !.call = NoId, !.provenance = "unknown"]]
      /\ UNCHANGED <<limit, cap, stopped, threads, provider, lost>>

Over == {"open", "budget", "timeout", "failed"}

\* Variant: the coordinator does not notice an unresolved dispatch.
EndUnnoticed(w) ==
  /\ lane[w].pc \in Over
  /\ stopped' = (stopped \/ lane[w].pc = "budget")
  /\ lane' = [lane EXCEPT ![w] = Ended]
  /\ UNCHANGED <<rows, limit, cap, threads, provider, lost>>

\* The attempt ends: an error, no more turns, or the model stops.  note_result
\* hears its result and stops the run on an exhausted budget and on an
\* unresolved dispatch.
EndAttempt(w) ==
  /\ lane[w].pc \in Over
  /\ stopped' = (stopped \/ lane[w].pc \in {"budget", "timeout"})
  /\ lane' = [lane EXCEPT ![w] = Ended]
  /\ UNCHANGED <<rows, limit, cap, threads, provider, lost>>

\* What runs after the last request raises: closing the shell in Brain.solve's
\* finally, or the outcome's record.  The result is gone, whatever error it
\* named, and note_result hears of a crash.
CrashAttempt(w) ==
  /\ lane[w].pc \in Over
  /\ lost' = IF lane[w].pc = "timeout" THEN lost + 1 ELSE lost
  /\ lane' = [lane EXCEPT ![w] = Ended]
  /\ UNCHANGED <<rows, limit, cap, stopped, threads, provider>>

-----------------------------------------------------------------------------
(* The dispatch threads and the provider. *)

\* A thread puts its outcome in the queue and ends; a caller that timed out
\* never sees it.
ThreadEnds(id, pc, provenance) ==
  /\ threads' = threads \ {id}
  /\ lane' = [w \in Lane |->
       IF lane[w].pc = "waiting" /\ lane[w].call = id
         THEN [lane[w] EXCEPT !.pc = pc, !.provenance = provenance] ELSE lane[w]]

Charges(id, c) == provider' = [provider EXCEPT ![id].state = "closed", ![id].charge = c]

\* The provider finishes a call and the thread reads its response.  A cost it
\* states is measured; without one the call is estimated, unless its usage says
\* the key is BYOK, which a response without usage cannot.
Respond(id) ==
  LET r == provider[id].route IN
  /\ provider[id].state = "open" /\ id \in threads
  /\ \E c \in {ListPrice[r], MaxPrice[r]} : Charges(id, c)
  /\ \E p \in Provenance : ThreadEnds(id, "answered", p)
  /\ UNCHANGED <<rows, limit, cap, stopped, lost>>

\* The request fails for the thread: refused, or a transport or protocol error.
\* The provider may have charged it, or may still.
BreakOff(id) ==
  /\ id \in threads
  /\ \E pc \in {"refused", "failed"} : ThreadEnds(id, pc, "unknown")
  /\ UNCHANGED <<rows, limit, cap, stopped, provider, lost>>

\* The provider finishes a call unheard.
ChargeUnheard(id) ==
  /\ provider[id].state = "open"
  /\ \E c \in {0, MaxPrice[provider[id].route]} : Charges(id, c)
  /\ UNCHANGED <<rows, limit, cap, stopped, lane, threads, lost>>

-----------------------------------------------------------------------------
(* Passes and the process. *)

\* Every lane returned and the run goes on.
NextPass ==
  /\ \A w \in Lane : lane[w].pc \in {"idle", "done"}
  /\ ~stopped
  /\ lane' = [w \in Lane |-> EmptySlot]
  /\ UNCHANGED <<rows, limit, cap, stopped, threads, provider, lost>>

\* The process ends at any point; a later one may have another limit.
Restart ==
  /\ cap' \in Limit
  /\ stopped' = FALSE
  /\ lane' = [w \in Lane |-> EmptySlot]
  /\ threads' = {} /\ lost' = 0
  /\ UNCHANGED <<rows, limit, provider>>

Init ==
  /\ LedgerInit
  /\ cap \in Limit
  /\ stopped = FALSE
  /\ lane = [w \in Lane |-> EmptySlot]
  /\ threads = {} /\ lost = 0
  /\ provider = [id \in CallId |-> Unsent]

LaneStep(w) ==
  \/ Begin(w) \/ Prepare(w) \/ Admit(w) \/ Reroute(w) \/ Refuse(w) \/ TableFull(w)
  \/ Dispatch(w) \/ ReleaseFailover(w) \/ Timeout(w) \/ FailOver(w) \/ Settle(w)
  \/ EndAttempt(w) \/ CrashAttempt(w)

Next ==
  \/ \E w \in Lane : LaneStep(w)
  \/ \E id \in CallId : Respond(id) \/ BreakOff(id) \/ ChargeUnheard(id)
  \/ NextPass
  \/ Restart

Spec == Init /\ [][Next]_vars

-----------------------------------------------------------------------------
(* Properties. *)

\* Type invariant of the process, its attempts and the provider.
TypeOK ==
  /\ LedgerTypeOK
  /\ cap \in Limit /\ stopped \in BOOLEAN
  /\ lane \in [Lane -> Slot]
  /\ threads \in SUBSET CallId
  /\ provider \in [CallId -> Fate]
  /\ lost \in Nat

\* What the provider has charged or may still charge for a call.
Exposure(id) ==
  IF provider[id].state = "open" THEN MaxPrice[provider[id].route] ELSE provider[id].charge

TotalExposure == MapThenSumSet(Exposure, CallId)

\* What an estimate gave back of a reservation the provider may have charged.
Understated(row) == IF row.state = "estimated" THEN row.reserved - row.settled ELSE 0

TotalUnderstated == MapThenSumSet(LAMBDA id : Understated(rows[id]), CallId)

\* The ledger never counts less for a call than the provider did or can charge,
\* through timeouts, failover, lost answers and restarts.  Only a call settled
\* by estimate may have cost more, and never more than was reserved for it.
ChargesCovered ==
  \A id \in CallId : Exposure(id) <= Counted(rows[id]) + Understated(rows[id])

\* Whenever a request leaves, everything charged or chargeable so far exceeds
\* the durable limit by no more than the estimates gave back, however lanes,
\* restarts and lowered limits interleave.
DispatchesFitTheLimit ==
  [][\A id \in CallId : provider[id].state = "unsent" /\ provider'[id].state = "open" =>
       TotalExposure' <= limit + TotalUnderstated']_vars

\* Unresolved dispatches do not pile up: a process has no more live dispatch
\* threads than lanes and lost timeouts, because an unresolved one the
\* coordinator hears of ends the run.
ThreadsBounded == Cardinality(threads) <= Cardinality(Lane) + lost

\* The coordinator stops the process instead of starting another pass beside an
\* unresolved dispatch, as docs/model-gateway.md says.
NoPassBesideUnresolved == (\A w \in Lane : lane[w].pc = "idle") => threads = {}

\* A first turn gives up on the budget only if the configured route does not
\* fit either, whatever the other lane reserved after the snapshot was read.
BudgetStopIsEarned ==
  [][\A w \in Lane : lane[w].turns = 1 /\ lane[w].pc = "routed" /\ lane'[w].pc = "budget" =>
       Committed + MaxPrice[Cheap] > limit]_vars

=============================================================================
