----------------------------- MODULE BudgetLedger ----------------------------
(***************************************************************************)
(* The model-call budget of agent_ext/model_gateway.py: a durable table of *)
(* calls and the durable limit beside it, both in one SQLite file.         *)
(*                                                                         *)
(* Every operation is one BEGIN IMMEDIATE transaction, so each is one      *)
(* atomic action.  Several BudgetLedger objects share the file: each has   *)
(* its own limit, the parameter `mine` here.  Money is counted in units.   *)
(***************************************************************************)
EXTENDS Naturals, FiniteSets, FiniteSetsExt

CONSTANTS
  CallId,        \* call identities
  Limit,         \* the limits a ledger may be opened with
  Amount,        \* reservations and costs
  MaxRecords     \* max_records

ASSUME LedgerAssumption ==
  /\ IsFiniteSet(CallId)
  /\ Limit \subseteq Nat \ {0}
  /\ Amount \subseteq Nat
  /\ MaxRecords \in Nat \ {0}

VARIABLES
  rows,          \* the table model_budget_calls
  limit          \* model_budget_meta "limit"; 0 before the first ledger

CallState == {"absent", "reserved", "estimated", "measured", "released"}

CallRow == [state : CallState, reserved : Amount \cup {0}, settled : Amount \cup {0}]

NoCall == [state |-> "absent", reserved |-> 0, settled |-> 0]

-----------------------------------------------------------------------------
(* Reads. *)

\* What one row counts for in _totals.
Counted(row) ==
  CASE row.state = "reserved"                  -> row.reserved
    [] row.state \in {"measured", "estimated"} -> row.settled
    [] row.state \in {"absent", "released"}    -> 0

Committed == MapThenSumSet(LAMBDA id : Counted(rows[id]), CallId)

Recorded == {id \in CallId : rows[id].state # "absent"}

\* Variant: an instance trusts the limit it was opened with.
OwnLimit(mine) == mine

EffectiveLimit(mine) == IF limit < mine THEN limit ELSE mine

Available(mine) ==
  IF EffectiveLimit(mine) > Committed THEN EffectiveLimit(mine) - Committed ELSE 0

\* reserve raises LedgerCapacityError.
LedgerFull(id) == rows[id].state = "absent" /\ Cardinality(Recorded) >= MaxRecords

\* reserve answers budget_exhausted.
BudgetExhausted(mine, id, maximum) ==
  /\ rows[id].state = "absent" /\ ~LedgerFull(id)
  /\ Committed + maximum > EffectiveLimit(mine)

-----------------------------------------------------------------------------
(* Writes. *)

\* _initialise: the limit is stored once and may only be lowered afterwards; an
\* attempt to raise it is refused with ValueError.
OpenLedger(mine) ==
  /\ limit = 0 \/ mine <= limit
  /\ limit' = mine

\* Variant: only what is already settled counts against the limit.
ReserveAgainstSettled(mine, id, maximum) ==
  /\ rows[id].state = "absent" /\ ~LedgerFull(id)
  /\ MapThenSumSet(LAMBDA i : rows[i].settled, CallId) + maximum <= EffectiveLimit(mine)
  /\ rows' = [rows EXCEPT ![id] = [state |-> "reserved", reserved |-> maximum, settled |-> 0]]

\* reserve admits a new call.  A replayed call_id changes nothing.
ReserveCall(mine, id, maximum) ==
  /\ rows[id].state = "absent" /\ ~LedgerFull(id)
  /\ Committed + maximum <= EffectiveLimit(mine)
  /\ rows' = [rows EXCEPT ![id] = [state |-> "reserved", reserved |-> maximum, settled |-> 0]]

\* Variant: the last settlement wins, even over a measurement.
SettlesAlways(row, provenance) == provenance # "unknown" /\ row.state # "absent"

\* Which settlements settle writes: the first one, and a measurement over an
\* estimate.  Unknown costs, repetitions, contradictions of a measurement and
\* settlements of a released call leave the row alone.
Settles(row, provenance) ==
  \/ row.state = "reserved" /\ provenance # "unknown"
  \/ row.state = "estimated" /\ provenance = "measured"

SettleCall(id, provenance, cost) ==
  /\ Settles(rows[id], provenance)
  /\ rows' = [rows EXCEPT ![id].state = provenance, ![id].settled = cost]

\* release_unstarted, answering True.
ReleaseUnstarted(id) ==
  /\ rows[id].state = "reserved"
  /\ rows' = [rows EXCEPT ![id].state = "released"]

LedgerInit ==
  /\ rows = [id \in CallId |-> NoCall]
  /\ limit = 0

LedgerTypeOK ==
  /\ rows \in [CallId -> CallRow]
  /\ limit \in Limit \cup {0}

=============================================================================
