--------------------------- MODULE BudgetInstances ---------------------------
(***************************************************************************)
(* The budget ledger of model_gateway.py under any callers: several ledger *)
(* objects over one file, opened with different limits at any time, whose  *)
(* reservations, late or repeated settlements and releases interleave.     *)
(***************************************************************************)
EXTENDS BudgetLedger

CONSTANT Instance   \* BudgetLedger objects, of one process or of several

VARIABLE own        \* [Instance -> limit it was opened with, 0 when not open]

vars == <<rows, limit, own>>

Opened == {i \in Instance : own[i] # 0}

Open(i, mine) ==
  /\ own[i] = 0
  /\ OpenLedger(mine)
  /\ own' = [own EXCEPT ![i] = mine]
  /\ UNCHANGED rows

Reserve(i, id, maximum) ==
  /\ i \in Opened
  /\ ReserveCall(own[i], id, maximum)
  /\ UNCHANGED <<limit, own>>

Settle(i, id, provenance, cost) ==
  /\ i \in Opened
  /\ SettleCall(id, provenance, cost)
  /\ UNCHANGED <<limit, own>>

Release(i, id) ==
  /\ i \in Opened
  /\ ReleaseUnstarted(id)
  /\ UNCHANGED <<limit, own>>

\* An object is dropped, or a process ends with the ones it holds.
Close(held) ==
  /\ held # {} /\ held \subseteq Opened
  /\ own' = [i \in Instance |-> IF i \in held THEN 0 ELSE own[i]]
  /\ UNCHANGED <<rows, limit>>

Init ==
  /\ LedgerInit
  /\ own = [i \in Instance |-> 0]

Next ==
  \/ \E i \in Instance :
       \/ \E mine \in Limit : Open(i, mine)
       \/ \E id \in CallId, maximum \in Amount \ {0} : Reserve(i, id, maximum)
       \/ \E id \in CallId, provenance \in {"estimated", "measured"}, cost \in Amount \cup {0} :
             Settle(i, id, provenance, cost)
       \/ \E id \in CallId : Release(i, id)
  \/ \E held \in SUBSET Instance : Close(held)

Spec == Init /\ [][Next]_vars

-----------------------------------------------------------------------------
(* Properties. *)

\* Type invariant of the ledger file and its objects.
TypeOK ==
  /\ LedgerTypeOK
  /\ own \in [Instance -> Limit \cup {0}]

\* An object opened before the limit was lowered cannot reopen budget: whoever
\* reserves, the new commitments fit the lowest limit of all open objects.
Reserves(id) == rows[id].state = "absent" /\ rows'[id].state = "reserved"

FitsEveryLimit ==
  [][\A id \in CallId : Reserves(id) =>
       /\ Committed + rows'[id].reserved <= limit
       /\ \A j \in Opened : limit <= own[j]]_vars

\* Accounting is monotone: a measured cost is final, a released call never
\* comes back, and a call that may have run stops counting only by release.
AccountsAreFinal ==
  [][\A id \in CallId :
       /\ rows[id].state \in {"measured", "released"} => rows'[id] = rows[id]
       /\ rows[id].state = "estimated" => rows'[id].state \in {"estimated", "measured"}
       /\ rows[id].state = "reserved" => rows'[id].state # "absent"]_vars

=============================================================================
