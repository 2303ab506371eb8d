------------------------- MODULE BudgetLedgerProofs --------------------------
(***************************************************************************)
(* Proofs about the budget ledger of model_gateway.py for any number of    *)
(* ledger objects, calls, limits and amounts: its type, the ceiling every  *)
(* admission fits under, and the finality of its accounts.                 *)
(***************************************************************************)
EXTENDS BudgetInstances, TLAPS

USE LedgerAssumption

\* Every reachable ledger is well typed.
THEOREM TypeCorrect == Spec => []TypeOK
<1>1. Init => TypeOK
  BY DEF Init, LedgerInit, TypeOK, LedgerTypeOK, NoCall, CallRow, CallState
<1>2. TypeOK /\ [Next]_vars => TypeOK'
  <2> SUFFICES ASSUME TypeOK, [Next]_vars PROVE TypeOK'
    OBVIOUS
  <2> USE DEF TypeOK, LedgerTypeOK
  <2>1. ASSUME NEW i \in Instance, NEW mine \in Limit, Open(i, mine) PROVE TypeOK'
    BY <2>1 DEF Open, OpenLedger
  <2>2. ASSUME NEW i \in Instance, NEW id \in CallId, NEW maximum \in Amount \ {0},
               Reserve(i, id, maximum)
        PROVE  TypeOK'
    <3>1. [state |-> "reserved", reserved |-> maximum, settled |-> 0] \in CallRow
      BY DEF CallRow, CallState
    <3> QED
      BY <2>2, <3>1 DEF Reserve, ReserveCall
  <2>3. ASSUME NEW i \in Instance, NEW id \in CallId, NEW cost \in Amount \cup {0},
               NEW provenance \in {"estimated", "measured"}, Settle(i, id, provenance, cost)
        PROVE  TypeOK'
    BY ZenonT(40), <2>3 DEF Settle, SettleCall, CallRow, CallState
  <2>4. ASSUME NEW i \in Instance, NEW id \in CallId, Release(i, id) PROVE TypeOK'
    BY <2>4 DEF Release, ReleaseUnstarted, CallRow, CallState
  <2>5. ASSUME NEW held \in SUBSET Instance, Close(held) PROVE TypeOK'
    BY <2>5 DEF Close
  <2>6. CASE UNCHANGED vars
    BY <2>6 DEF vars
  <2> HIDE DEF TypeOK, LedgerTypeOK
  <2> QED
    BY <2>1, <2>2, <2>3, <2>4, <2>5, <2>6 DEF Next
<1> QED
  BY <1>1, <1>2, PTL DEF Spec

\* Limits are numbers, wherever they are held.
LEMMA LimitsAreNat ==
  ASSUME TypeOK
  PROVE  limit \in Nat /\ \A j \in Instance : own[j] \in Nat
<1>1. Limit \cup {0} \subseteq Nat
  OBVIOUS
<1> QED
  BY <1>1 DEF TypeOK, LedgerTypeOK

\* The durable limit is at most the limit of every open object: the file
\* remembers the lowest one, whoever holds a higher one in memory.
LimitIsLowest == \A j \in Opened : limit # 0 /\ limit <= own[j]

\* Opening only lowers the durable limit, so it stays the lowest.
THEOREM LowestLimit == Spec => []LimitIsLowest
<1>1. Init => LimitIsLowest
  BY DEF Init, LimitIsLowest, Opened
<1>2. TypeOK /\ LimitIsLowest /\ [Next]_vars => LimitIsLowest'
  <2> SUFFICES ASSUME TypeOK, LimitIsLowest, [Next]_vars PROVE LimitIsLowest'
    OBVIOUS
  <2> USE DEF TypeOK, LedgerTypeOK, LimitIsLowest, Opened
  <2>1. ASSUME NEW i \in Instance, NEW mine \in Limit, Open(i, mine) PROVE LimitIsLowest'
    <3> SUFFICES ASSUME NEW j \in Instance, own'[j] # 0
                 PROVE  limit' # 0 /\ limit' <= own'[j]
      OBVIOUS
    <3>1. limit' = mine /\ mine \in Nat \ {0}
      BY <2>1 DEF Open, OpenLedger
    <3>2. CASE j = i
      BY <2>1, <3>1, <3>2 DEF Open
    <3>3. CASE j # i
      <4>1. own'[j] = own[j] /\ limit # 0 /\ limit <= own[j]
        BY <2>1, <3>3 DEF Open
      <4>2. mine <= limit
        BY <2>1, <4>1 DEF Open, OpenLedger
      <4>3. limit \in Nat /\ own[j] \in Nat
        BY LimitsAreNat
      <4> QED
        BY <3>1, <4>1, <4>2, <4>3
    <3> QED
      BY <3>2, <3>3
  <2>2. ASSUME NEW i \in Instance, NEW id \in CallId, NEW maximum \in Amount \ {0},
               Reserve(i, id, maximum)
        PROVE  LimitIsLowest'
    BY <2>2 DEF Reserve
  <2>3. ASSUME NEW i \in Instance, NEW id \in CallId, NEW cost \in Amount \cup {0},
               NEW provenance \in {"estimated", "measured"}, Settle(i, id, provenance, cost)
        PROVE  LimitIsLowest'
    BY <2>3 DEF Settle
  <2>4. ASSUME NEW i \in Instance, NEW id \in CallId, Release(i, id) PROVE LimitIsLowest'
    BY <2>4 DEF Release
  <2>5. ASSUME NEW held \in SUBSET Instance, Close(held) PROVE LimitIsLowest'
    BY <2>5 DEF Close
  <2>6. CASE UNCHANGED vars
    BY <2>6 DEF vars
  <2> QED
    BY <2>1, <2>2, <2>3, <2>4, <2>5, <2>6 DEF Next
<1> QED
  BY <1>1, <1>2, TypeCorrect, PTL DEF Spec

\* An object that still holds a higher limit cannot reopen budget: every
\* admission fits the limit of every open object.
THEOREM AdmissionsFit == Spec => FitsEveryLimit
<1>1. TypeOK /\ LimitIsLowest /\ [Next]_vars =>
        [\A id \in CallId : Reserves(id) =>
            /\ Committed + rows'[id].reserved <= limit
            /\ \A j \in Opened : limit <= own[j]]_vars
  <2> SUFFICES ASSUME TypeOK, LimitIsLowest, Next,
                      NEW id \in CallId, Reserves(id)
               PROVE  /\ Committed + rows'[id].reserved <= limit
                      /\ \A j \in Opened : limit <= own[j]
    OBVIOUS
  <2> USE DEF TypeOK, LedgerTypeOK
  <2>1. PICK i \in Instance, maximum \in Amount \ {0} : Reserve(i, id, maximum)
    <3>1. ASSUME NEW i \in Instance, NEW mine \in Limit, Open(i, mine) PROVE FALSE
      BY <3>1 DEF Open, Reserves
    <3>2. ASSUME NEW i \in Instance, NEW k \in CallId, NEW m \in Amount \ {0},
                 Reserve(i, k, m), k # id
          PROVE  FALSE
      BY <3>2 DEF Reserve, ReserveCall, Reserves
    <3>3. ASSUME NEW i \in Instance, NEW k \in CallId, NEW cost \in Amount \cup {0},
                 NEW provenance \in {"estimated", "measured"}, Settle(i, k, provenance, cost)
          PROVE  FALSE
      BY <3>3 DEF Settle, SettleCall, Settles, Reserves, CallRow
    <3>4. ASSUME NEW i \in Instance, NEW k \in CallId, Release(i, k) PROVE FALSE
      BY <3>4 DEF Release, ReleaseUnstarted, Reserves, CallRow
    <3>5. ASSUME NEW held \in SUBSET Instance, Close(held) PROVE FALSE
      BY <3>5 DEF Close, Reserves
    <3> QED
      BY <3>1, <3>2, <3>3, <3>4, <3>5 DEF Next
  <2>2. /\ Committed + maximum <= EffectiveLimit(own[i])
        /\ rows'[id].reserved = maximum
    BY <2>1 DEF Reserve, ReserveCall
  <2>3. limit \in Nat /\ own[i] \in Nat /\ limit <= own[i]
    BY <2>1, LimitsAreNat DEF LimitIsLowest, Opened, Reserve
  <2>4. EffectiveLimit(own[i]) = limit
    BY <2>3 DEF EffectiveLimit
  <2> QED
    BY <2>2, <2>4 DEF LimitIsLowest
<1> QED
  BY <1>1, TypeCorrect, LowestLimit, PTL DEF Spec, FitsEveryLimit

\* Measured costs and releases are final for every interleaving of callers.
THEOREM AccountsFinal == Spec => AccountsAreFinal
<1> DEFINE Final(id) ==
      /\ rows[id].state \in {"measured", "released"} => rows'[id] = rows[id]
      /\ rows[id].state = "estimated" => rows'[id].state \in {"estimated", "measured"}
      /\ rows[id].state = "reserved" => rows'[id].state # "absent"
<1>1. TypeOK /\ [Next]_vars => [\A id \in CallId : Final(id)]_vars
  <2> SUFFICES ASSUME TypeOK, Next, NEW id \in CallId PROVE Final(id)
    OBVIOUS
  <2> USE DEF TypeOK, LedgerTypeOK
  <2>1. ASSUME NEW i \in Instance, NEW mine \in Limit, Open(i, mine) PROVE Final(id)
    BY <2>1 DEF Open
  <2>2. ASSUME NEW i \in Instance, NEW k \in CallId, NEW maximum \in Amount \ {0},
               Reserve(i, k, maximum)
        PROVE  Final(id)
    BY <2>2 DEF Reserve, ReserveCall
  <2>3. ASSUME NEW i \in Instance, NEW k \in CallId, NEW cost \in Amount \cup {0},
               NEW provenance \in {"estimated", "measured"}, Settle(i, k, provenance, cost)
        PROVE  Final(id)
    BY <2>3 DEF Settle, SettleCall, Settles, CallRow
  <2>4. ASSUME NEW i \in Instance, NEW k \in CallId, Release(i, k) PROVE Final(id)
    BY <2>4 DEF Release, ReleaseUnstarted, CallRow
  <2>5. ASSUME NEW held \in SUBSET Instance, Close(held) PROVE Final(id)
    BY <2>5 DEF Close
  <2> QED
    BY <2>1, <2>2, <2>3, <2>4, <2>5 DEF Next
<1> QED
  BY <1>1, TypeCorrect, PTL DEF Spec, AccountsAreFinal

=============================================================================
