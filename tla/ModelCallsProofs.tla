-------------------------- MODULE ModelCallsProofs ---------------------------
(***************************************************************************)
(* For any number of lanes, calls, routes and prices: the ledger counts    *)
(* what the provider has charged or can still charge, up to what estimates *)
(* gave back of their reservations, whatever is dispatched fits the        *)
(* durable limit up to the same amount, and the lanes use the ledger the   *)
(* way BudgetInstances lets any callers use it.                            *)
(***************************************************************************)
EXTENDS ModelCalls, FiniteSetTheorems, WellFoundedInduction, TLAPS

-----------------------------------------------------------------------------
(* Sums over a finite set, as MapThenSumSet takes them one element at a time. *)

\* One of the sets of a family of subsets of a finite set has no other inside it.
LEMMA SmallestSet ==
  ASSUME NEW S, IsFiniteSet(S), NEW family \in SUBSET (SUBSET S), family # {}
  PROVE  \E x \in family : \A y \in family : y \subseteq x => y = x
<1>1. family \subseteq FiniteSubsetsOf(S)
  BY FS_FiniteSubsetsOfFinite
<1>2. PICK x \in family : \A y \in family : ~(<<y, x>> \in StrictSubsetOrdering(S))
  BY <1>1, FS_StrictSubsetOrderingWellFounded, WFMin
<1>3. ASSUME NEW y \in family, y \subseteq x PROVE y = x
  BY <1>2, <1>3 DEF StrictSubsetOrdering
<1> QED
  BY <1>3

Some(s) == CHOOSE x \in s : TRUE

\* g adds up w over every subset of S.
Adds(g, w, S) ==
  /\ g \in [SUBSET S -> Nat]
  /\ g[{}] = 0
  /\ \A s \in (SUBSET S) \ {{}} : g[s] = w[Some(s)] + g[s \ {Some(s)}]

\* It is one of them.
LEMMA SomeIn ==
  ASSUME NEW s, s # {}
  PROVE  Some(s) \in s
BY DEF Some

\* A larger weight everywhere makes no smaller sum.
LEMMA AddsMonotone ==
  ASSUME NEW S, IsFiniteSet(S), NEW w \in [S -> Nat], NEW v \in [S -> Nat],
         NEW g, NEW h, NEW T \in SUBSET S, NEW U \in SUBSET S,
         Adds(g, w, T), Adds(h, v, U),
         NEW r \in SUBSET (T \cap U), \A x \in r : w[x] <= v[x]
  PROVE  g[r] <= h[r]
<1> DEFINE Bad == {s \in SUBSET r : ~(g[s] <= h[s])}
<1>1. ASSUME Bad # {} PROVE FALSE
  <2>1. Bad \in SUBSET (SUBSET S)
    OBVIOUS
  <2> HIDE DEF Bad
  <2>2. PICK s \in Bad : \A y \in Bad : y \subseteq s => y = s
    BY <1>1, <2>1, SmallestSet
  <2> USE DEF Bad
  <2>3. s \in SUBSET r /\ s \in SUBSET T /\ s \in SUBSET U /\ ~(g[s] <= h[s])
    BY <2>2
  <2>4. s # {}
    <3>1. g[{}] = 0 /\ h[{}] = 0
      BY DEF Adds
    <3>2. s = {} => g[s] <= h[s]
      BY <3>1
    <3> QED
      BY <2>3, <3>2
  <2> DEFINE c == Some(s)
             q == s \ {c}
  <2>5. c \in s
    BY <2>4, SomeIn
  <2> HIDE DEF c
  <2>6. g[s] = w[c] + g[q] /\ h[s] = v[c] + h[q]
    BY <2>3, <2>4 DEF Adds, c
  <2>7. g[q] <= h[q]
    <3>1. q \subseteq s /\ q # s /\ q \in SUBSET r
      BY <2>3, <2>5
    <3> QED
      BY <2>2, <3>1
  <2>8. g[q] \in Nat /\ h[q] \in Nat /\ w[c] \in Nat /\ v[c] \in Nat /\ w[c] <= v[c]
    BY <2>3, <2>5 DEF Adds
  <2> HIDE DEF q, Bad
  <2> QED
    BY <2>3, <2>6, <2>7, <2>8
<1> QED
  BY <1>1

\* A weight covered by two others everywhere makes no larger sum than theirs.
LEMMA AddsTwo ==
  ASSUME NEW S, IsFiniteSet(S), NEW u \in [S -> Nat], NEW w \in [S -> Nat],
         NEW v \in [S -> Nat], NEW f, NEW g, NEW h,
         Adds(f, u, S), Adds(g, w, S), Adds(h, v, S), \A x \in S : u[x] <= w[x] + v[x]
  PROVE  f[S] <= g[S] + h[S]
<1> DEFINE Bad == {s \in SUBSET S : ~(f[s] <= g[s] + h[s])}
<1>1. ASSUME Bad # {} PROVE FALSE
  <2>1. Bad \in SUBSET (SUBSET S)
    OBVIOUS
  <2> HIDE DEF Bad
  <2>2. PICK s \in Bad : \A y \in Bad : y \subseteq s => y = s
    BY <1>1, <2>1, SmallestSet
  <2> USE DEF Bad
  <2>3. s \in SUBSET S /\ ~(f[s] <= g[s] + h[s])
    BY <2>2
  <2>4. s # {}
    <3>1. f[{}] = 0 /\ g[{}] = 0 /\ h[{}] = 0
      BY DEF Adds
    <3>2. s = {} => f[s] <= g[s] + h[s]
      BY <3>1
    <3> QED
      BY <2>3, <3>2
  <2> DEFINE c == Some(s)
             q == s \ {c}
  <2>5. c \in s
    BY <2>4, SomeIn
  <2> HIDE DEF c
  <2>6. f[s] = u[c] + f[q] /\ g[s] = w[c] + g[q] /\ h[s] = v[c] + h[q]
    BY <2>3, <2>4 DEF Adds, c
  <2>7. f[q] <= g[q] + h[q]
    <3>1. q \subseteq s /\ q # s /\ q \in SUBSET S
      BY <2>3, <2>5
    <3> QED
      BY <2>2, <3>1
  <2>8. f[q] \in Nat /\ g[q] \in Nat /\ h[q] \in Nat
    BY <2>3 DEF Adds
  <2>9. u[c] \in Nat /\ w[c] \in Nat /\ v[c] \in Nat /\ u[c] <= w[c] + v[c]
    BY <2>3, <2>5
  <2> HIDE DEF q, Bad
  <2> QED
    BY <2>3, <2>6, <2>7, <2>8, <2>9
<1> QED
  BY <1>1

\* The sum over a set does not depend on the set it was taken inside of.
LEMMA AddsUnique ==
  ASSUME NEW S, IsFiniteSet(S), NEW w \in [S -> Nat],
         NEW g, NEW h, NEW T \in SUBSET S, NEW U \in SUBSET S,
         Adds(g, w, T), Adds(h, w, U), NEW r \in SUBSET (T \cap U)
  PROVE  g[r] = h[r]
<1>1. \A x \in r : w[x] <= w[x]
  OBVIOUS
<1>2. g[r] <= h[r] /\ h[r] <= g[r]
  BY <1>1, AddsMonotone
<1>3. g[r] \in Nat /\ h[r] \in Nat
  BY DEF Adds
<1> QED
  BY <1>2, <1>3

\* Every finite set can be added up.
LEMMA AddsExists ==
  ASSUME NEW S, IsFiniteSet(S), NEW w \in [S -> Nat]
  PROVE  \E g : Adds(g, w, S)
<1> DEFINE Bad == {T \in SUBSET S : ~\E g : Adds(g, w, T)}
<1>1. ASSUME Bad # {} PROVE FALSE
  <2>1. Bad \in SUBSET (SUBSET S)
    OBVIOUS
  <2> HIDE DEF Bad
  <2>2. PICK T \in Bad : \A y \in Bad : y \subseteq T => y = T
    BY <1>1, <2>1, SmallestSet
  <2> USE DEF Bad
  <2> DEFINE Sum(s) == CHOOSE g : Adds(g, w, s)
             val(s) == Sum(s)[s]
  <2>3. ASSUME NEW s \in SUBSET T, s # T PROVE Adds(Sum(s), w, s)
    <3>1. \E g : Adds(g, w, s)
      BY <2>2, <2>3
    <3> QED
      BY <3>1
  <2> HIDE DEF Sum
  <2>4. ASSUME NEW s \in SUBSET T, s # T
        PROVE  /\ val(s) \in Nat
               /\ s = {} => val(s) = 0
               /\ s # {} => val(s) = w[Some(s)] + val(s \ {Some(s)})
    <3>1. Adds(Sum(s), w, s)
      BY <2>3, <2>4
    <3>2. CASE s = {}
      BY <3>1, <3>2 DEF Adds
    <3>3. CASE s # {}
      <4> DEFINE q == s \ {Some(s)}
      <4>1. q \in SUBSET T /\ q # T /\ q \in SUBSET s
        BY <2>4, <3>3, SomeIn
      <4>2. Adds(Sum(q), w, q)
        BY <4>1, <2>3
      <4>3. Sum(s)[q] = Sum(q)[q]
        BY <3>1, <4>1, <4>2, AddsUnique
      <4>4. Sum(s)[s] = w[Some(s)] + Sum(s)[q] /\ Sum(s)[s] \in Nat
        BY <3>1, <3>3 DEF Adds
      <4> QED
        BY <3>3, <4>3, <4>4
    <3> QED
      BY <3>2, <3>3
  <2> DEFINE top == IF T = {} THEN 0 ELSE w[Some(T)] + val(T \ {Some(T)})
             g == [s \in SUBSET T |-> IF s = T THEN top ELSE val(s)]
  <2> HIDE DEF val
  <2>5. top \in Nat
    <3>1. CASE T = {}
      BY <3>1
    <3>2. CASE T # {}
      <4>1. Some(T) \in T /\ T \ {Some(T)} # T /\ w[Some(T)] \in Nat
        BY <3>2, SomeIn
      <4>2. val(T \ {Some(T)}) \in Nat
        BY <4>1, <2>4
      <4> QED
        BY <3>2, <4>1, <4>2
    <3> QED
      BY <3>1, <3>2
  <2>6. Adds(g, w, T)
    <3>1. g \in [SUBSET T -> Nat]
      <4> HIDE DEF top
      <4> QED
        BY <2>4, <2>5
    <3>2. g[{}] = 0
      <4>1. CASE T = {}
        BY <4>1
      <4>2. CASE T # {}
        BY <4>2, <2>4
      <4> QED
        BY <4>1, <4>2
    <3>3. ASSUME NEW s \in (SUBSET T) \ {{}}
          PROVE  g[s] = w[Some(s)] + g[s \ {Some(s)}]
      <4>1. Some(s) \in s /\ s \ {Some(s)} \in SUBSET T /\ s \ {Some(s)} # T
        BY SomeIn
      <4>2. g[s \ {Some(s)}] = val(s \ {Some(s)})
        BY <4>1
      <4>3. CASE s = T
        BY <4>2, <4>3
      <4>4. CASE s # T
        BY <2>4, <4>2, <4>4
      <4> QED
        BY <4>3, <4>4
    <3> QED
      BY <3>1, <3>2, <3>3 DEF Adds
  <2> QED
    BY <2>2, <2>6
<1>2. S \notin Bad
  BY <1>1
<1> QED
  BY <1>2

\* One element can be taken out, whichever it is.
LEMMA AddsTakeOut ==
  ASSUME NEW S, IsFiniteSet(S), NEW w \in [S -> Nat], NEW g, Adds(g, w, S),
         NEW x \in S
  PROVE  g[S] = w[x] + g[S \ {x}]
<1> DEFINE Bad == {s \in SUBSET S : \E y \in s : g[s] # w[y] + g[s \ {y}]}
<1>1. ASSUME Bad # {} PROVE FALSE
  <2>1. Bad \in SUBSET (SUBSET S)
    OBVIOUS
  <2> HIDE DEF Bad
  <2>2. PICK s \in Bad : \A y \in Bad : y \subseteq s => y = s
    BY <1>1, <2>1, SmallestSet
  <2> USE DEF Bad
  <2>3. s \in SUBSET S
    BY <2>2
  <2>4. PICK y \in s : g[s] # w[y] + g[s \ {y}]
    BY <2>2
  <2> DEFINE c == Some(s)
             q == s \ {c, y}
  <2>5. c \in s /\ g[s] = w[c] + g[s \ {c}]
    BY <2>3, <2>4, SomeIn DEF Adds
  <2> HIDE DEF c
  <2>6. c # y
    BY <2>4, <2>5
  <2>7. ASSUME NEW a \in s, NEW b \in s, a # b
        PROVE  g[s \ {a}] = w[b] + g[(s \ {a}) \ {b}]
    <3>1. s \ {a} \subseteq s /\ s \ {a} # s /\ s \ {a} \in SUBSET S /\ b \in s \ {a}
      BY <2>3, <2>7
    <3>2. s \ {a} \notin Bad
      BY <2>2, <3>1
    <3> QED
      BY <3>1, <3>2
  <2>8. (s \ {c}) \ {y} = q /\ (s \ {y}) \ {c} = q
    OBVIOUS
  <2>9. g[s \ {c}] = w[y] + g[q] /\ g[s \ {y}] = w[c] + g[q]
    BY SMTT(20), <2>4, <2>5, <2>6, <2>7, <2>8
  <2>10. w[c] \in Nat /\ w[y] \in Nat /\ g[q] \in Nat
    BY <2>3, <2>4, <2>5 DEF Adds
  <2> HIDE DEF q
  <2> QED
    BY <2>4, <2>5, <2>9, <2>10
<1>2. S \notin Bad
  BY <1>1
<1> QED
  BY <1>2

\* g goes through every subset of S the way MapThenSumSet does.
GoesThrough(g, w, S) ==
  /\ g = [s \in SUBSET S |-> g[s]]
  /\ \A s \in SUBSET S : g[s] = IF s = {} THEN 0 ELSE w[Some(s)] + g[s \ {Some(s)}]

\* Whatever does, adds up.
LEMMA GoesThroughAdds ==
  ASSUME NEW S, IsFiniteSet(S), NEW w \in [S -> Nat], NEW g, NEW h,
         GoesThrough(g, w, S), Adds(h, w, S)
  PROVE  g = h
<1> USE DEF GoesThrough
<1> DEFINE Bad == {s \in SUBSET S : g[s] # h[s]}
<1>1. ASSUME Bad # {} PROVE FALSE
  <2>1. Bad \in SUBSET (SUBSET S)
    OBVIOUS
  <2> HIDE DEF Bad
  <2>2. PICK s \in Bad : \A y \in Bad : y \subseteq s => y = s
    BY <1>1, <2>1, SmallestSet
  <2> USE DEF Bad
  <2>3. s # {}
    BY <2>2 DEF Adds
  <2>4. Some(s) \in s /\ s \ {Some(s)} \in SUBSET S /\ s \ {Some(s)} # s
    BY <2>2, <2>3, SomeIn
  <2>5. g[s \ {Some(s)}] = h[s \ {Some(s)}]
    BY <2>2, <2>4
  <2>6. g[s] = w[Some(s)] + g[s \ {Some(s)}] /\ h[s] = w[Some(s)] + h[s \ {Some(s)}]
    BY <2>2, <2>3 DEF Adds
  <2> QED
    BY <2>2, <2>5, <2>6
<1>2. \A s \in SUBSET S : g[s] = h[s]
  BY <1>1
<1>3. h = [s \in SUBSET S |-> h[s]]
  BY DEF Adds
<1>4. [s \in SUBSET S |-> g[s]] = [s \in SUBSET S |-> h[s]]
  BY <1>2
<1> QED
  BY <1>3, <1>4

\* When one weight changes, the sum changes by as much.
LEMMA AddsChange ==
  ASSUME NEW S, IsFiniteSet(S), NEW w \in [S -> Nat], NEW v \in [S -> Nat],
         NEW g, NEW h, Adds(g, w, S), Adds(h, v, S),
         NEW x \in S, \A y \in S : y # x => w[y] = v[y]
  PROVE  h[S] + w[x] = g[S] + v[x] /\ g[S] \in Nat /\ h[S] \in Nat
<1> DEFINE rest == S \ {x}
<1>1. g[S] = w[x] + g[rest] /\ h[S] = v[x] + h[rest]
  BY AddsTakeOut
<1>2. rest \in SUBSET (S \cap S) /\ \A y \in rest : w[y] <= v[y] /\ v[y] <= w[y]
  OBVIOUS
<1> HIDE DEF rest
<1>3. g[rest] <= h[rest] /\ h[rest] <= g[rest]
  BY <1>2, AddsMonotone
<1>4. g[rest] \in Nat /\ h[rest] \in Nat /\ w[x] \in Nat /\ v[x] \in Nat
  BY <1>2 DEF Adds
<1> QED
  BY <1>1, <1>3, <1>4

-----------------------------------------------------------------------------
(* The invariant behind the coverage.                                         *)

USE LedgerAssumption, ProviderAssumption

\* Program counters at which the attempt holds a call of its own.
Before == {"admitted", "readmitted"}
After  == {"waiting", "refused", "answered"}

\* A call nobody has dispatched yet cost nothing, one at the provider is
\* reserved at its route's highest price, a finished one is counted in full.
FateCounted(id) ==
  LET fate == provider[id] row == rows[id] IN
  /\ fate.state = "unsent" => fate.charge = 0
  /\ fate.state # "unsent" => row.state # "absent"
  /\ fate.state = "open" =>
       /\ fate.route \in Route
       /\ row.state = "reserved" /\ row.reserved = MaxPrice[fate.route]
  /\ fate.state = "closed" => fate.charge <= Counted(row) + Understated(row)
  /\ row.state = "estimated" => row.settled <= row.reserved

\* What an attempt knows of the call it holds.
HoldsReserved(w) ==
  LET s == lane[w] IN
  s.pc \in Before \cup After =>
    /\ s.call \in CallId /\ s.route \in Route
    /\ rows[s.call].state = "reserved" /\ rows[s.call].reserved = MaxPrice[s.route]
    /\ s.pc \in Before => provider[s.call].state = "unsent"
    /\ s.pc \in After  => provider[s.call].state # "unsent" /\ provider[s.call].route = s.route
    /\ s.pc = "answered" => provider[s.call].state = "closed"

OwnCalls ==
  \A w, v \in Lane :
    /\ lane[w].pc \in Before \cup After /\ lane[v].pc \in Before \cup After
    /\ lane[w].call = lane[v].call
    => w = v

\* An attempt has a route once it counted a turn.
RouteKnown(s) ==
  /\ s.pc \in {"routed", "rerouted"} => s.route \in Route
  /\ s.pc = "open" /\ s.turns # 0 => s.route \in Route
  /\ s.pc = "idle" => s.turns = 0

Routed == \A w \in Lane : RouteKnown(lane[w])

CoverInv ==
  /\ TypeOK
  /\ \A id \in CallId : FateCounted(id)
  /\ \A w \in Lane : HoldsReserved(w)
  /\ OwnCalls /\ Routed

-----------------------------------------------------------------------------
(* Facts the steps share. *)

\* Prices, charges and counters are numbers.
LEMMA Numbers ==
  /\ Amount \cup {0} \subseteq Nat
  /\ \A r \in Route : MaxPrice[r] \in Amount /\ MaxPrice[r] \in Nat
                      /\ ListPrice[r] \in Amount /\ ListPrice[r] \in Nat
                      /\ ListPrice[r] <= MaxPrice[r]
<1>1. Amount \cup {0} \subseteq Nat
  OBVIOUS
<1>2. ASSUME NEW r \in Route
      PROVE  MaxPrice[r] \in Amount /\ ListPrice[r] \in Amount /\ ListPrice[r] <= MaxPrice[r]
  OBVIOUS
<1> QED
  BY <1>1, <1>2

\* A step that only moves lanes, to program counters that hold no call or keep
\* what they hold, preserves the invariant.
LEMMA LaneOnly ==
  ASSUME CoverInv, UNCHANGED <<rows, provider>>, TypeOK',
         \A w \in Lane :
           /\ lane'[w].pc \in Before \cup After =>
                /\ lane[w].pc \in Before \cup After
                /\ lane'[w].call = lane[w].call /\ lane'[w].route = lane[w].route
                /\ lane'[w].pc \in Before => lane[w].pc \in Before
                /\ lane'[w].pc \in After => lane[w].pc \in After
                /\ lane'[w].pc = "answered" =>
                     lane[w].pc = "answered" /\ lane'[w].provenance = lane[w].provenance
           /\ RouteKnown(lane'[w])
  PROVE  CoverInv'
<1>1. \A id \in CallId : FateCounted(id)'
  BY DEF CoverInv, FateCounted, Counted, Understated
<1>2. \A w \in Lane : HoldsReserved(w)'
  BY DEF CoverInv, HoldsReserved
<1>3. OwnCalls'
  BY DEF CoverInv, OwnCalls
<1>4. Routed'
  BY DEF Routed
<1> QED
  BY <1>1, <1>2, <1>3, <1>4 DEF CoverInv

\* Slots stay typed when their counters change.
LEMMA SlotTyped ==
  ASSUME NEW s \in Slot, NEW pc \in Pc
  PROVE  /\ [s EXCEPT !.pc = pc] \in Slot
         /\ Ended \in Slot /\ EmptySlot \in Slot
BY DEF Slot, Pc, Ended, EmptySlot, Provenance

\* A slot that ended, or has not started.
LEMMA EndedTyped == Ended \in Slot /\ Ended.pc = "done" /\ EmptySlot.pc = "idle"
BY DEF Slot, Pc, Ended, EmptySlot, Provenance

-----------------------------------------------------------------------------
(* The steps. *)

\* Steps of an attempt that touch neither the ledger's rows nor the provider.
LEMMA QuietSteps ==
  ASSUME CoverInv, NEW w \in Lane,
         \/ Begin(w) \/ Prepare(w) \/ Reroute(w) \/ Refuse(w) \/ TableFull(w)
         \/ Timeout(w) \/ FailOver(w) \/ EndAttempt(w) \/ CrashAttempt(w)
  PROVE  CoverInv'
<1> USE DEF CoverInv, TypeOK, LedgerTypeOK
<1>1. lane[w] \in Slot
  OBVIOUS
<1>2. UNCHANGED <<rows, provider, threads, cap>>
  BY DEF Begin, Prepare, Reroute, Refuse, TableFull, Timeout, FailOver, EndAttempt, CrashAttempt
<1>3. \A v \in Lane : v # w => lane'[v] = lane[v]
  BY DEF Begin, Prepare, Reroute, Refuse, TableFull, Timeout, FailOver, EndAttempt, CrashAttempt,
         Goto
<1>4. RouteKnown(lane[w])
  BY DEF Routed
<1>5. /\ lane'[w] \in Slot /\ lane' = [lane EXCEPT ![w] = lane'[w]]
      /\ lane'[w].pc \notin Before \cup After
      /\ RouteKnown(lane'[w])
  <2>1. CASE Begin(w)
    <3>1. \/ lane' = [lane EXCEPT ![w].pc = "open"]
          \/ lane' = [lane EXCEPT ![w] = Ended]
      BY <2>1 DEF Begin, Goto
    <3>2. CASE lane' = [lane EXCEPT ![w].pc = "open"]
      <4>1. lane[w].turns = 0
        BY <2>1, <1>4 DEF Begin, RouteKnown
      <4> QED
        BY <4>1, <3>2, <1>1 DEF Before, After, Slot, Pc, RouteKnown
    <3>3. CASE lane' = [lane EXCEPT ![w] = Ended]
      BY <3>3, <1>1, EndedTyped DEF Before, After, RouteKnown
    <3> QED
      BY <3>1, <3>2, <3>3
  <2>2. CASE Prepare(w)
    <3>1. PICK r \in Route :
            lane' = [lane EXCEPT ![w].pc = "routed", ![w].turns = @ + 1, ![w].route = r]
      BY <2>2 DEF Prepare
    <3>2. lane[w].turns \in 0 .. MaxTurns /\ lane[w].turns + 1 \in 0 .. MaxTurns
      <4> HIDE DEF CoverInv, TypeOK, LedgerTypeOK
      <4>1. lane[w].turns \in 0 .. MaxTurns
        BY <1>1 DEF Slot
      <4>2. lane[w].turns < MaxTurns
        BY <2>2 DEF Prepare
      <4>3. MaxTurns \in Nat
        OBVIOUS
      <4> QED
        BY <4>1, <4>2, <4>3
    <3> QED
      BY <3>1, <3>2, <1>1 DEF Before, After, Slot, Pc, RouteKnown
  <2>3. CASE Reroute(w)
    BY <2>3, <1>1 DEF Reroute, Denied, FirstChoice, Before, After, Slot, RouteKnown
  <2>4. CASE Refuse(w) \/ TableFull(w) \/ Timeout(w)
    BY <2>4, <1>1 DEF Refuse, TableFull, Timeout, Goto, Before, After, Slot, Pc, RouteKnown
  <2>5. CASE FailOver(w)
    BY <2>5, <1>1 DEF FailOver, Goto, Before, After, Slot, Pc, RouteKnown
  <2>6. CASE EndAttempt(w) \/ CrashAttempt(w)
    BY <2>6, <1>1, EndedTyped DEF EndAttempt, CrashAttempt, Before, After, RouteKnown
  <2> QED
    BY <2>1, <2>2, <2>3, <2>4, <2>5, <2>6
<1>6. /\ limit' \in Limit \cup {0} /\ stopped' \in BOOLEAN
      /\ lost' \in Nat
  <2>1. limit' \in Limit \cup {0} /\ stopped' \in BOOLEAN
    BY DEF Begin, OpenLedger, Prepare, Reroute, Refuse, TableFull, Timeout, FailOver, EndAttempt,
           CrashAttempt
  <2>2. lost' \in {lost, lost + 1}
    BY DEF Begin, Prepare, Reroute, Refuse, TableFull, Timeout, FailOver, EndAttempt, CrashAttempt
  <2>3. lost \in Nat
    OBVIOUS
  <2> HIDE DEF CoverInv, TypeOK, LedgerTypeOK
  <2> QED
    BY <2>1, <2>2, <2>3
<1>7. TypeOK'
  BY <1>2, <1>5, <1>6
<1>8. ASSUME NEW v \in Lane
      PROVE  /\ lane'[v].pc \in Before \cup After => lane'[v] = lane[v]
             /\ RouteKnown(lane'[v])
  <2>1. CASE v = w
    BY <2>1, <1>5
  <2>2. CASE v # w
    BY <2>2, <1>3 DEF Routed
  <2> QED
    BY <2>1, <2>2
<1> HIDE DEF CoverInv, TypeOK
<1> QED
  BY <1>2, <1>7, <1>8, LaneOnly

\* The ledger admits a call: its row is fresh, so no other attempt and no
\* provider knows it.
LEMMA AdmitStep ==
  ASSUME CoverInv, NEW w \in Lane, Admit(w)
  PROVE  CoverInv'
<1> USE DEF CoverInv, TypeOK, LedgerTypeOK
<1>1. PICK id \in CallId :
        /\ ReserveCall(cap, id, MaxPrice[lane[w].route])
        /\ lane' = [lane EXCEPT ![w].call = id,
                      ![w].pc = IF @ = "routed" THEN "admitted" ELSE "readmitted"]
  BY DEF Admit
<1> DEFINE price == MaxPrice[lane[w].route]
           new == [state |-> "reserved", reserved |-> price, settled |-> 0]
<1>2. lane[w] \in Slot /\ lane[w].route \in Route /\ price \in Amount
  BY Numbers DEF Admit, Routed, RouteKnown
<1>3. rows[id].state = "absent" /\ rows' = [rows EXCEPT ![id] = new]
  BY <1>1 DEF ReserveCall
<1>4. provider[id].state = "unsent" /\ UNCHANGED <<limit, cap, stopped, threads, provider, lost>>
  BY <1>3 DEF FateCounted, Admit
<1>5. /\ lane'[w].pc \in Before /\ lane'[w].call = id /\ lane'[w].route = lane[w].route
      /\ lane'[w] \in Slot
      /\ lane' = [lane EXCEPT ![w] = lane'[w]]
      /\ \A v \in Lane : v # w => lane'[v] = lane[v]
  BY <1>1, <1>2 DEF Before, Slot, Pc
<1>6. \A v \in Lane : lane[v].pc \in Before \cup After => lane[v].call # id
  BY <1>3 DEF HoldsReserved
<1>7. TypeOK'
  <2>1. new \in CallRow
    BY <1>2 DEF CallRow, CallState
  <2> QED
    BY <1>3, <1>4, <1>5, <2>1
<1>8. \A k \in CallId : FateCounted(k)'
  <2> TAKE k \in CallId
  <2>1. CASE k = id
    BY <2>1, <1>3, <1>4 DEF FateCounted
  <2>2. CASE k # id
    BY <2>2, <1>3, <1>4 DEF FateCounted, Counted, Understated
  <2> QED
    BY <2>1, <2>2
<1>9. \A v \in Lane : HoldsReserved(v)'
  <2> TAKE v \in Lane
  <2>1. CASE v = w
    BY <2>1, <1>2, <1>3, <1>4, <1>5 DEF HoldsReserved, Before, After
  <2>2. CASE v # w
    BY <2>2, <1>3, <1>4, <1>5, <1>6 DEF HoldsReserved
  <2> QED
    BY <2>1, <2>2
<1>10. OwnCalls'
  BY <1>5, <1>6 DEF OwnCalls
<1>11. Routed'
  BY <1>5 DEF Routed, RouteKnown, Before
<1> QED
  BY <1>7, <1>8, <1>9, <1>10, <1>11

\* A dispatch hands the call to the provider at its reserved price.
LEMMA DispatchStep ==
  ASSUME CoverInv, NEW w \in Lane, Dispatch(w)
  PROVE  CoverInv'
<1> USE DEF CoverInv, TypeOK, LedgerTypeOK
<1> DEFINE id == lane[w].call
           sent == [state |-> "open", route |-> lane[w].route, charge |-> 0]
<1>1. /\ lane[w] \in Slot /\ lane[w].pc \in Before
      /\ id \in CallId /\ lane[w].route \in Route
      /\ rows[id].state = "reserved" /\ rows[id].reserved = MaxPrice[lane[w].route]
  BY DEF Dispatch, Before, HoldsReserved
<1>2. /\ provider' = [provider EXCEPT ![id] = sent]
      /\ UNCHANGED <<rows, limit, cap, stopped, lost>>
      /\ threads' = threads \cup {id}
  BY DEF Dispatch
<1>3. /\ lane'[w].pc = "waiting" /\ lane'[w].call = id /\ lane'[w].route = lane[w].route
      /\ lane'[w] \in Slot
      /\ lane' = [lane EXCEPT ![w] = lane'[w]]
      /\ \A v \in Lane : v # w => lane'[v] = lane[v]
  BY <1>1 DEF Dispatch, Goto, Slot, Pc
<1>4. \A v \in Lane : v # w /\ lane[v].pc \in Before \cup After => lane[v].call # id
  BY <1>1 DEF OwnCalls
<1>5. TypeOK'
  <2>1. sent \in Fate
    BY <1>1 DEF Fate
  <2> QED
    BY <1>1, <1>2, <1>3, <2>1
<1>6. \A k \in CallId : FateCounted(k)'
  <2> TAKE k \in CallId
  <2>1. CASE k = id
    BY <2>1, <1>1, <1>2 DEF FateCounted
  <2>2. CASE k # id
    BY <2>2, <1>2 DEF FateCounted, Counted, Understated
  <2> QED
    BY <2>1, <2>2
<1>7. \A v \in Lane : HoldsReserved(v)'
  <2> TAKE v \in Lane
  <2>1. CASE v = w
    BY <2>1, <1>1, <1>2, <1>3 DEF HoldsReserved, Before, After
  <2>2. CASE v # w
    BY <2>2, <1>2, <1>3, <1>4 DEF HoldsReserved
  <2> QED
    BY <2>1, <2>2
<1>8. OwnCalls'
  BY <1>3, <1>4 DEF OwnCalls
<1>9. Routed'
  BY <1>3 DEF Routed, RouteKnown
<1> QED
  BY <1>5, <1>6, <1>7, <1>8, <1>9

\* The failover's call is released before it was ever dispatched.
LEMMA ReleaseStep ==
  ASSUME CoverInv, NEW w \in Lane, ReleaseFailover(w)
  PROVE  CoverInv'
<1> USE DEF CoverInv, TypeOK, LedgerTypeOK
<1> DEFINE id == lane[w].call
<1>1. /\ lane[w] \in Slot /\ lane[w].pc \in Before
      /\ id \in CallId /\ provider[id].state = "unsent" /\ provider[id].charge = 0
  BY DEF ReleaseFailover, Before, HoldsReserved, FateCounted
<1>2. /\ rows' = [rows EXCEPT ![id].state = "released"]
      /\ UNCHANGED <<limit, cap, stopped, threads, provider, lost>>
  BY DEF ReleaseFailover, ReleaseUnstarted
<1>3. /\ lane'[w].pc = "failed" /\ lane'[w] \in Slot
      /\ lane' = [lane EXCEPT ![w] = lane'[w]]
      /\ \A v \in Lane : v # w => lane'[v] = lane[v]
  BY <1>1 DEF ReleaseFailover, Goto, Slot, Pc
<1>4. \A v \in Lane : v # w /\ lane[v].pc \in Before \cup After => lane[v].call # id
  BY <1>1 DEF OwnCalls
<1>5. TypeOK'
  BY SMTT(20), <1>1, <1>2, <1>3 DEF CallRow, CallState
<1>6. \A k \in CallId : FateCounted(k)'
  <2> TAKE k \in CallId
  <2>1. CASE k = id
    BY <2>1, <1>1, <1>2 DEF FateCounted
  <2>2. CASE k # id
    BY <2>2, <1>2 DEF FateCounted, Counted, Understated
  <2> QED
    BY <2>1, <2>2
<1>7. \A v \in Lane : HoldsReserved(v)'
  BY <1>2, <1>3, <1>4 DEF HoldsReserved, Before, After
<1>8. OwnCalls'
  BY <1>3 DEF OwnCalls, Before, After
<1>9. Routed'
  BY <1>3 DEF Routed, RouteKnown
<1> QED
  BY <1>5, <1>6, <1>7, <1>8, <1>9

\* A settlement replaces the reservation by what was charged, or by an
\* estimate that gives back no more than the reservation's markup.
LEMMA SettleStep ==
  ASSUME CoverInv, NEW w \in Lane, Settle(w)
  PROVE  CoverInv'
<1> USE DEF CoverInv, TypeOK, LedgerTypeOK
<1> DEFINE s == lane[w]
           id == s.call
           cost == IF s.provenance = "measured" THEN provider[id].charge ELSE ListPrice[s.route]
           settled == [rows EXCEPT ![id].state = s.provenance, ![id].settled = cost]
<1>1. /\ s \in Slot /\ s.pc = "answered" /\ id \in CallId /\ s.route \in Route
      /\ provider[id].state = "closed"
      /\ rows[id].state = "reserved" /\ rows[id].reserved = MaxPrice[s.route]
  BY DEF Settle, After, HoldsReserved
<1>2. /\ UNCHANGED <<limit, cap, stopped, threads, provider, lost>>
      /\ \/ s.provenance = "unknown" /\ UNCHANGED rows
         \/ s.provenance \in {"measured", "estimated"} /\ rows' = settled
  BY <1>1 DEF Settle, SettleCall, Slot, Provenance
<1>3. /\ lane'[w].pc \in {"open", "failed"} /\ lane'[w].route = s.route
      /\ lane'[w] \in Slot
      /\ \A v \in Lane : v # w => lane'[v] = lane[v]
      /\ DOMAIN lane' = Lane /\ lane' = [v \in Lane |-> lane'[v]]
  <2>1. PICK pc \in {"open", "failed"} :
          lane' = [lane EXCEPT ![w] = [s EXCEPT !.pc = pc, !.call = NoId, !.provenance = "unknown"]]
    BY DEF Settle
  <2> DEFINE t == [s EXCEPT !.pc = pc, !.call = NoId, !.provenance = "unknown"]
  <2>2. pc \in Pc /\ "unknown" \in Provenance
    BY DEF Pc, Provenance
  <2>3. t \in Slot /\ t.pc = pc /\ t.route = s.route
    BY <1>1, <2>2 DEF Slot
  <2> HIDE DEF t
  <2> QED
    BY <2>1, <2>3 DEF t
<1>4. \A v \in Lane : v # w /\ lane[v].pc \in Before \cup After => lane[v].call # id
  BY <1>1 DEF OwnCalls, After
<1>5. cost \in Amount \cup {0} /\ cost \in Nat /\ provider[id].charge \in Nat
  BY <1>1, Numbers DEF Fate
<1>6. TypeOK'
  <2>1. CASE rows' = rows
    BY <2>1, <1>2, <1>3
  <2>2. CASE s.provenance \in {"measured", "estimated"} /\ rows' = settled
    <3>1. s.provenance \in CallState
      BY <2>2 DEF CallState
    <3>2. rows' \in [CallId -> CallRow]
      <4> HIDE DEF cost
      <4> QED
        BY <2>2, <1>1, <1>5, <3>1 DEF CallRow
    <3> QED
      BY <3>2, <1>2, <1>3
  <2> QED
    BY <1>2, <2>1, <2>2
<1>7. \A k \in CallId : FateCounted(k)'
  <2> TAKE k \in CallId
  <2>1. CASE rows'[k] = rows[k]
    BY <2>1, <1>2 DEF FateCounted, Counted, Understated
  <2>2. CASE rows'[k] # rows[k]
    <3>1. /\ k = id /\ s.provenance \in {"measured", "estimated"}
          /\ rows'[id].state = s.provenance /\ rows'[id].settled = cost
          /\ rows'[id].reserved = MaxPrice[s.route]
      BY <2>2, <1>1, <1>2 DEF CallRow
    <3>2. Counted(rows'[id]) = cost
      BY <3>1 DEF Counted
    <3>3. provider[id].charge <= MaxPrice[s.route]
      BY <1>1, <1>5, Numbers DEF FateCounted, Counted, Understated
    <3>4. CASE s.provenance = "measured"
      <4>1. cost = provider[id].charge /\ Understated(rows'[id]) = 0
        BY <3>1, <3>4 DEF Understated
      <4> QED
        BY <3>1, <3>2, <3>4, <4>1, <1>1, <1>2, <1>5 DEF FateCounted
    <3>5. CASE s.provenance = "estimated"
      <4>1. /\ cost = ListPrice[s.route] /\ cost <= MaxPrice[s.route] /\ MaxPrice[s.route] \in Nat
            /\ Understated(rows'[id]) = MaxPrice[s.route] - cost
        BY <3>1, <3>5, <1>1, Numbers DEF Understated
      <4> HIDE DEF cost
      <4>2. cost + (MaxPrice[s.route] - cost) = MaxPrice[s.route]
        BY <4>1, <1>5
      <4> QED
        BY <3>1, <3>2, <3>3, <3>5, <4>1, <4>2, <1>1, <1>2, <1>5 DEF FateCounted
    <3> QED
      BY <3>1, <3>4, <3>5
  <2> QED
    BY <2>1, <2>2
<1>8. \A v \in Lane : HoldsReserved(v)'
  BY <1>1, <1>2, <1>3, <1>4 DEF HoldsReserved, Before, After
<1>9. OwnCalls'
  BY <1>3 DEF OwnCalls, Before, After
<1>10. Routed'
  BY <1>1, <1>3 DEF Routed, RouteKnown
<1> QED
  BY <1>6, <1>7, <1>8, <1>9, <1>10

\* What an ending thread does to the attempts: at most the one that waits for
\* its call moves on.
LEMMA ThreadMoves ==
  ASSUME CoverInv, NEW id \in CallId, NEW pc \in {"answered", "refused", "failed"},
         NEW provenance \in Provenance, ThreadEnds(id, pc, provenance)
  PROVE  /\ lane' \in [Lane -> Slot] /\ threads' \in SUBSET CallId
         /\ \A w \in Lane :
              \/ lane'[w] = lane[w] /\ (lane[w].pc # "waiting" \/ lane[w].call # id)
              \/ /\ lane[w].pc = "waiting" /\ lane[w].call = id
                 /\ lane'[w].pc = pc /\ lane'[w].provenance = provenance
                 /\ lane'[w].call = id /\ lane'[w].route = lane[w].route
<1> USE DEF CoverInv, TypeOK
<1>1. \A s \in Slot : [s EXCEPT !.pc = pc, !.provenance = provenance] \in Slot
  BY DEF Slot, Pc
<1> QED
  BY <1>1 DEF ThreadEnds, Slot

\* The provider finishes a call and its thread reports it.
LEMMA RespondStep ==
  ASSUME CoverInv, NEW id \in CallId, Respond(id)
  PROVE  CoverInv'
<1> USE DEF CoverInv, TypeOK, LedgerTypeOK
<1> DEFINE r == provider[id].route
<1>1. /\ provider[id] \in Fate /\ provider[id].state = "open" /\ r \in Route
      /\ rows[id].state = "reserved" /\ rows[id].reserved = MaxPrice[r]
      /\ UNCHANGED <<rows, limit, cap, stopped, lost>>
  BY DEF Respond, FateCounted
<1>2. PICK c \in Amount, provenance \in Provenance :
        /\ Charges(id, c) /\ ThreadEnds(id, "answered", provenance)
        /\ c <= MaxPrice[r] /\ c \in Nat
  <2>1. ListPrice[r] \in Amount /\ MaxPrice[r] \in Amount
        /\ ListPrice[r] \in Nat /\ MaxPrice[r] \in Nat /\ ListPrice[r] <= MaxPrice[r]
    BY <1>1, Numbers
  <2> QED
    BY <2>1 DEF Respond, Provenance
<1>3. /\ provider' \in [CallId -> Fate]
      /\ provider'[id].state = "closed" /\ provider'[id].charge = c /\ provider'[id].route = r
      /\ \A k \in CallId : k # id => provider'[k] = provider[k]
  BY <1>1, <1>2 DEF Charges, Fate
<1>4. TypeOK'
  BY <1>1, <1>2, <1>3, ThreadMoves
<1>5. \A k \in CallId : FateCounted(k)'
  <2> TAKE k \in CallId
  <2>1. CASE k = id
    BY <2>1, <1>1, <1>2, <1>3 DEF FateCounted, Counted, Understated
  <2>2. CASE k # id
    BY <2>2, <1>1, <1>3 DEF FateCounted, Counted, Understated
  <2> QED
    BY <2>1, <2>2
<1>6. \A v \in Lane : HoldsReserved(v)'
  <2> TAKE v \in Lane
  <2>1. CASE lane'[v] = lane[v] /\ (lane[v].pc # "waiting" \/ lane[v].call # id)
    <3>1. lane[v].pc \in Before \cup After => lane[v].call # id \/ lane[v].pc \in {"refused", "answered"}
      BY <2>1, <1>1 DEF HoldsReserved, Before, After
    <3> QED
      BY <2>1, <3>1, <1>1, <1>3 DEF HoldsReserved, Before, After
  <2>2. CASE lane[v].pc = "waiting" /\ lane[v].call = id
    <3>1. /\ lane'[v].pc = "answered" /\ lane'[v].provenance = provenance
          /\ lane'[v].call = id /\ lane'[v].route = lane[v].route
      BY <2>2, <1>2, ThreadMoves
    <3> QED
      BY <2>2, <3>1, <1>1, <1>2, <1>3 DEF HoldsReserved, Before, After
  <2> QED
    BY <2>1, <2>2, <1>2, ThreadMoves
<1>7. OwnCalls' /\ Routed'
  <2>1. \A v \in Lane : /\ lane'[v].pc \in Before \cup After =>
                             lane[v].pc \in Before \cup After /\ lane'[v].call = lane[v].call
                        /\ lane'[v] = lane[v] \/ lane'[v].pc = "answered"
    BY <1>2, ThreadMoves DEF Before, After
  <2> QED
    BY <2>1 DEF OwnCalls, Routed, RouteKnown
<1> QED
  BY <1>4, <1>5, <1>6, <1>7

\* A thread that fails leaves the call to the provider.
LEMMA BreakOffStep ==
  ASSUME CoverInv, NEW id \in CallId, BreakOff(id)
  PROVE  CoverInv'
<1>1. PICK pc \in {"refused", "failed"} : ThreadEnds(id, pc, "unknown")
  BY DEF BreakOff
<1>2. UNCHANGED <<rows, limit, cap, stopped, provider, lost>>
  BY DEF BreakOff
<1>3. "unknown" \in Provenance
  BY DEF Provenance
<1>4. TypeOK'
  BY <1>1, <1>2, <1>3, ThreadMoves DEF CoverInv, TypeOK, LedgerTypeOK
<1> QED
  BY <1>1, <1>2, <1>3, <1>4, ThreadMoves, LaneOnly DEF Before, After, CoverInv, Routed, RouteKnown

\* A charge nobody hears of was reserved for.
LEMMA ChargeUnheardStep ==
  ASSUME CoverInv, NEW id \in CallId, ChargeUnheard(id)
  PROVE  CoverInv'
<1> USE DEF CoverInv, TypeOK, LedgerTypeOK
<1> DEFINE r == provider[id].route
<1>1. /\ provider[id] \in Fate /\ provider[id].state = "open" /\ r \in Route
      /\ rows[id].state = "reserved" /\ rows[id].reserved = MaxPrice[r]
      /\ UNCHANGED <<rows, limit, cap, stopped, lane, threads, lost>>
  BY DEF ChargeUnheard, FateCounted
<1>2. PICK c \in {0, MaxPrice[r]} : Charges(id, c)
  BY DEF ChargeUnheard
<1>3. c \in Amount \cup {0} /\ c \in Nat /\ c <= MaxPrice[r]
  BY <1>1, <1>2, Numbers
<1>4. /\ provider' \in [CallId -> Fate]
      /\ provider'[id].state = "closed" /\ provider'[id].charge = c /\ provider'[id].route = r
      /\ \A k \in CallId : k # id => provider'[k] = provider[k]
  BY <1>1, <1>2, <1>3 DEF Charges, Fate
<1>5. \A k \in CallId : FateCounted(k)'
  <2> TAKE k \in CallId
  <2>1. CASE k = id
    BY <2>1, <1>1, <1>3, <1>4 DEF FateCounted, Counted, Understated
  <2>2. CASE k # id
    BY <2>2, <1>1, <1>4 DEF FateCounted, Counted, Understated
  <2> QED
    BY <2>1, <2>2
<1>6. \A v \in Lane : HoldsReserved(v)'
  BY <1>1, <1>4 DEF HoldsReserved, Before, After
<1> QED
  BY <1>1, <1>4, <1>5, <1>6 DEF OwnCalls, Routed

\* A new pass and a restart start with empty lanes.
LEMMA EmptyLanes ==
  ASSUME CoverInv, NextPass \/ Restart
  PROVE  CoverInv'
<1>1. EmptySlot \in Slot
  BY DEF EmptySlot, Slot, Pc, Provenance
<1>2. TypeOK'
  <2>1. lost' = 0 \/ lost' = lost
    BY DEF NextPass, Restart
  <2>2. lost' \in Nat
    BY <2>1 DEF CoverInv, TypeOK
  <2> QED
    BY ZenonT(40), <1>1, <2>2 DEF NextPass, Restart, CoverInv, TypeOK, LedgerTypeOK
<1>3. UNCHANGED <<rows, provider>> /\ \A w \in Lane : lane'[w] = EmptySlot
  BY DEF NextPass, Restart
<1> QED
  BY <1>2, <1>3, LaneOnly DEF EmptySlot, Before, After, RouteKnown

-----------------------------------------------------------------------------
(* The theorems. *)

\* The invariant is inductive.
LEMMA Inductive == Spec => []CoverInv
<1>1. Init => CoverInv
  <2> SUFFICES ASSUME Init PROVE CoverInv
    OBVIOUS
  <2>1. /\ \A w \in Lane : lane[w].pc = "idle" /\ lane[w].turns = 0
        /\ \A id \in CallId : provider[id].state = "unsent" /\ provider[id].charge = 0
                              /\ rows[id].state = "absent"
    BY DEF Init, EmptySlot, Unsent, LedgerInit, NoCall
  <2>2. TypeOK
    <3>1. NoCall \in CallRow
      BY DEF NoCall, CallRow, CallState
    <3>2. EmptySlot \in Slot
      BY EndedTyped, SlotTyped DEF EmptySlot, Slot, Pc, Provenance
    <3>3. Unsent \in Fate
      BY DEF Unsent, Fate
    <3> QED
      BY <3>1, <3>2, <3>3 DEF Init, LedgerInit, TypeOK, LedgerTypeOK
  <2> QED
    BY <2>1, <2>2 DEF CoverInv, FateCounted, HoldsReserved, OwnCalls, Routed, RouteKnown,
           Before, After
<1>2. CoverInv /\ [Next]_vars => CoverInv'
  <2> SUFFICES ASSUME CoverInv, [Next]_vars PROVE CoverInv'
    OBVIOUS
  <2>1. ASSUME NEW w \in Lane, LaneStep(w) PROVE CoverInv'
    BY <2>1, QuietSteps, AdmitStep, DispatchStep, ReleaseStep, SettleStep DEF LaneStep
  <2>2. ASSUME NEW id \in CallId, Respond(id) \/ BreakOff(id) \/ ChargeUnheard(id)
        PROVE  CoverInv'
    BY <2>2, RespondStep, BreakOffStep, ChargeUnheardStep
  <2>3. CASE NextPass \/ Restart
    BY <2>3, EmptyLanes
  <2>4. CASE UNCHANGED vars
    BY <2>4 DEF vars, CoverInv, TypeOK, LedgerTypeOK, FateCounted, Counted, Understated,
           HoldsReserved, OwnCalls, Routed
  <2> QED
    BY <2>1, <2>2, <2>3, <2>4 DEF Next
<1> QED
  BY <1>1, <1>2, PTL DEF Spec

\* Attempts, rows and the provider's calls keep their types.
THEOREM TypeCorrect == Spec => []TypeOK
<1>1. CoverInv => TypeOK
  BY DEF CoverInv
<1> QED
  BY <1>1, Inductive, PTL

\* What a row counts for and what it gave back are numbers.
LEMMA RowNumbers ==
  ASSUME NEW id \in CallId, rows[id] \in CallRow, FateCounted(id)
  PROVE  Counted(rows[id]) \in Nat /\ Understated(rows[id]) \in Nat
<1>1. Counted(rows[id]) \in Nat
  BY Numbers DEF CallRow, CallState, Counted
<1>2. rows[id].reserved \in Nat /\ rows[id].settled \in Nat
  BY Numbers DEF CallRow
<1> QED
  BY <1>1, <1>2 DEF FateCounted, Understated

\* The invariant says that every call is covered.
LEMMA CoverInvCovers == CoverInv => ChargesCovered
<1> SUFFICES ASSUME CoverInv, NEW id \in CallId
             PROVE  Exposure(id) <= Counted(rows[id]) + Understated(rows[id])
  BY DEF ChargesCovered
<1>1. provider[id] \in Fate /\ rows[id] \in CallRow /\ FateCounted(id)
  BY DEF CoverInv, TypeOK, LedgerTypeOK
<1>2. CASE provider[id].state = "open"
  BY <1>1, <1>2, Numbers DEF FateCounted, Exposure, Counted, Understated
<1>3. CASE provider[id].state = "closed"
  BY <1>1, <1>3 DEF FateCounted, Exposure
<1>4. CASE provider[id].state = "unsent"
  <2>1. Counted(rows[id]) \in Nat /\ Understated(rows[id]) \in Nat
    BY <1>1, RowNumbers
  <2> QED
    BY <1>1, <1>4, <2>1 DEF FateCounted, Exposure
<1> QED
  BY <1>1, <1>2, <1>3, <1>4 DEF Fate

\* Everything the provider has charged or can still charge is counted by the
\* ledger, whatever lanes, timeouts, failovers, lost answers and restarts do; a
\* call settled by estimate may have cost more, up to its reservation.
THEOREM Covered == Spec => []ChargesCovered
BY CoverInvCovers, Inductive, PTL

\* An attempt that started opened the ledger at the process's own limit, and its
\* first turn asks for one of the two routes the configuration names.
StopInv ==
  \A w \in Lane :
    /\ lane[w].pc \notin {"idle", "done"} => limit = cap
    /\ lane[w].pc = "routed" /\ lane[w].turns = 1 => lane[w].route \in {Cheap, Hard}

\* No step of a lane breaks it.
LEMMA LaneKeepsStop ==
  ASSUME CoverInv, StopInv, NEW w \in Lane, LaneStep(w)
  PROVE  StopInv'
<1> USE DEF CoverInv, TypeOK
<1>1. lane[w] \in Slot /\ cap' = cap
  BY DEF LaneStep, Begin, Prepare, Admit, Reroute, Refuse, TableFull, Dispatch,
         ReleaseFailover, Timeout, FailOver, Settle, EndAttempt, CrashAttempt
<1>2. \A v \in Lane : v # w => lane'[v] = lane[v]
  BY DEF LaneStep, Begin, Prepare, Admit, Reroute, Refuse, TableFull, Dispatch,
         ReleaseFailover, Timeout, FailOver, Settle, EndAttempt, CrashAttempt, Goto
<1>3. limit' = limit \/ limit' = cap
  BY DEF LaneStep, Begin, OpenLedger, Prepare, Admit, Reroute, Refuse, TableFull, Dispatch,
         ReleaseFailover, Timeout, FailOver, Settle, EndAttempt, CrashAttempt
<1>4. /\ lane'[w].pc \notin {"idle", "done"} => limit' = cap
      /\ lane'[w].pc = "routed" /\ lane'[w].turns = 1 => lane'[w].route \in {Cheap, Hard}
  <2>1. CASE Begin(w)
    <3>1. CASE OpenLedger(cap) /\ Goto(w, "open")
      BY <3>1, <1>1 DEF OpenLedger, Goto
    <3>2. CASE lane' = [lane EXCEPT ![w] = Ended]
      BY <3>2, <1>1, EndedTyped
    <3> QED
      BY <2>1, <3>1, <3>2 DEF Begin
  <2>2. CASE Prepare(w)
    <3>1. PICK r \in Route :
            /\ lane[w].turns > 0 \/ r \in {Cheap, Hard}
            /\ lane' = [lane EXCEPT ![w].pc = "routed", ![w].turns = @ + 1, ![w].route = r]
      BY <2>2 DEF Prepare
    <3>2. lane'[w].turns = lane[w].turns + 1 /\ lane'[w].route = r
      BY <3>1, <1>1 DEF Slot
    <3>3. lane[w].turns \in Nat
      BY <1>1 DEF Slot
    <3>4. lane'[w].turns = 1 => r \in {Cheap, Hard}
      <4> HIDE DEF CoverInv, TypeOK
      <4> QED
        BY <3>1, <3>2, <3>3
    <3> QED
      BY <2>2, <3>2, <3>4 DEF Prepare, StopInv
  <2>3. CASE Reroute(w)
    BY <2>3, <1>1 DEF Reroute, Denied, StopInv, Slot
  <2>4. CASE FailOver(w)
    BY <2>4, <1>1 DEF FailOver, Goto, StopInv, Slot
  <2>5. CASE EndAttempt(w) \/ CrashAttempt(w)
    BY <2>5, <1>1, EndedTyped DEF EndAttempt, CrashAttempt
  <2>6. CASE Admit(w)
    BY <2>6, <1>1 DEF Admit, StopInv, Slot
  <2>7. CASE Settle(w)
    <3>1. PICK pc \in {"open", "failed"} :
            lane'[w] = [lane[w] EXCEPT !.pc = pc, !.call = NoId, !.provenance = "unknown"]
      BY <2>7, <1>1 DEF Settle
    <3>2. lane'[w].pc = pc
      BY <3>1, <1>1 DEF Slot
    <3> QED
      BY <2>7, <3>2 DEF Settle, StopInv
  <2>8. CASE Refuse(w) \/ TableFull(w) \/ Dispatch(w) \/ ReleaseFailover(w) \/ Timeout(w)
    BY <2>8, <1>1 DEF Refuse, Denied, TableFull, Dispatch, ReleaseFailover, Timeout, Goto,
           StopInv, Slot
  <2> QED
    BY <2>1, <2>2, <2>3, <2>4, <2>5, <2>6, <2>7, <2>8 DEF LaneStep
<1> QED
  BY <1>1, <1>2, <1>3, <1>4 DEF StopInv

\* Nor does any other step.
LEMMA StopInductive == Spec => []StopInv
<1>1. Init => StopInv
  BY DEF Init, StopInv, EmptySlot
<1>2. CoverInv /\ StopInv /\ [Next]_vars => StopInv'
  <2> SUFFICES ASSUME CoverInv, StopInv, [Next]_vars PROVE StopInv'
    OBVIOUS
  <2>1. ASSUME NEW id \in CallId, Respond(id) \/ BreakOff(id) PROVE StopInv'
    <3>1. PICK pc \in {"answered", "refused", "failed"}, provenance \in Provenance :
            ThreadEnds(id, pc, provenance)
      BY <2>1 DEF Respond, BreakOff, Provenance
    <3> QED
      BY <2>1, <3>1, ThreadMoves DEF Respond, BreakOff, StopInv
  <2>2. ASSUME NEW id \in CallId, ChargeUnheard(id) PROVE StopInv'
    BY <2>2 DEF ChargeUnheard, StopInv
  <2>3. CASE NextPass \/ Restart
    BY <2>3 DEF NextPass, Restart, StopInv, EmptySlot
  <2>4. CASE UNCHANGED vars
    BY <2>4 DEF vars, StopInv
  <2> QED
    BY <2>1, <2>2, <2>3, <2>4, LaneKeepsStop DEF Next
<1> QED
  BY <1>1, <1>2, Inductive, PTL DEF Spec

\* A first turn that stops the run on the budget asked for the configured route,
\* at a moment when its price did not fit what the run has left.
THEOREM BudgetStopEarned == Spec => BudgetStopIsEarned
<1>1. CoverInv /\ StopInv /\ [Next]_vars =>
        [\A w \in Lane : lane[w].turns = 1 /\ lane[w].pc = "routed" /\ lane'[w].pc = "budget" =>
           Committed + MaxPrice[Cheap] > limit]_vars
  <2> SUFFICES ASSUME CoverInv, StopInv, Next, NEW w \in Lane,
                      lane[w].turns = 1, lane[w].pc = "routed", lane'[w].pc = "budget"
               PROVE  Committed + MaxPrice[Cheap] > limit
    OBVIOUS
  <2>1. Refuse(w)
    <3>1. ASSUME NEW v \in Lane, LaneStep(v), v # w PROVE FALSE
      BY <3>1 DEF LaneStep, Begin, Prepare, Admit, Reroute, Refuse, TableFull, Dispatch,
             ReleaseFailover, Timeout, FailOver, Settle, EndAttempt, CrashAttempt, Goto,
             CoverInv, TypeOK
    <3>2. ASSUME LaneStep(w) PROVE Refuse(w)
      <4>1. Admit(w) \/ Reroute(w) \/ Refuse(w) \/ TableFull(w)
        BY <3>2 DEF LaneStep, Begin, Prepare, Dispatch, ReleaseFailover, Timeout, FailOver,
               Settle, EndAttempt, CrashAttempt, Over
      <4>2. lane \in [Lane -> Slot]
        BY DEF CoverInv, TypeOK
      <4>3. ~Admit(w) /\ ~Reroute(w) /\ ~TableFull(w)
        BY ZenonT(40), <4>2 DEF Admit, Reroute, TableFull, Goto, Slot
      <4> QED
        BY <4>1, <4>3
    <3>3. ASSUME NEW id \in CallId, Respond(id) \/ BreakOff(id) PROVE FALSE
      <4>1. PICK pc \in {"answered", "refused", "failed"}, provenance \in Provenance :
              ThreadEnds(id, pc, provenance)
        BY <3>3 DEF Respond, BreakOff, Provenance
      <4> QED
        BY <4>1, ThreadMoves
    <3>4. ASSUME NEW id \in CallId, ChargeUnheard(id) PROVE FALSE
      BY <3>4 DEF ChargeUnheard
    <3>5. CASE NextPass \/ Restart
      BY <3>5, EndedTyped DEF NextPass, Restart
    <3> QED
      BY <3>1, <3>2, <3>3, <3>4, <3>5 DEF Next
  <2>2. lane[w].route = Cheap /\ limit = cap
    BY <2>1 DEF Refuse, FirstChoice, StopInv
  <2>3. Committed + MaxPrice[Cheap] > EffectiveLimit(cap)
    BY <2>1, <2>2 DEF Refuse, Denied, BudgetExhausted
  <2> QED
    BY <2>2, <2>3 DEF EffectiveLimit
<1> QED
  BY <1>1, Inductive, StopInductive, PTL DEF Spec, BudgetStopIsEarned

-----------------------------------------------------------------------------
(* The live dispatch threads.                                                 *)

\* The lanes that may have a dispatch thread: those that wait for one, those
\* that gave up on one, and, once the run is stopping, those that ended.
Occupied ==
  {w \in Lane : lane[w].pc \in {"waiting", "timeout"} \/ (stopped /\ lane[w].pc = "done")}

\* Every other one belongs to a timeout nobody heard of.
ThreadInv == IsFiniteSet(threads) /\ Cardinality(threads) <= Cardinality(Occupied) + lost

\* The occupied lanes are finitely many.
LEMMA OccupiedFinite ==
  /\ IsFiniteSet(Occupied) /\ Cardinality(Occupied) \in Nat
  /\ Cardinality(Occupied) <= Cardinality(Lane) /\ Cardinality(Lane) \in Nat
BY LanesAssumption, FS_Subset, FS_CardinalityType DEF Occupied

\* No thread is added, no lane is freed.
LEMMA ThreadsKept ==
  ASSUME ThreadInv, lost \in Nat, lost' = lost,
         threads' \subseteq threads, Occupied \subseteq Occupied'
  PROVE  ThreadInv'
<1>1. IsFiniteSet(Occupied')
  BY LanesAssumption, FS_Subset DEF Occupied
<1>2. Cardinality(Occupied) <= Cardinality(Occupied')
  BY <1>1, FS_Subset
<1>3. IsFiniteSet(threads') /\ Cardinality(threads') <= Cardinality(threads)
  BY FS_Subset DEF ThreadInv
<1>4. /\ Cardinality(threads) \in Nat /\ Cardinality(threads') \in Nat
      /\ Cardinality(Occupied) \in Nat /\ Cardinality(Occupied') \in Nat
  BY <1>1, <1>3, OccupiedFinite, FS_CardinalityType DEF ThreadInv
<1> QED
  BY <1>2, <1>3, <1>4 DEF ThreadInv

\* A dispatch takes a thread and a lane, and a thread that ends frees one lane at
\* most.  A lane that gave up stays occupied, and when it ends it stops the run.
LEMMA ThreadStep ==
  ASSUME CoverInv, ThreadInv, [Next]_vars
  PROVE  ThreadInv'
<1>0. lane \in [Lane -> Slot] /\ lost \in Nat
  BY DEF CoverInv, TypeOK
<1>1. ASSUME NEW w \in Lane, LaneStep(w), ~Dispatch(w), ~CrashAttempt(w) PROVE ThreadInv'
  <2>0. threads' = threads /\ lost' = lost /\ \A v \in Lane : v # w => lane'[v] = lane[v]
    BY <1>0, <1>1 DEF LaneStep, Begin, Prepare, Admit, Reroute, Refuse, TableFull,
           ReleaseFailover, Timeout, FailOver, Settle, EndAttempt, Goto
  <2>1. stopped => stopped'
    <3>1. CASE EndAttempt(w)
      BY <3>1 DEF EndAttempt
    <3>2. CASE ~EndAttempt(w)
      <4>1. stopped' = stopped
        BY <1>1, <3>2 DEF LaneStep, Begin, Prepare, Admit, Reroute, Refuse, TableFull,
               ReleaseFailover, Timeout, FailOver, Settle
      <4> QED
        BY <4>1
    <3> QED
      BY <3>1, <3>2
  <2>2. w \in Occupied => w \in Occupied'
    <3>1. CASE Timeout(w)
      BY <1>0, <3>1 DEF Timeout, Goto, Occupied, Slot
    <3>2. CASE EndAttempt(w)
      <4>1. lane'[w].pc = "done" /\ lane[w].pc # "done"
        BY <1>0, <3>2, EndedTyped DEF EndAttempt, Over
      <4>2. lane[w].pc = "timeout" => stopped'
        BY <3>2 DEF EndAttempt
      <4>3. lane[w].pc # "waiting"
        BY <3>2 DEF EndAttempt, Over
      <4> QED
        BY <2>1, <4>1, <4>2, <4>3 DEF Occupied
    <3>3. CASE ~Timeout(w) /\ ~EndAttempt(w)
      BY <1>1, <3>3 DEF LaneStep, Begin, Prepare, Admit, Denied, Reroute, Refuse, TableFull,
             ReleaseFailover, FailOver, Settle, Occupied
    <3> QED
      BY <3>1, <3>2, <3>3
  <2>3. Occupied \subseteq Occupied'
    BY <2>0, <2>1, <2>2 DEF Occupied
  <2> QED
    BY <1>0, <2>0, <2>3, ThreadsKept
<1>8. ASSUME NEW w \in Lane, CrashAttempt(w) PROVE ThreadInv'
  <2>1. /\ threads' = threads /\ stopped' = stopped
        /\ lost' = IF lane[w].pc = "timeout" THEN lost + 1 ELSE lost
        /\ lane[w].pc \in Over /\ lane'[w].pc = "done"
        /\ \A v \in Lane : v # w => lane'[v] = lane[v]
    BY <1>0, <1>8, EndedTyped DEF CrashAttempt
  <2>2. CASE lane[w].pc = "timeout"
    <3>1. Occupied \ {w} \subseteq Occupied' /\ w \in Occupied
      BY <2>1, <2>2 DEF Occupied
    <3>2. /\ IsFiniteSet(Occupied \ {w})
          /\ Cardinality(Occupied \ {w}) = Cardinality(Occupied) - 1
      BY <3>1, OccupiedFinite, FS_RemoveElement
    <3>3. /\ IsFiniteSet(Occupied') /\ Cardinality(Occupied') \in Nat
          /\ Cardinality(Occupied \ {w}) <= Cardinality(Occupied')
      <4>1. IsFiniteSet(Occupied')
        BY LanesAssumption, FS_Subset DEF Occupied
      <4> QED
        BY <4>1, <3>1, FS_Subset, FS_CardinalityType
    <3>4. Cardinality(threads) \in Nat /\ lost' = lost + 1
      BY <2>1, <2>2, FS_CardinalityType DEF ThreadInv
    <3> QED
      BY <1>0, <2>1, <3>2, <3>3, <3>4, OccupiedFinite DEF ThreadInv
  <2>3. CASE lane[w].pc # "timeout"
    <3>1. Occupied \subseteq Occupied' /\ lost' = lost
      BY <2>1, <2>3 DEF Occupied, Over
    <3> QED
      BY <1>0, <2>1, <3>1, ThreadsKept
  <2> QED
    BY <2>2, <2>3
<1>2. ASSUME NEW w \in Lane, Dispatch(w) PROVE ThreadInv'
  <2>1. /\ threads' = threads \cup {lane[w].call} /\ stopped' = stopped /\ lost' = lost
        /\ lane[w].pc \in {"admitted", "readmitted"}
        /\ lane'[w].pc = "waiting" /\ \A v \in Lane : v # w => lane'[v] = lane[v]
    BY <1>0, <1>2 DEF Dispatch, Goto, Slot
  <2>2. Occupied' = Occupied \cup {w} /\ w \notin Occupied
    BY <2>1 DEF Occupied
  <2>3. Cardinality(Occupied') = Cardinality(Occupied) + 1
    BY <2>2, OccupiedFinite, FS_AddElement
  <2>4. /\ IsFiniteSet(threads') /\ Cardinality(threads) \in Nat
        /\ Cardinality(threads') <= Cardinality(threads) + 1
    <3>1. CASE lane[w].call \in threads
      <4>1. threads' = threads
        BY <2>1, <3>1
      <4>2. Cardinality(threads) \in Nat
        BY FS_CardinalityType DEF ThreadInv
      <4> QED
        BY <4>1, <4>2 DEF ThreadInv
    <3>2. CASE lane[w].call \notin threads
      <4>1. IsFiniteSet(threads') /\ Cardinality(threads') = Cardinality(threads) + 1
        BY <2>1, <3>2, FS_AddElement DEF ThreadInv
      <4>2. Cardinality(threads) \in Nat
        BY FS_CardinalityType DEF ThreadInv
      <4> QED
        BY <4>1, <4>2
    <3> QED
      BY <3>1, <3>2
  <2>5. Cardinality(threads') \in Nat
    BY <2>4, FS_CardinalityType
  <2> QED
    BY <1>0, <2>1, <2>3, <2>4, <2>5, OccupiedFinite DEF ThreadInv
<1>3. ASSUME NEW id \in CallId, Respond(id) \/ BreakOff(id) PROVE ThreadInv'
  <2>1. PICK pc \in {"answered", "refused", "failed"}, provenance \in Provenance :
          ThreadEnds(id, pc, provenance)
    BY <1>3 DEF Respond, BreakOff, Provenance
  <2>2. id \in threads /\ threads' = threads \ {id} /\ stopped' = stopped /\ lost' = lost
    BY <1>3, <2>1 DEF Respond, BreakOff, ThreadEnds
  <2>3. \A w \in Lane : \/ lane'[w] = lane[w] /\ (lane[w].pc # "waiting" \/ lane[w].call # id)
                        \/ lane[w].pc = "waiting" /\ lane[w].call = id /\ lane'[w].pc = pc
    BY <2>1, ThreadMoves
  <2>4. CASE \E w \in Lane : lane[w].pc = "waiting" /\ lane[w].call = id
    <3>1. PICK w \in Lane : lane[w].pc = "waiting" /\ lane[w].call = id
      BY <2>4
    <3>2. \A v \in Lane : v # w => lane'[v] = lane[v]
      <4>1. \A v \in Lane : lane[v].pc = "waiting" /\ lane[v].call = id => v = w
        BY <3>1 DEF CoverInv, OwnCalls, After
      <4> QED
        BY <2>3, <4>1
    <3>3. lane'[w].pc = pc
      BY <2>3, <3>1
    <3>4. Occupied' = Occupied \ {w} /\ w \in Occupied
      BY <2>2, <3>1, <3>2, <3>3 DEF Occupied
    <3>5. Cardinality(Occupied') = Cardinality(Occupied) - 1
      BY <3>4, OccupiedFinite, FS_RemoveElement
    <3>6. IsFiniteSet(threads') /\ Cardinality(threads') = Cardinality(threads) - 1
      BY <2>2, FS_RemoveElement DEF ThreadInv
    <3>7. Cardinality(threads) \in Nat
      BY FS_CardinalityType DEF ThreadInv
    <3> QED
      BY <1>0, <2>2, <3>5, <3>6, <3>7, OccupiedFinite DEF ThreadInv
  <2>5. CASE ~\E w \in Lane : lane[w].pc = "waiting" /\ lane[w].call = id
    <3>1. \A w \in Lane : lane'[w] = lane[w]
      BY <2>3, <2>5
    <3>2. Occupied' = Occupied /\ threads' \subseteq threads
      BY <2>2, <3>1 DEF Occupied
    <3> QED
      BY <1>0, <2>2, <3>2, ThreadsKept
  <2> QED
    BY <2>4, <2>5
<1>4. ASSUME NEW id \in CallId, ChargeUnheard(id) PROVE ThreadInv'
  BY <1>0, <1>4, ThreadsKept DEF ChargeUnheard, Occupied
<1>5. CASE NextPass
  <2>1. Occupied = {} /\ threads' = threads /\ lost' = lost
    BY <1>5 DEF NextPass, Occupied
  <2> QED
    BY <1>0, <2>1, ThreadsKept
<1>6. CASE Restart
  <2>1. threads' = {} /\ lost' = 0
    BY <1>6 DEF Restart
  <2>2. IsFiniteSet(threads') /\ Cardinality(threads') = 0
    BY <2>1, FS_EmptySet
  <2>3. Cardinality(Occupied') \in Nat
    BY LanesAssumption, FS_Subset, FS_CardinalityType DEF Occupied
  <2> QED
    BY <2>1, <2>2, <2>3 DEF ThreadInv
<1>7. CASE UNCHANGED vars
  BY <1>7 DEF vars, ThreadInv, Occupied
<1> QED
  BY <1>1, <1>2, <1>3, <1>4, <1>5, <1>6, <1>7, <1>8 DEF Next

\* A process never has more live dispatch threads than lanes and timeouts whose
\* result was lost before the coordinator heard of it.
THEOREM ThreadsStayBounded == Spec => []ThreadsBounded
<1>1. Init => ThreadInv
  <2> SUFFICES ASSUME Init PROVE ThreadInv
    OBVIOUS
  <2>1. IsFiniteSet(threads) /\ Cardinality(threads) = 0 /\ lost = 0
    BY FS_EmptySet DEF Init
  <2> QED
    BY <2>1, OccupiedFinite DEF ThreadInv
<1>2. CoverInv /\ ThreadInv /\ [Next]_vars => ThreadInv'
  BY ThreadStep
<1>3. CoverInv /\ ThreadInv => ThreadsBounded
  <2> SUFFICES ASSUME CoverInv, ThreadInv PROVE ThreadsBounded
    OBVIOUS
  <2>1. Cardinality(threads) \in Nat /\ lost \in Nat
    BY FS_CardinalityType DEF ThreadInv, CoverInv, TypeOK
  <2> QED
    BY <2>1, OccupiedFinite DEF ThreadInv, ThreadsBounded
<1> QED
  BY <1>1, <1>2, <1>3, Inductive, PTL DEF Spec

-----------------------------------------------------------------------------
(* The three sums of the model.                                               *)

\* What the rows count for, what the provider charged or may still charge, and
\* what estimates gave back.
Weights == [id \in CallId |-> Counted(rows[id])]
Exposures == [id \in CallId |-> Exposure(id)]
Gaps == [id \in CallId |-> Understated(rows[id])]

CommittedSum ==
  Weights \in [CallId -> Nat] /\ \E g : Adds(g, Weights, CallId) /\ Committed = g[CallId]

ExposureSum ==
  Exposures \in [CallId -> Nat] /\ \E g : Adds(g, Exposures, CallId) /\ TotalExposure = g[CallId]

UnderstatedSum ==
  Gaps \in [CallId -> Nat] /\ \E g : Adds(g, Gaps, CallId) /\ TotalUnderstated = g[CallId]

\* MapThenSumSet computes the sum of the weights.
LEMMA CommittedAdds == LedgerTypeOK => CommittedSum
<1> SUFFICES ASSUME LedgerTypeOK PROVE CommittedSum
  OBVIOUS
<1> DEFINE P(g) == g = [s \in SUBSET CallId |->
                         IF s = {} THEN 0
                         ELSE LET x == CHOOSE x \in s : TRUE
                              IN  Counted(rows[x]) + g[s \ {x}]]
<1>1. Committed = (CHOOSE g : P(g))[CallId]
  BY DEF Committed, MapThenSumSet, MapThenFoldSet
<1>2. Weights \in [CallId -> Nat]
  BY Numbers DEF Weights, Counted, LedgerTypeOK, CallRow, CallState
<1>3. ASSUME NEW s \in (SUBSET CallId) \ {{}} PROVE Counted(rows[Some(s)]) = Weights[Some(s)]
  BY SomeIn DEF Weights
<1>4. PICK h : Adds(h, Weights, CallId)
  BY <1>2, AddsExists, LedgerAssumption
<1>5. P(h)
  <2>1. ASSUME NEW s \in SUBSET CallId
        PROVE  h[s] = IF s = {} THEN 0 ELSE LET x == CHOOSE x \in s : TRUE
                                           IN  Counted(rows[x]) + h[s \ {x}]
    <3>1. CASE s = {}
      BY <1>4, <3>1 DEF Adds
    <3>2. CASE s # {}
      <4>1. h[s] = Weights[Some(s)] + h[s \ {Some(s)}]
        BY <1>4, <3>2 DEF Adds
      <4>2. Counted(rows[Some(s)]) = Weights[Some(s)]
        BY <1>3, <3>2
      <4> QED
        BY <3>2, <4>1, <4>2 DEF Some
    <3> QED
      BY <3>1, <3>2
  <2> QED
    BY <1>4, <2>1 DEF Adds
<1>6. ASSUME NEW g, P(g) PROVE g = h
  <2>1. g = [s \in SUBSET CallId |-> g[s]]
    BY <1>6
  <2>2. \A s \in SUBSET CallId :
          g[s] = IF s = {} THEN 0 ELSE Weights[Some(s)] + g[s \ {Some(s)}]
    BY <1>3, <1>6 DEF Some
  <2>3. GoesThrough(g, Weights, CallId)
    BY <2>1, <2>2 DEF GoesThrough
  <2> QED
    BY <1>2, <1>4, <2>3, GoesThroughAdds, LedgerAssumption
<1> HIDE DEF P
<1>7. P(CHOOSE g : P(g))
  BY <1>5, Zenon
<1>8. (CHOOSE g : P(g)) = h
  BY <1>6, <1>7
<1> QED
  BY <1>1, <1>2, <1>4, <1>8 DEF CommittedSum

\* The same of the provider's side.
LEMMA ExposureAdds == CoverInv => ExposureSum
<1> SUFFICES ASSUME CoverInv PROVE ExposureSum
  OBVIOUS
<1> DEFINE P(g) == g = [s \in SUBSET CallId |->
                         IF s = {} THEN 0
                         ELSE LET x == CHOOSE x \in s : TRUE
                              IN  Exposure(x) + g[s \ {x}]]
<1>1. TotalExposure = (CHOOSE g : P(g))[CallId]
  BY DEF TotalExposure, MapThenSumSet, MapThenFoldSet
<1>2. Exposures \in [CallId -> Nat]
  <2> SUFFICES ASSUME NEW id \in CallId PROVE Exposure(id) \in Nat
    BY DEF Exposures
  <2>1. provider[id] \in Fate /\ FateCounted(id)
    BY DEF CoverInv, TypeOK
  <2> QED
    BY <2>1, Numbers DEF Exposure, Fate, FateCounted
<1>3. ASSUME NEW s \in (SUBSET CallId) \ {{}} PROVE Exposure(Some(s)) = Exposures[Some(s)]
  BY SomeIn DEF Exposures
<1>4. PICK h : Adds(h, Exposures, CallId)
  BY <1>2, AddsExists, LedgerAssumption
<1>5. P(h)
  <2>1. ASSUME NEW s \in SUBSET CallId
        PROVE  h[s] = IF s = {} THEN 0 ELSE LET x == CHOOSE x \in s : TRUE
                                           IN  Exposure(x) + h[s \ {x}]
    <3>1. CASE s = {}
      BY <1>4, <3>1 DEF Adds
    <3>2. CASE s # {}
      <4>1. h[s] = Exposures[Some(s)] + h[s \ {Some(s)}]
        BY <1>4, <3>2 DEF Adds
      <4>2. Exposure(Some(s)) = Exposures[Some(s)]
        BY <1>3, <3>2
      <4> QED
        BY <3>2, <4>1, <4>2 DEF Some
    <3> QED
      BY <3>1, <3>2
  <2> QED
    BY <1>4, <2>1 DEF Adds
<1>6. ASSUME NEW g, P(g) PROVE g = h
  <2>1. g = [s \in SUBSET CallId |-> g[s]]
    BY <1>6
  <2>2. \A s \in SUBSET CallId :
          g[s] = IF s = {} THEN 0 ELSE Exposures[Some(s)] + g[s \ {Some(s)}]
    BY <1>3, <1>6 DEF Some
  <2>3. GoesThrough(g, Exposures, CallId)
    BY <2>1, <2>2 DEF GoesThrough
  <2> QED
    BY <1>2, <1>4, <2>3, GoesThroughAdds, LedgerAssumption
<1> HIDE DEF P
<1>7. P(CHOOSE g : P(g))
  BY <1>5, Zenon
<1>8. (CHOOSE g : P(g)) = h
  BY <1>6, <1>7
<1> QED
  BY <1>1, <1>2, <1>4, <1>8 DEF ExposureSum

\* The same of what the estimates gave back.
LEMMA UnderstatedAdds == CoverInv => UnderstatedSum
<1> SUFFICES ASSUME CoverInv PROVE UnderstatedSum
  OBVIOUS
<1> DEFINE P(g) == g = [s \in SUBSET CallId |->
                         IF s = {} THEN 0
                         ELSE LET x == CHOOSE x \in s : TRUE
                              IN  Understated(rows[x]) + g[s \ {x}]]
<1>1. TotalUnderstated = (CHOOSE g : P(g))[CallId]
  BY DEF TotalUnderstated, MapThenSumSet, MapThenFoldSet
<1>2. Gaps \in [CallId -> Nat]
  <2> SUFFICES ASSUME NEW id \in CallId PROVE Understated(rows[id]) \in Nat
    BY DEF Gaps
  <2>1. rows[id] \in CallRow /\ FateCounted(id)
    BY DEF CoverInv, TypeOK, LedgerTypeOK
  <2> QED
    BY <2>1, RowNumbers
<1>3. ASSUME NEW s \in (SUBSET CallId) \ {{}} PROVE Understated(rows[Some(s)]) = Gaps[Some(s)]
  BY SomeIn DEF Gaps
<1>4. PICK h : Adds(h, Gaps, CallId)
  BY <1>2, AddsExists, LedgerAssumption
<1>5. P(h)
  <2>1. ASSUME NEW s \in SUBSET CallId
        PROVE  h[s] = IF s = {} THEN 0 ELSE LET x == CHOOSE x \in s : TRUE
                                           IN  Understated(rows[x]) + h[s \ {x}]
    <3>1. CASE s = {}
      BY <1>4, <3>1 DEF Adds
    <3>2. CASE s # {}
      <4>1. h[s] = Gaps[Some(s)] + h[s \ {Some(s)}]
        BY <1>4, <3>2 DEF Adds
      <4>2. Understated(rows[Some(s)]) = Gaps[Some(s)]
        BY <1>3, <3>2
      <4> QED
        BY <3>2, <4>1, <4>2 DEF Some
    <3> QED
      BY <3>1, <3>2
  <2> QED
    BY <1>4, <2>1 DEF Adds
<1>6. ASSUME NEW g, P(g) PROVE g = h
  <2>1. g = [s \in SUBSET CallId |-> g[s]]
    BY <1>6
  <2>2. \A s \in SUBSET CallId :
          g[s] = IF s = {} THEN 0 ELSE Gaps[Some(s)] + g[s \ {Some(s)}]
    BY <1>3, <1>6 DEF Some
  <2>3. GoesThrough(g, Gaps, CallId)
    BY <2>1, <2>2 DEF GoesThrough
  <2> QED
    BY <1>2, <1>4, <2>3, GoesThroughAdds, LedgerAssumption
<1> HIDE DEF P
<1>7. P(CHOOSE g : P(g))
  BY <1>5, Zenon
<1>8. (CHOOSE g : P(g)) = h
  BY <1>6, <1>7
<1> QED
  BY <1>1, <1>2, <1>4, <1>8 DEF UnderstatedSum

\* What holds in every state holds in the next one.
LEMMA SumsNext ==
  /\ LedgerTypeOK' => CommittedSum'
  /\ CoverInv' => ExposureSum' /\ UnderstatedSum' /\ ChargesCovered'
<1>1. CoverInv => ExposureSum /\ UnderstatedSum /\ ChargesCovered
  BY ExposureAdds, UnderstatedAdds, CoverInvCovers
<1> QED
  BY CommittedAdds, <1>1, PTL

\* Changing one row changes what is committed by the difference.
LEMMA CommittedChange ==
  ASSUME LedgerTypeOK, LedgerTypeOK', NEW id \in CallId,
         \A k \in CallId : k # id => rows'[k] = rows[k]
  PROVE  /\ Committed' + Counted(rows[id]) = Committed + Counted(rows'[id])
         /\ Committed \in Nat /\ Committed' \in Nat
<1>1. CommittedSum /\ CommittedSum'
  BY CommittedAdds, SumsNext
<1>2. PICK g : Adds(g, Weights, CallId) /\ Committed = g[CallId]
  BY <1>1 DEF CommittedSum
<1>3. PICK h : Adds(h, Weights', CallId) /\ Committed' = h[CallId]
  BY <1>1 DEF CommittedSum
<1>4. /\ Weights \in [CallId -> Nat] /\ Weights' \in [CallId -> Nat]
      /\ \A k \in CallId : k # id => Weights[k] = (Weights')[k]
      /\ Weights[id] = Counted(rows[id]) /\ (Weights')[id] = Counted(rows'[id])
  <2>1. Weights \in [CallId -> Nat] /\ Weights' \in [CallId -> Nat]
    BY <1>1 DEF CommittedSum
  <2>2. \A k \in CallId : Weights[k] = Counted(rows[k]) /\ (Weights')[k] = Counted(rows'[k])
    BY DEF Weights
  <2> QED
    BY <2>1, <2>2
<1>5. h[CallId] + Weights[id] = g[CallId] + (Weights')[id] /\ g[CallId] \in Nat /\ h[CallId] \in Nat
  BY <1>2, <1>3, <1>4, AddsChange, LedgerAssumption
<1> QED
  BY <1>2, <1>3, <1>4, <1>5

\* The provider's side never sums to more than the ledger's and what the
\* estimates gave back.
LEMMA ExposureFits ==
  ASSUME CoverInv'
  PROVE  /\ TotalExposure' <= Committed' + TotalUnderstated'
         /\ TotalExposure' \in Nat /\ Committed' \in Nat /\ TotalUnderstated' \in Nat
<1>1. CommittedSum' /\ ExposureSum' /\ UnderstatedSum' /\ ChargesCovered'
  BY SumsNext DEF CoverInv, TypeOK
<1>2. PICK f : Adds(f, Exposures', CallId) /\ TotalExposure' = f[CallId]
  BY <1>1 DEF ExposureSum
<1>3. PICK g : Adds(g, Weights', CallId) /\ Committed' = g[CallId]
  BY <1>1 DEF CommittedSum
<1>4. PICK h : Adds(h, Gaps', CallId) /\ TotalUnderstated' = h[CallId]
  BY <1>1 DEF UnderstatedSum
<1>5. /\ Weights' \in [CallId -> Nat] /\ Exposures' \in [CallId -> Nat]
      /\ Gaps' \in [CallId -> Nat]
  BY <1>1 DEF CommittedSum, ExposureSum, UnderstatedSum
<1>6. \A k \in CallId : (Exposures')[k] <= (Weights')[k] + (Gaps')[k]
  BY <1>1 DEF ChargesCovered, Weights, Exposures, Gaps
<1>7. f[CallId] <= g[CallId] + h[CallId]
  BY <1>2, <1>3, <1>4, <1>5, <1>6, AddsTwo, LedgerAssumption
<1> QED
  BY <1>2, <1>3, <1>4, <1>7 DEF Adds

\* No row changes, nothing committed changes.
LEMMA CommittedSame ==
  ASSUME LedgerTypeOK, LedgerTypeOK', rows' = rows
  PROVE  Committed' = Committed /\ Committed \in Nat
<1>1. CommittedSum /\ CommittedSum' /\ Weights' = Weights
  BY CommittedAdds, SumsNext DEF Weights
<1>2. PICK g : Adds(g, Weights, CallId) /\ Committed = g[CallId]
  BY <1>1 DEF CommittedSum
<1>3. PICK h : Adds(h, Weights, CallId) /\ Committed' = h[CallId]
  BY <1>1 DEF CommittedSum
<1>4. g[CallId] = h[CallId]
  BY <1>1, <1>2, <1>3, AddsUnique, LedgerAssumption DEF CommittedSum
<1> QED
  BY <1>2, <1>3, <1>4 DEF Adds

-----------------------------------------------------------------------------
(* Dispatches fit the durable limit, up to what estimates gave back.          *)

\* While a call is admitted and not yet dispatched, everything the ledger
\* counts fits the durable limit.  Once it is dispatched this may end: a later
\* process may lower the limit below what is already reserved.
RoomInv == \A w \in Lane : lane[w].pc \in Before => Committed <= limit

\* An admission leaves room, a settlement and a release make some, and no process
\* lowers the limit while one of its lanes holds an undispatched call.
LEMMA LaneKeepsRoom ==
  ASSUME CoverInv, CoverInv', StopInv, RoomInv, NEW w \in Lane, LaneStep(w)
  PROVE  RoomInv'
<1> USE DEF CoverInv, TypeOK
<1>1. lane[w] \in Slot /\ (lane[w].pc \notin {"idle", "done"} => limit = cap)
  BY DEF StopInv
<1>2. \A v \in Lane : v # w => lane'[v] = lane[v]
  BY DEF LaneStep, Begin, Prepare, Admit, Reroute, Refuse, TableFull, Dispatch,
         ReleaseFailover, Timeout, FailOver, Settle, EndAttempt, CrashAttempt, Goto
<1>3. CASE Admit(w)
  <2> DEFINE price == MaxPrice[lane[w].route]
  <2>1. PICK id \in CallId : ReserveCall(cap, id, price)
    BY <1>3 DEF Admit
  <2>2. price \in Nat /\ limit = cap /\ limit' = limit /\ limit \in Nat
    <3>1. lane[w].route \in Route
      BY <1>3 DEF Admit, Routed, RouteKnown
    <3>2. limit = cap /\ cap \in Nat
      <4>1. cap \in Limit /\ Limit \subseteq Nat
        OBVIOUS
      <4>2. lane[w].pc \in {"routed", "rerouted"}
        BY <1>3 DEF Admit
      <4> HIDE DEF CoverInv, TypeOK
      <4> QED
        BY <1>1, <4>1, <4>2
    <3> QED
      BY <1>3, <3>1, <3>2, Numbers DEF Admit
  <2>3. /\ Counted(rows[id]) = 0 /\ Counted(rows'[id]) = price
        /\ \A k \in CallId : k # id => rows'[k] = rows[k]
    BY <2>1 DEF ReserveCall, Counted, LedgerTypeOK
  <2>4. Committed + price <= limit
    BY <2>1, <2>2 DEF ReserveCall, EffectiveLimit
  <2>5. /\ Committed' + Counted(rows[id]) = Committed + Counted(rows'[id])
        /\ Committed \in Nat /\ Committed' \in Nat
    BY <2>3, CommittedChange
  <2> HIDE DEF price, CoverInv, TypeOK
  <2>6. Committed' <= limit'
    <3>1. Committed' + 0 = Committed + price
      BY <2>3, <2>5
    <3> QED
      BY <2>2, <2>4, <2>5, <3>1
  <2> QED
    BY <2>6 DEF RoomInv
<1>4. CASE Settle(w)
  <2>1. Committed' <= Committed /\ Committed \in Nat /\ Committed' \in Nat
    <3> DEFINE id == lane[w].call
    <3>1. id \in CallId
      BY <1>4 DEF Settle, HoldsReserved, After
    <3>2. rows[id].state = "reserved" /\ rows[id].reserved = MaxPrice[lane[w].route]
      BY <1>4 DEF Settle, HoldsReserved, After
    <3>3. \A k \in CallId : k # id => rows'[k] = rows[k]
      BY <1>4 DEF Settle, SettleCall, LedgerTypeOK
    <3>4. /\ Committed' + Counted(rows[id]) = Committed + Counted(rows'[id])
          /\ Committed \in Nat /\ Committed' \in Nat
      BY <3>1, <3>3, CommittedChange
    <3>5. Counted(rows[id]) \in Nat /\ Counted(rows'[id]) \in Nat
      BY <3>1, Numbers DEF Counted, LedgerTypeOK, CallRow, CallState
    <3>6. Counted(rows'[id]) <= Counted(rows[id])
      <4> DEFINE s == lane[w]
                 cost == IF s.provenance = "measured" THEN provider[id].charge
                         ELSE ListPrice[s.route]
      <4>1. CASE rows' = rows
        BY <3>5, <4>1
      <4>2. CASE rows' # rows
        <5>1. /\ s.provenance \in {"measured", "estimated"}
              /\ rows' = [rows EXCEPT ![id].state = s.provenance, ![id].settled = cost]
          BY <1>1, <1>4, <4>2 DEF Settle, SettleCall, Slot, Provenance
        <5>2. rows'[id].state \in {"measured", "estimated"} /\ rows'[id].settled = cost
          BY <3>1, <5>1 DEF LedgerTypeOK, CallRow
        <5>3. Counted(rows'[id]) = cost /\ Counted(rows[id]) = MaxPrice[s.route]
          BY <3>2, <5>2 DEF Counted
        <5>4. s.route \in Route /\ provider[id].charge <= Counted(rows[id])
          BY <1>4, <3>1, <3>2, <3>5 DEF Settle, HoldsReserved, After, FateCounted, Understated
        <5> QED
          BY <5>3, <5>4, Numbers
      <4> QED
        BY <4>1, <4>2
    <3> HIDE DEF id, CoverInv, TypeOK
    <3> QED
      BY <3>4, <3>5, <3>6
  <2>2. limit' = limit /\ limit \in Nat /\ lane'[w].pc \notin Before
    <3>1. PICK pc \in {"open", "failed"} :
            lane'[w] = [lane[w] EXCEPT !.pc = pc, !.call = NoId, !.provenance = "unknown"]
      BY <1>1, <1>4 DEF Settle
    <3>2. lane'[w].pc = pc
      BY <3>1, <1>1 DEF Slot
    <3>3. limit \in Nat
      BY DEF LedgerTypeOK
    <3> QED
      BY <1>4, <3>2, <3>3 DEF Settle, Before
  <2>3. \A v \in Lane : lane'[v].pc \in Before => Committed' <= limit'
    <3>1. \A v \in Lane : lane'[v].pc \in Before => Committed <= limit
      BY <1>2, <2>2 DEF RoomInv
    <3> HIDE DEF CoverInv, TypeOK
    <3> QED
      BY <3>1, <2>1, <2>2
  <2> QED
    BY <2>3 DEF RoomInv
<1>5. CASE ReleaseFailover(w)
  <2>1. Committed' <= Committed /\ Committed \in Nat /\ Committed' \in Nat
    <3> DEFINE id == lane[w].call
    <3>1. id \in CallId /\ rows[id] \in CallRow
      BY <1>5 DEF ReleaseFailover, HoldsReserved, Before, LedgerTypeOK
    <3>2. /\ \A k \in CallId : k # id => rows'[k] = rows[k]
          /\ rows'[id].state = "released"
      BY <1>5, <3>1 DEF ReleaseFailover, ReleaseUnstarted, LedgerTypeOK, CallRow
    <3>3. /\ Committed' + Counted(rows[id]) = Committed + Counted(rows'[id])
          /\ Committed \in Nat /\ Committed' \in Nat
      BY <3>1, <3>2, CommittedChange
    <3>4. Counted(rows[id]) \in Nat /\ Counted(rows'[id]) = 0
      BY <3>1, <3>2, Numbers DEF Counted, CallRow, CallState
    <3> HIDE DEF id, CoverInv, TypeOK
    <3> QED
      BY <3>3, <3>4
  <2>2. limit' = limit /\ limit \in Nat /\ lane'[w].pc \notin Before
    <3>1. limit \in Nat
      BY DEF LedgerTypeOK
    <3> QED
      BY <1>1, <1>5, <3>1 DEF ReleaseFailover, Goto, Before, Slot
  <2>3. \A v \in Lane : lane'[v].pc \in Before => Committed' <= limit'
    <3>1. \A v \in Lane : lane'[v].pc \in Before => Committed <= limit
      BY <1>2, <2>2 DEF RoomInv
    <3> HIDE DEF CoverInv, TypeOK
    <3> QED
      BY <3>1, <2>1, <2>2
  <2> QED
    BY <2>3 DEF RoomInv
<1>6. CASE Begin(w)
  <2>1. Committed' = Committed
    BY <1>6, CommittedSame DEF Begin
  <2>2. ASSUME NEW v \in Lane, lane[v].pc \in Before PROVE limit' = limit
    <3>1. limit = cap
      BY <2>2 DEF StopInv, Before
    <3> QED
      BY <1>6, <3>1 DEF Begin, OpenLedger
  <2>3. lane'[w].pc \notin Before
    BY <1>1, <1>6, EndedTyped DEF Begin, Goto, Before, Slot
  <2> QED
    BY <1>2, <2>1, <2>2, <2>3 DEF RoomInv
<1>7. CASE \/ Prepare(w) \/ Reroute(w) \/ Refuse(w) \/ TableFull(w) \/ Dispatch(w)
           \/ Timeout(w) \/ FailOver(w) \/ EndAttempt(w) \/ CrashAttempt(w)
  <2>1. Committed' = Committed /\ limit' = limit
    <3>1. rows' = rows /\ limit' = limit
      BY <1>7 DEF Prepare, Reroute, Refuse, TableFull, Dispatch, Timeout, FailOver, EndAttempt,
             CrashAttempt
    <3> QED
      BY <3>1, CommittedSame
  <2>2. lane'[w].pc \notin Before
    <3>1. CASE Prepare(w) \/ Reroute(w) \/ FailOver(w)
      BY <1>1, <3>1 DEF Prepare, Reroute, Denied, FirstChoice, FailOver, Goto, Before, Slot
    <3>2. CASE Refuse(w) \/ TableFull(w) \/ Dispatch(w) \/ Timeout(w)
      BY <1>1, <3>2 DEF Refuse, TableFull, Dispatch, Timeout, Goto, Before, Slot
    <3>3. CASE EndAttempt(w) \/ CrashAttempt(w)
      BY <3>3, EndedTyped DEF EndAttempt, CrashAttempt, Before
    <3> QED
      BY <1>7, <3>1, <3>2, <3>3
  <2> QED
    BY <1>2, <2>1, <2>2 DEF RoomInv
<1> QED
  BY <1>3, <1>4, <1>5, <1>6, <1>7 DEF LaneStep

\* No other step touches the rows, and none but a new attempt the limit.
LEMMA RoomStep ==
  ASSUME CoverInv, CoverInv', StopInv, RoomInv, [Next]_vars
  PROVE  RoomInv'
<1>1. ASSUME NEW id \in CallId, Respond(id) \/ BreakOff(id) PROVE RoomInv'
  <2>1. PICK pc \in {"answered", "refused", "failed"}, provenance \in Provenance :
          ThreadEnds(id, pc, provenance)
    BY <1>1 DEF Respond, BreakOff, Provenance
  <2>2. \A w \in Lane : lane'[w].pc \in Before => lane[w].pc \in Before
    BY <2>1, ThreadMoves DEF Before
  <2>3. limit' = limit /\ Committed' = Committed
    BY <1>1, CommittedSame DEF Respond, BreakOff, CoverInv, TypeOK
  <2> QED
    BY <2>2, <2>3 DEF RoomInv
<1>2. ASSUME NEW id \in CallId, ChargeUnheard(id) PROVE RoomInv'
  <2>1. limit' = limit /\ Committed' = Committed /\ lane' = lane
    BY <1>2, CommittedSame DEF ChargeUnheard, CoverInv, TypeOK
  <2> QED
    BY <2>1 DEF RoomInv
<1>3. CASE NextPass \/ Restart
  <2>1. \A w \in Lane : lane'[w].pc \notin Before
    BY <1>3 DEF NextPass, Restart, EmptySlot, Before
  <2> QED
    BY <2>1 DEF RoomInv
<1>4. CASE UNCHANGED vars
  <2>1. limit' = limit /\ Committed' = Committed /\ lane' = lane
    BY <1>4, CommittedSame DEF vars, CoverInv, TypeOK
  <2> QED
    BY <2>1 DEF RoomInv
<1> QED
  BY <1>1, <1>2, <1>3, <1>4, LaneKeepsRoom DEF Next

\* Only the dispatch of a lane sends a call.
LEMMA WhoSends ==
  ASSUME CoverInv, Next, NEW id \in CallId,
         provider[id].state = "unsent", provider'[id].state = "open"
  PROVE  \E w \in Lane : Dispatch(w)
<1>1. ASSUME NEW w \in Lane, LaneStep(w), ~Dispatch(w) PROVE provider' = provider
  BY <1>1 DEF LaneStep, Begin, Prepare, Admit, Reroute, Refuse, TableFull, ReleaseFailover,
         Timeout, FailOver, Settle, EndAttempt, CrashAttempt
<1>2. ASSUME NEW k \in CallId, Respond(k) \/ BreakOff(k) \/ ChargeUnheard(k) PROVE FALSE
  <2>1. \/ provider' = provider
        \/ \E c : provider' = [provider EXCEPT ![k].state = "closed", ![k].charge = c]
    BY <1>2 DEF Respond, BreakOff, ChargeUnheard, Charges
  <2>2. provider \in [CallId -> Fate]
    BY DEF CoverInv, TypeOK
  <2> QED
    BY <2>1, <2>2 DEF Fate
<1>3. CASE NextPass \/ Restart
  BY <1>3 DEF NextPass, Restart
<1> QED
  BY <1>1, <1>2, <1>3 DEF Next

\* What is exposed fits what is reserved with some to spare, and that the bound.
LEMMA FitsWithSpare ==
  ASSUME NEW exposure \in Nat, NEW before \in Nat, NEW after \in Nat, NEW spare \in Nat,
         NEW bound \in Nat, before <= bound, after = before, exposure <= after + spare
  PROVE  exposure <= bound + spare
OBVIOUS

\* Whenever a request leaves, everything the provider has charged or may still
\* charge fits the durable limit and what the estimates gave back.
THEOREM DispatchesFit == Spec => DispatchesFitTheLimit
<1>1. CoverInv /\ CoverInv' /\ StopInv /\ RoomInv /\ [Next]_vars =>
        [\A id \in CallId : provider[id].state = "unsent" /\ provider'[id].state = "open" =>
           TotalExposure' <= limit + TotalUnderstated']_vars
  <2> SUFFICES ASSUME CoverInv, CoverInv', RoomInv, Next, NEW id \in CallId,
                      provider[id].state = "unsent", provider'[id].state = "open"
               PROVE  TotalExposure' <= limit + TotalUnderstated'
    OBVIOUS
  <2>1. PICK w \in Lane : Dispatch(w)
    BY WhoSends
  <2>2. Committed <= limit
    BY <2>1 DEF Dispatch, RoomInv, Before
  <2>3. Committed' = Committed
    BY <2>1, CommittedSame DEF Dispatch, CoverInv, TypeOK
  <2>4. /\ TotalExposure' <= Committed' + TotalUnderstated'
        /\ TotalExposure' \in Nat /\ Committed' \in Nat /\ TotalUnderstated' \in Nat
    BY ExposureFits
  <2>5. limit \in Nat
    BY DEF CoverInv, TypeOK, LedgerTypeOK
  <2> QED
    BY <2>2, <2>3, <2>4, <2>5, FitsWithSpare
<1>2. Init => RoomInv
  BY DEF Init, RoomInv, EmptySlot, Before
<1>3. CoverInv /\ CoverInv' /\ StopInv /\ RoomInv /\ [Next]_vars => RoomInv'
  BY RoomStep
<1> QED
  BY <1>1, <1>2, <1>3, Inductive, StopInductive, PTL DEF Spec, DispatchesFitTheLimit

-----------------------------------------------------------------------------
(* The lanes as callers of the ledger.                                        *)

\* The ledger object of an attempt: opened when it began, dropped when it ended.
OwnObject == [w \in Lane |-> IF lane[w].pc \in {"idle", "done"} THEN 0 ELSE cap]

Ledgers == INSTANCE BudgetLedgerProofs WITH Instance <- Lane, own <- OwnObject

\* The sums and the count of the instance are the ones of the ledger itself.
LEMMA SameLedger ==
  /\ Ledgers!Committed = Committed
  /\ Ledgers!Cardinality(Ledgers!Recorded) = Cardinality(Recorded)
<1>1. Ledgers!Committed = Committed
  BY DEF Ledgers!Committed, Committed, Ledgers!MapThenSumSet, MapThenSumSet,
         Ledgers!MapThenFoldSet, MapThenFoldSet, Ledgers!Counted, Counted
<1>2. Ledgers!Cardinality(Ledgers!Recorded) = Cardinality(Recorded)
  BY DEF Ledgers!Recorded, Recorded, Ledgers!Cardinality, Cardinality
<1> QED
  BY <1>1, <1>2

\* So are its operations.
LEMMA SameOperations ==
  /\ LedgerInit <=> Ledgers!LedgerInit
  /\ \A mine : OpenLedger(mine) <=> Ledgers!OpenLedger(mine)
  /\ \A mine, id, maximum : ReserveCall(mine, id, maximum) <=> Ledgers!ReserveCall(mine, id, maximum)
  /\ \A id, provenance, cost : SettleCall(id, provenance, cost) <=> Ledgers!SettleCall(id, provenance, cost)
  /\ \A id : ReleaseUnstarted(id) <=> Ledgers!ReleaseUnstarted(id)
<1>1. LedgerInit <=> Ledgers!LedgerInit
  BY DEF LedgerInit, Ledgers!LedgerInit, NoCall, Ledgers!NoCall
<1>2. \A mine : OpenLedger(mine) <=> Ledgers!OpenLedger(mine)
  BY DEF OpenLedger, Ledgers!OpenLedger
<1>3. \A mine, id, maximum :
        ReserveCall(mine, id, maximum) <=> Ledgers!ReserveCall(mine, id, maximum)
  BY SameLedger DEF ReserveCall, Ledgers!ReserveCall, LedgerFull, Ledgers!LedgerFull,
         EffectiveLimit, Ledgers!EffectiveLimit
<1>4. \A id, provenance, cost :
        SettleCall(id, provenance, cost) <=> Ledgers!SettleCall(id, provenance, cost)
  BY DEF SettleCall, Ledgers!SettleCall, Settles, Ledgers!Settles
<1>5. \A id : ReleaseUnstarted(id) <=> Ledgers!ReleaseUnstarted(id)
  BY DEF ReleaseUnstarted, Ledgers!ReleaseUnstarted
<1> QED
  BY <1>1, <1>2, <1>3, <1>4, <1>5

\* What a lane's program counter says of its object.
LEMMA OwnedBy ==
  ASSUME CoverInv
  PROVE  \A w \in Lane : /\ lane[w].pc \in {"idle", "done"} <=> w \notin Ledgers!Opened
                         /\ w \in Ledgers!Opened => OwnObject[w] = cap
                         /\ w \notin Ledgers!Opened => OwnObject[w] = 0
<1>1. cap # 0
  BY DEF CoverInv, TypeOK
<1> QED
  BY <1>1 DEF OwnObject, Ledgers!Opened

\* A step that opens and drops no object and leaves the file alone is a stutter.
LEMMA LedgerStutter ==
  ASSUME UNCHANGED <<rows, limit, cap>>,
         \A w \in Lane : lane'[w].pc \in {"idle", "done"} <=> lane[w].pc \in {"idle", "done"}
  PROVE  UNCHANGED Ledgers!vars /\ OwnObject' = OwnObject
BY DEF Ledgers!vars, OwnObject

\* Each step of a lane is one operation of its object, or none.
LEMMA LaneUsesLedger ==
  ASSUME CoverInv, NEW w \in Lane, LaneStep(w)
  PROVE  Ledgers!Next \/ UNCHANGED Ledgers!vars
<1> USE DEF CoverInv, TypeOK
<1>1. lane[w] \in Slot /\ cap \in Limit /\ cap' = cap
  BY DEF LaneStep, Begin, Prepare, Admit, Reroute, Refuse, TableFull, Dispatch,
         ReleaseFailover, Timeout, FailOver, Settle, EndAttempt, CrashAttempt
<1>2. \A v \in Lane : v # w => lane'[v] = lane[v]
  BY DEF LaneStep, Begin, Prepare, Admit, Reroute, Refuse, TableFull, Dispatch,
         ReleaseFailover, Timeout, FailOver, Settle, EndAttempt, CrashAttempt, Goto
<1>3. CASE Begin(w) /\ OpenLedger(cap) /\ Goto(w, "open")
  <2>1. OwnObject' = [OwnObject EXCEPT ![w] = cap] /\ OwnObject[w] = 0
    <3>1. lane[w].pc = "idle" /\ lane'[w].pc = "open"
      BY <1>1, <1>3 DEF Begin, Goto, Slot
    <3> HIDE DEF CoverInv, TypeOK
    <3>2. OwnObject' = [v \in Lane |-> IF v = w THEN cap ELSE OwnObject[v]] /\ OwnObject[w] = 0
      BY <1>1, <1>2, <3>1 DEF OwnObject
    <3> QED
      BY <3>2 DEF OwnObject
  <2>2. Ledgers!Open(w, cap)
    BY <1>3, <2>1, SameOperations DEF Begin, Ledgers!Open
  <2> QED
    BY <1>1, <2>2 DEF Ledgers!Next
<1>4. CASE Begin(w) /\ lane' = [lane EXCEPT ![w] = Ended] /\ UNCHANGED limit
  BY <1>4, EndedTyped, LedgerStutter DEF Begin
<1>5. CASE Prepare(w) \/ Reroute(w) \/ FailOver(w)
  <2>1. UNCHANGED <<rows, limit, cap>>
    BY <1>5 DEF Prepare, Reroute, FailOver
  <2>2. lane'[w].pc \notin {"idle", "done"} /\ lane[w].pc \notin {"idle", "done"}
    BY <1>1, <1>5 DEF Prepare, Reroute, Denied, FirstChoice, FailOver, Goto, Slot
  <2> QED
    BY <1>2, <2>1, <2>2, LedgerStutter
<1>6. CASE Refuse(w) \/ TableFull(w) \/ Dispatch(w) \/ Timeout(w)
  <2>1. UNCHANGED <<rows, limit, cap>>
    BY <1>6 DEF Refuse, TableFull, Dispatch, Timeout
  <2>2. lane'[w].pc \notin {"idle", "done"} /\ lane[w].pc \notin {"idle", "done"}
    BY <1>1, <1>6 DEF Refuse, Denied, TableFull, Dispatch, Timeout, Goto, Slot
  <2> QED
    BY <1>2, <2>1, <2>2, LedgerStutter
<1>7. CASE Admit(w)
  <2> DEFINE price == MaxPrice[lane[w].route]
  <2>1. PICK id \in CallId : ReserveCall(cap, id, price)
    BY <1>7 DEF Admit
  <2>2. price \in Amount \ {0}
    BY <1>7 DEF Admit, Routed, RouteKnown
  <2>3. lane'[w].pc \notin {"idle", "done"} /\ lane[w].pc \in {"routed", "rerouted"}
    BY <1>1, <1>7 DEF Admit, Slot
  <2>4. OwnObject' = OwnObject /\ w \in Ledgers!Opened /\ OwnObject[w] = cap
    BY <1>1, <1>2, <2>3, OwnedBy DEF OwnObject
  <2>5. Ledgers!Reserve(w, id, price)
    BY <1>7, <2>1, <2>4, SameOperations DEF Admit, Ledgers!Reserve
  <2> HIDE DEF price
  <2> QED
    BY <2>2, <2>5 DEF Ledgers!Next
<1>8. CASE ReleaseFailover(w)
  <2>1. lane[w].call \in CallId /\ ReleaseUnstarted(lane[w].call)
    BY <1>8 DEF ReleaseFailover, HoldsReserved, Before
  <2>2. lane'[w].pc \notin {"idle", "done"} /\ lane[w].pc = "readmitted"
    BY <1>1, <1>8 DEF ReleaseFailover, Goto, Slot
  <2>3. OwnObject' = OwnObject /\ w \in Ledgers!Opened
    BY <1>1, <1>2, <2>2, OwnedBy DEF OwnObject
  <2>4. Ledgers!Release(w, lane[w].call)
    BY <1>8, <2>1, <2>3, SameOperations DEF ReleaseFailover, Ledgers!Release
  <2> QED
    BY <2>1, <2>4 DEF Ledgers!Next
<1>9. CASE Settle(w)
  <2> DEFINE s == lane[w]
             cost == IF s.provenance = "measured" THEN provider[s.call].charge
                     ELSE ListPrice[s.route]
  <2>1. /\ s.call \in CallId /\ s.route \in Route
        /\ UNCHANGED <<limit, cap>>
        /\ IF s.provenance = "unknown" THEN UNCHANGED rows
           ELSE SettleCall(s.call, s.provenance, cost)
    BY <1>9 DEF Settle, HoldsReserved, After
  <2>2. cost \in Amount \cup {0}
    BY <2>1 DEF Fate
  <2>3. lane'[w].pc \notin {"idle", "done"} /\ lane[w].pc = "answered"
    <3>1. PICK pc \in {"open", "failed"} :
            lane'[w] = [lane[w] EXCEPT !.pc = pc, !.call = NoId, !.provenance = "unknown"]
      BY <1>1, <1>9 DEF Settle
    <3>2. lane'[w].pc = pc
      BY <3>1, <1>1 DEF Slot
    <3> QED
      BY <1>9, <3>2 DEF Settle
  <2>4. OwnObject' = OwnObject /\ w \in Ledgers!Opened
    BY <1>1, <1>2, <2>3, OwnedBy DEF OwnObject
  <2>5. CASE s.provenance = "unknown"
    BY <2>1, <2>4, <2>5 DEF Ledgers!vars
  <2>6. CASE s.provenance # "unknown"
    <3>1. s.provenance \in {"measured", "estimated"}
      BY <1>1, <2>6 DEF Slot, Provenance
    <3> HIDE DEF cost
    <3>2. Ledgers!Settle(w, s.call, s.provenance, cost)
      BY <2>1, <2>4, <2>6, SameOperations DEF Ledgers!Settle
    <3> QED
      BY <2>1, <2>2, <3>1, <3>2 DEF Ledgers!Next
  <2> QED
    BY <2>5, <2>6
<1>10. CASE EndAttempt(w) \/ CrashAttempt(w)
  <2>1. lane'[w].pc = "done" /\ lane[w].pc \notin {"idle", "done"}
    BY <1>1, <1>10, EndedTyped DEF EndAttempt, CrashAttempt, Over
  <2>2. OwnObject' = [v \in Lane |-> IF v \in {w} THEN 0 ELSE OwnObject[v]]
    BY <1>1, <1>2, <2>1 DEF OwnObject
  <2>3. {w} \subseteq Ledgers!Opened
    BY <2>1, OwnedBy
  <2>4. Ledgers!Close({w})
    BY <1>10, <2>2, <2>3 DEF EndAttempt, CrashAttempt, Ledgers!Close
  <2> QED
    BY <2>4 DEF Ledgers!Next
<1> QED
  BY <1>3, <1>4, <1>5, <1>6, <1>7, <1>8, <1>9, <1>10 DEF LaneStep, Begin

\* Attempts, threads, passes and process ends use the ledger the way
\* BudgetInstances lets any callers use it: initial states map to initial
\* states, every step to an operation of one object, to the end of the objects
\* of a process, or to a stutter.
THEOREM LanesUseTheLedger == Spec => Ledgers!Spec
<1>1. Init => Ledgers!Init
  <2> SUFFICES ASSUME Init PROVE Ledgers!Init
    OBVIOUS
  <2>1. OwnObject = [w \in Lane |-> 0]
    BY DEF Init, EmptySlot, OwnObject
  <2> QED
    BY <2>1, SameOperations DEF Init, Ledgers!Init
<1>2. CoverInv /\ [Next]_vars => [Ledgers!Next]_(Ledgers!vars)
  <2> SUFFICES ASSUME CoverInv, [Next]_vars PROVE Ledgers!Next \/ UNCHANGED Ledgers!vars
    OBVIOUS
  <2>1. ASSUME NEW id \in CallId, Respond(id) \/ BreakOff(id) PROVE UNCHANGED Ledgers!vars
    <3>1. PICK pc \in {"answered", "refused", "failed"}, provenance \in Provenance :
            ThreadEnds(id, pc, provenance)
      BY <2>1 DEF Respond, BreakOff, Provenance
    <3>2. \A w \in Lane : lane'[w].pc \in {"idle", "done"} <=> lane[w].pc \in {"idle", "done"}
      BY <3>1, ThreadMoves
    <3> QED
      BY <2>1, <3>2, LedgerStutter DEF Respond, BreakOff
  <2>2. ASSUME NEW id \in CallId, ChargeUnheard(id) PROVE UNCHANGED Ledgers!vars
    BY <2>2, LedgerStutter DEF ChargeUnheard
  <2>3. CASE NextPass
    <3>1. \A w \in Lane : lane'[w].pc = "idle"
      BY <2>3, EndedTyped DEF NextPass
    <3> QED
      BY <2>3, <3>1, LedgerStutter DEF NextPass
  <2>4. CASE Restart
    <3>1. OwnObject' = [w \in Lane |-> 0]
      <4>1. \A w \in Lane : lane'[w].pc = "idle"
        BY <2>4, EndedTyped DEF Restart
      <4> QED
        BY <4>1 DEF OwnObject
    <3>2. UNCHANGED <<rows, limit>>
      BY <2>4 DEF Restart
    <3>3. OwnObject' = [w \in Lane |-> IF w \in Ledgers!Opened THEN 0 ELSE OwnObject[w]]
      BY <3>1, OwnedBy
    <3>4. CASE Ledgers!Opened = {}
      <4>1. OwnObject' = OwnObject
        BY <3>1, <3>4, OwnedBy DEF OwnObject
      <4> QED
        BY <3>2, <4>1 DEF Ledgers!vars
    <3>5. CASE Ledgers!Opened # {}
      <4>1. Ledgers!Close(Ledgers!Opened) /\ Ledgers!Opened \in SUBSET Lane
        BY <3>2, <3>3, <3>5 DEF Ledgers!Close, Ledgers!Opened
      <4> QED
        BY <4>1 DEF Ledgers!Next
    <3> QED
      BY <3>4, <3>5
  <2>5. CASE UNCHANGED vars
    BY <2>5, LedgerStutter DEF vars
  <2> QED
    BY <2>1, <2>2, <2>3, <2>4, <2>5, LaneUsesLedger DEF Next
<1> QED
  BY <1>1, <1>2, Inductive, PTL DEF Spec, Ledgers!Spec

\* So what holds of the ledger under any callers holds here: no lane of a process
\* with a higher limit reopens budget, and settled accounts stay settled.
THEOREM LanesFitEveryLimit == Spec => Ledgers!FitsEveryLimit /\ Ledgers!AccountsAreFinal
<1>1. Ledgers!IsFiniteSet(CallId)
  BY LedgerAssumption DEF IsFiniteSet, Ledgers!IsFiniteSet
<1>2. Ledgers!Spec => Ledgers!FitsEveryLimit
  BY <1>1, Ledgers!AdmissionsFit
<1>3. Ledgers!Spec => Ledgers!AccountsAreFinal
  BY <1>1, Ledgers!AccountsFinal
<1> QED
  BY <1>2, <1>3, LanesUseTheLedger, PTL

=============================================================================
