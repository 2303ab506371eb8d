------------------------ MODULE ArenaCoordinatorProofs -----------------------
(***************************************************************************)
(* Proofs about the outer coordinator, for any catalogue, crowd, proofs,   *)
(* caps and run length.  The invariant has four parts: types, where the    *)
(* static lane can be, how the pause of a pass covers the back-offs, and   *)
(* that a challenge picked by the ranking stays a good pick until it       *)
(* starts.                                                                 *)
(***************************************************************************)
EXTENDS ArenaCoordinator, TLAPS

USE RankingAssumption, CoordinatorAssumption

-----------------------------------------------------------------------------
(* The parts of the invariant. *)

\* An attempt runs on a challenge.
TargetsOK ==
    /\ main.pc \in {"admit", "admitted", "running"} => main.target \in Challenge
    /\ main.pc = "admitted" => main.static \in Challenge
    /\ worker.pc # "none" => main.static \in Challenge
    /\ worker.solved => worker.pc # "none"

\* The worker exists from the admission of the pair to take, unless the run
\* breaks off; the pass is untouched before its first admission.
LaneInv ==
    /\ main.pc \notin {"running", "take", "ended"} => worker.pc = "none"
    /\ main.pc \in {"list", "admit"} => pass.lanes = {}
    /\ main.pc = "admitted" => pass.lanes = {"dynamic"} /\ ~stopped

\* The pause that is left covers every back-off that is left.
BackoffInv ==
    /\ main.pc = "list" => \A c \in Challenge : rows[c].wait = 0
    /\ main.pc = "sleep" => \A c \in Challenge : rows[c].wait <= main.pause

\* No open rival is more deserving.
GoodPick(c) ==
    \A d \in Rivals(c) :
        /\ rows[c].solved => rows[d].solved
        /\ ~rows[d].solved => rows[c].attempts <= rows[d].attempts + CreditCap

PickInv ==
    main.pc \in {"admit", "admitted"} =>
        /\ GoodPick(main.target)
        /\ main.static # NoChallenge => GoodPick(main.static)

-----------------------------------------------------------------------------
(* Rows. *)

\* checkpoint_outcome keeps a row well-typed, and a solve for good.
LEMMA AdvancedType ==
    ASSUME NEW row \in Row, NEW outcome \in Outcome
    PROVE  Advanced(row, outcome) \in Row /\ (row.solved => Advanced(row, outcome).solved)
<1> DEFINE solved == outcome = "solved" \/ row.solved
           streak == IF solved THEN 0 ELSE AtMost(row.streak + 1, MaxStreak)
<1>1. row.attempts \in 0..MaxCount /\ row.streak \in 0..MaxStreak /\ row.solved \in BOOLEAN
  BY DEF Row
<1>2. AtMost(row.attempts + 1, MaxCount) \in 0..MaxCount
  BY <1>1 DEF AtMost
<1>3. streak \in 0..MaxStreak
  BY <1>1 DEF AtMost
<1>4. Backoff(streak) \in 0..BackoffCap
  BY <1>3 DEF Backoff, AtMost
<1>5. solved \in BOOLEAN
  BY <1>1
<1>6. Advanced(row, outcome)
        = [attempts |-> AtMost(row.attempts + 1, MaxCount), streak |-> streak,
           missed |-> outcome = "unsolved", solved |-> solved, wait |-> Backoff(streak),
           later |-> {}]
  BY DEF Advanced
<1> HIDE DEF solved, streak
<1>7. Advanced(row, outcome) \in Row
  BY <1>2, <1>3, <1>4, <1>5, <1>6 DEF Row
<1>8. Advanced(row, outcome).solved = solved
  BY <1>6
<1> QED
  BY <1>7, <1>8 DEF solved

\* The same for the table.
LEMMA RecordedType ==
    ASSUME rows \in [Challenge -> Row], NEW set \in SUBSET Challenge, NEW outcome \in Outcome
    PROVE  /\ Recorded(rows, set, outcome) \in [Challenge -> Row]
           /\ \A c \in Challenge : rows[c].solved => Recorded(rows, set, outcome)[c].solved
<1>1. ASSUME NEW c \in Challenge
      PROVE  /\ Recorded(rows, set, outcome)[c] \in Row
             /\ rows[c].solved => Recorded(rows, set, outcome)[c].solved
  <2>1. CASE c \in set
    BY <2>1, AdvancedType DEF Recorded
  <2>2. CASE c \notin set
    <3>1. Recorded(rows, set, outcome)[c] = [rows[c] EXCEPT !.later = @ \cup set]
      BY <2>2 DEF Recorded
    <3> QED
      BY <3>1 DEF Row
  <2> QED
    BY <2>1, <2>2
<1> QED
  BY <1>1 DEF Recorded

\* The clock moves a back-off one step to its end and changes nothing else.
LEMMA TickedRows ==
    ASSUME rows \in [Challenge -> Row], Tick
    PROVE  /\ rows' \in [Challenge -> Row]
           /\ \A c \in Challenge :
                /\ rows'[c].solved = rows[c].solved
                /\ rows'[c].attempts = rows[c].attempts
                /\ rows'[c].wait = AtLeast(rows[c].wait - 1, 0)
<1>1. rows' = [c \in Challenge |-> [rows[c] EXCEPT !.wait = AtLeast(@ - 1, 0)]]
  BY DEF Tick
<1>2. ASSUME NEW c \in Challenge PROVE AtLeast(rows[c].wait - 1, 0) \in 0..BackoffCap
  BY DEF AtLeast, Row
<1> QED
  BY <1>1, <1>2 DEF Row

\* note_result's view of an ending is an outcome.
LEMMA ResultType == \A end \in Ending : Result(end) \in Outcome
BY DEF Ending, Result, Outcome

-----------------------------------------------------------------------------
(* The ranking. *)

\* A key that does not precede another is not smaller at the first difference.
LEMMA FirstDifference ==
    ASSUME NEW s \in Seq(Int), NEW t \in Seq(Int), Len(s) = Len(t), ~Precedes(s, t),
           NEW i \in 1..Len(s), \A j \in 1..(i - 1) : s[j] = t[j]
    PROVE  s[i] >= t[i]
<1>1. DOMAIN s = 1..Len(s) /\ s[i] \in Int /\ t[i] \in Int
  OBVIOUS
<1>2. ~(s[i] < t[i])
  BY <1>1 DEF Precedes
<1> QED
  BY <1>1, <1>2

\* A key is eight numbers, most of them flags.
LEMMA KeyShape ==
    ASSUME NEW c \in Challenge, NEW solved, rows \in [Challenge -> Row]
    PROVE  /\ RankKey(c, solved) \in Seq(Int) /\ Len(RankKey(c, solved)) = 8
           /\ RankKey(c, solved)[3] \in {0, 1}
           /\ RankKey(c, solved)[4] \in 0..6
           /\ RankKey(c, solved)[5] \in {0, 1}
           /\ RankKey(c, solved)[6] = AtLeast(0, rows[c].attempts - Credit(c))
<1>1. Tier(c) \in 0..6
  BY DEF Tier
<1>2. rows[c].attempts \in Nat
  BY DEF Row
<1>3. Credit(c) \in Int /\ AtMost(Crowd[c], CountCap) \in Int
  BY DEF Credit, AtMost
<1>4. AtLeast(0, rows[c].attempts - Credit(c)) \in Int
  BY <1>2, <1>3 DEF AtLeast
<1> HIDE DEF Tier, Ready, Fresh, RetryDue, AtLeast, AtMost
<1> QED
  BY <1>1, <1>2, <1>3, <1>4 DEF RankKey, Flagged

\* What is not listed as solved comes first or last as the table has it.
LEMMA SolvedKey ==
    ASSUME NEW c \in Challenge, NEW solved, c \notin solved, rows \in [Challenge -> Row]
    PROVE  RankKey(c, solved)[1] = IF rows[c].solved THEN 1 ELSE 0
BY DEF RankKey, Flagged

\* Whatever is ready has the same second part.
LEMMA ReadyKey ==
    ASSUME NEW c \in Challenge, NEW solved, Ready(c)
    PROVE  RankKey(c, solved)[2] = 0
BY DEF RankKey, Flagged

\* A challenge with two attempts is in no preferred group.
LEMMA RepeatedKey ==
    ASSUME NEW c \in Challenge, NEW solved, rows \in [Challenge -> Row], rows[c].attempts > 1
    PROVE  /\ RankKey(c, solved)[3] = 1
           /\ RankKey(c, solved)[4] = 6
           /\ RankKey(c, solved)[5] = 1
<1>1. ~Fresh(c) /\ ~RetryDue(c) /\ rows[c].attempts # 1
  BY DEF Fresh, RetryDue, Row
<1>2. Tier(c) = 6
  BY <1>1 DEF Tier
<1> QED
  BY <1>1, <1>2 DEF RankKey, Flagged

\* The clause of GoodPick for one rival, from the order of the keys.
LEMMA KeysDecide ==
    ASSUME NEW c \in Challenge, NEW d \in Challenge, NEW solved, rows \in [Challenge -> Row],
           c \notin solved, d \notin solved, Ready(c), Ready(d),
           ~Precedes(RankKey(d, solved), RankKey(c, solved))
    PROVE  /\ rows[c].solved => rows[d].solved
           /\ ~rows[d].solved => rows[c].attempts <= rows[d].attempts + CreditCap
<1> DEFINE s == RankKey(d, solved)
           t == RankKey(c, solved)
<1>1. /\ s \in Seq(Int) /\ t \in Seq(Int) /\ Len(s) = 8 /\ Len(t) = 8
      /\ rows[c].attempts \in Nat /\ rows[d].attempts \in Nat
      /\ rows[c].solved \in BOOLEAN /\ rows[d].solved \in BOOLEAN
  BY KeyShape DEF Row
<1>2. ASSUME NEW i \in 1..8, \A j \in 1..(i - 1) : s[j] = t[j] PROVE s[i] >= t[i]
  <2> HIDE DEF s, t
  <2> QED
    BY <1>1, <1>2, FirstDifference DEF s, t
<1>3. /\ s[1] = (IF rows[d].solved THEN 1 ELSE 0)
      /\ t[1] = (IF rows[c].solved THEN 1 ELSE 0)
  BY SolvedKey
<1>4. s[1] >= t[1]
  BY <1>2
<1>5. rows[c].solved => rows[d].solved
  BY <1>1, <1>3, <1>4
<1>6. ASSUME ~rows[d].solved, rows[c].attempts > 1
      PROVE  rows[c].attempts <= rows[d].attempts + CreditCap
  <2>1. s[1] = t[1]
    BY <1>1, <1>3, <1>5, <1>6
  <2>2. s[2] = t[2]
    BY ReadyKey
  <2>4. t[3] = 1 /\ t[4] = 6 /\ t[5] = 1
    BY <1>6, RepeatedKey
  <2>5. s[3] \in {0, 1} /\ s[4] \in 0..6 /\ s[5] \in {0, 1}
    BY KeyShape
  <2>6. s[3] = t[3]
    <3>1. \A j \in 1..2 : s[j] = t[j]
      BY <2>1, <2>2
    <3>2. s[3] >= t[3]
      BY <1>2, <3>1
    <3> QED
      BY <2>4, <2>5, <3>2
  <2>7. s[4] = t[4]
    <3>1. \A j \in 1..3 : s[j] = t[j]
      BY <2>1, <2>2, <2>6
    <3>2. s[4] >= t[4]
      BY <1>2, <3>1
    <3> QED
      BY <2>4, <2>5, <3>2
  <2>8. s[5] = t[5]
    <3>1. \A j \in 1..4 : s[j] = t[j]
      BY <2>1, <2>2, <2>6, <2>7
    <3>2. s[5] >= t[5]
      BY <1>2, <3>1
    <3> QED
      BY <2>4, <2>5, <3>2
  <2>9. s[6] >= t[6]
    <3>1. \A j \in 1..5 : s[j] = t[j]
      BY <2>1, <2>2, <2>6, <2>7, <2>8
    <3> QED
      BY <1>2, <3>1
  <2>10. AtLeast(0, rows[d].attempts - Credit(d)) >= AtLeast(0, rows[c].attempts - Credit(c))
    BY <2>9, KeyShape
  <2>11. Credit(c) \in 0..CreditCap /\ Credit(d) \in 0..CreditCap
    BY DEF Credit, AtMost
  <2>12. CreditCap \in Nat
    OBVIOUS
  <2> HIDE DEF s, t
  <2>13. \A m, n \in Nat, x, y \in 0..CreditCap :
           AtLeast(0, n - y) >= AtLeast(0, m - x) => m <= n + CreditCap
    BY <2>12 DEF AtLeast
  <2> QED
    BY <1>1, <2>10, <2>11, <2>13
<1> QED
  BY SMTT(20), <1>1, <1>5, <1>6

\* What prepare picks from a set of ready, open challenges is a good pick
\* against all of that set.
LEMMA BestIsGood ==
    ASSUME rows \in [Challenge -> Row], NEW set \in SUBSET Challenge, NEW solved,
           set \cap solved = {}, \A d \in set : Ready(d), NEW c \in BestOf(set, solved)
    PROVE  /\ c \in set
           /\ \A d \in set : /\ rows[c].solved => rows[d].solved
                             /\ ~rows[d].solved =>
                                    rows[c].attempts <= rows[d].attempts + CreditCap
<1>1. c \in set /\ \A d \in set : ~Precedes(RankKey(d, solved), RankKey(c, solved))
  BY DEF BestOf
<1>2. ASSUME NEW d \in set
      PROVE  /\ rows[c].solved => rows[d].solved
             /\ ~rows[d].solved => rows[c].attempts <= rows[d].attempts + CreditCap
  <2>1. c \in Challenge /\ d \in Challenge /\ c \notin solved /\ d \notin solved
        /\ Ready(c) /\ Ready(d) /\ ~Precedes(RankKey(d, solved), RankKey(c, solved))
    BY <1>1
  <2> QED
    BY <2>1, KeysDecide
<1> QED
  BY <1>1, <1>2

-----------------------------------------------------------------------------
(* Types. *)

\* A catalogue that is read or cached is well-typed.
LEMMA CataloguesType == TypeOK => Catalogues \subseteq Cache
<1> SUFFICES ASSUME TypeOK, NEW k \in Catalogues PROVE k \in Cache
  OBVIOUS
<1>1. \/ \E o \in Openings : \E s \in SUBSET Challenge :
           k = [read |-> TRUE, listed |-> o, confirmed |-> o \cap s, solved |-> o \cap s]
      \/ k = cache
  BY DEF Catalogues
<1>2. cache \in Cache
  BY DEF TypeOK
<1>3. ASSUME NEW o \in Openings, NEW s \in SUBSET Challenge,
             k = [read |-> TRUE, listed |-> o, confirmed |-> o \cap s, solved |-> o \cap s]
      PROVE  k \in Cache
  <2>1. o \in SUBSET Challenge /\ o \cap s \in SUBSET Challenge
    OBVIOUS
  <2> QED
    BY <1>3, <2>1 DEF Cache
<1> QED
  BY <1>1, <1>2, <1>3

\* prepare names challenges that are listed and open, and nothing else.
LEMMA PreparedType ==
    ASSUME NEW k \in Cache, NEW m \in Prepared(k)
    PROVE  /\ m \in Main /\ m.pc \in {"admit", "rest"} /\ m.pause = 0
           /\ m.pc = "admit" => m.target \in Challenge
<1>1. k.listed \subseteq Challenge
  BY DEF Cache
<1>2. \A set, solved : BestOf(set, solved) \subseteq set
  BY DEF BestOf
<1>3. \A kinds : Candidates(k, kinds) \subseteq Challenge
  BY <1>1 DEF Candidates
<1>4. \A p \in {"admit", "rest"}, c \in Challenge \cup {NoChallenge},
         s \in Challenge \cup {NoChallenge} :
        [pc |-> p, target |-> c, static |-> s, pause |-> 0] \in Main
  BY DEF Main, MainPc
<1>5. \/ \E d \in Challenge, s \in Challenge :
           m = [pc |-> "admit", target |-> d, static |-> s, pause |-> 0]
      \/ \E d \in Challenge :
           m = [pc |-> "admit", target |-> d, static |-> NoChallenge, pause |-> 0]
      \/ m = [pc |-> "rest", target |-> NoChallenge, static |-> NoChallenge, pause |-> 0]
  BY <1>1, <1>2, <1>3 DEF Prepared
<1> QED
  BY <1>4, <1>5

\* Moving the main thread on keeps what it works on.
LEMMA GotoType ==
    ASSUME main \in Main, NEW pc \in MainPc
    PROVE  /\ Goto(pc) \in Main /\ Goto(pc).pc = pc
           /\ Goto(pc).target = main.target /\ Goto(pc).static = main.static
           /\ Goto(pc).pause = main.pause
BY DEF Goto, Main

\* What the coordinator writes into a pass is well-typed.
LEMMA PassType ==
    ASSUME pass \in Pass
    PROVE  /\ \A lane \in Lane : Admitted(lane) \in Pass
           /\ Deferred \in Pass /\ NewPass \in Pass
           /\ \A lane \in Lane : Admitted(lane).lanes = pass.lanes \cup {lane}
           /\ NewPass.lanes = {}
<1>1. ASSUME NEW lane \in Lane
      PROVE  Admitted(lane) \in Pass /\ Admitted(lane).lanes = pass.lanes \cup {lane}
  BY DEF Admitted, Pass
<1>2. Deferred \in Pass
  BY DEF Deferred, Pass
<1>3. NewPass \in Pass /\ NewPass.lanes = {}
  BY DEF NewPass, Pass
<1> QED
  BY <1>1, <1>2, <1>3

\* note_result keeps the fields of a pass and of the coordinator well-typed.
LEMMA NoteResultType ==
    ASSUME pass \in Pass, stopped \in BOOLEAN, NEW end, NoteResult(end)
    PROVE  pass' \in Pass /\ stopped' \in BOOLEAN
<1>1. pass' = [pass EXCEPT !.waiting = @ \/ end = "waiting", !.allSolved = @ /\ end = "solved"]
  BY DEF NoteResult
<1>2. (pass.waiting \/ end = "waiting") \in BOOLEAN /\ (pass.allSolved /\ end = "solved") \in BOOLEAN
  OBVIOUS
<1>3. pass' \in Pass
  BY <1>1, <1>2 DEF Pass
<1>4. stopped' \in BOOLEAN
  BY DEF NoteResult, Stops
<1> QED
  BY <1>3, <1>4

\* A solve joins the cached ones.
LEMMA SolvedJoins ==
    ASSUME cache \in Cache, NEW c \in Challenge
    PROVE  [cache EXCEPT !.solved = @ \cup {c}] \in Cache
BY DEF Cache

TypeInv == TypeOK /\ TargetsOK

\* Each step keeps the types and the targets of what runs.
LEMMA TypeStep ==
    ASSUME TypeInv, LaneInv, [Next]_vars
    PROVE  TypeInv'
<1> USE DEF TypeInv, TypeOK, TargetsOK
<1>a. "failed" \in Outcome /\ "solved" \in Outcome
  BY DEF Outcome
<1>e. \A c \in Challenge : Recorded(rows, {c}, "failed") \in [Challenge -> Row]
  <2> TAKE c \in Challenge
  <2>1. {c} \in SUBSET Challenge
    OBVIOUS
  <2> QED
    BY <1>a, <2>1, RecordedType
<1>b. /\ Idle \in Worker /\ ~Idle.solved /\ Idle.pc = "none"
      /\ \A p \in WorkerPc, b \in BOOLEAN : [pc |-> p, solved |-> b] \in Worker
      /\ worker.pc \in WorkerPc /\ worker.solved \in BOOLEAN
  BY DEF Idle, Worker, WorkerPc
<1>c. {"list", "admit", "admitted", "running", "take", "rest", "returned", "sleep", "ended"}
        \subseteq MainPc
  BY DEF MainPc
<1>d. Delay \in 0..Recovery
  BY DEF Delay
<1>1. CASE ListChallenges
  <2>1. cache' \in Cache /\ main' \in Prepared(cache')
    BY <1>1, CataloguesType DEF ListChallenges
  <2>2. main' \in Main /\ main'.pc \in {"admit", "rest"}
        /\ (main'.pc = "admit" => main'.target \in Challenge)
    BY <2>1, PreparedType
  <2>3. worker' = worker /\ worker.pc = "none" /\ ~worker.solved
    BY <1>1 DEF ListChallenges
  <2> QED
    BY <1>1, <2>1, <2>2, <2>3 DEF ListChallenges
<1>2. CASE MainFails
  BY <1>2, <1>c, GotoType DEF MainFails
<1>3. CASE AdmitTarget
  <2>1. main.pc = "admit" /\ worker.pc = "none" /\ UNCHANGED <<rows, mode, left, cache, worker>>
    BY <1>3 DEF AdmitTarget, LaneInv
  <2>2. OwnLane \in Lane /\ Stops \in BOOLEAN
    BY DEF OwnLane, Lane, Stops
  <2>3. stopped' \in BOOLEAN /\ pass' \in Pass
    BY <1>3, <2>2, PassType DEF AdmitTarget
  <2>4. \/ main' = Goto("take") \/ main' = Goto("running")
        \/ main' = Goto("admitted") /\ main.static # NoChallenge
    BY <1>3 DEF AdmitTarget
  <2>5. main.static # NoChallenge => main.static \in Challenge
    BY DEF Main
  <2> QED
    BY <1>c, <2>1, <2>3, <2>4, <2>5, GotoType
<1>4. CASE AdmitStatic
  <2>1. main.pc = "admitted" /\ UNCHANGED <<rows, mode, left, cache>>
    BY <1>4 DEF AdmitStatic
  <2>2. stopped' \in BOOLEAN /\ pass' \in Pass
    BY <1>4, PassType DEF AdmitStatic, Stops, Lane
  <2>3. worker' = worker \/ worker' = [pc |-> "detail", solved |-> FALSE]
    BY <1>4 DEF AdmitStatic, Idle
  <2>4. main' = Goto("ended") \/ main' = Goto("running")
    BY <1>4 DEF AdmitStatic
  <2>5. worker' \in Worker /\ (worker'.solved => worker'.pc # "none")
    <3>1. CASE worker' = worker
      BY <3>1
    <3>2. CASE worker' = [pc |-> "detail", solved |-> FALSE]
      BY <1>b, <3>2 DEF WorkerPc
    <3> QED
      BY <2>3, <3>1, <3>2
  <2> QED
    BY <1>c, <2>1, <2>2, <2>4, <2>5, GotoType
<1>5. ASSUME NEW end \in Ending, MainAttemptEnds(end) PROVE TypeInv'
  <2>1. main.target \in Challenge /\ UNCHANGED <<mode, left, worker>> /\ main' = Goto("take")
    BY <1>5 DEF MainAttemptEnds
  <2>2. rows' \in [Challenge -> Row]
    BY <1>5, <2>1, RecordedType, ResultType DEF MainAttemptEnds
  <2>3. cache' \in Cache
    BY <1>5, <2>1, SolvedJoins DEF MainAttemptEnds
  <2>4. pass' \in Pass /\ stopped' \in BOOLEAN
    BY <1>5, NoteResultType DEF MainAttemptEnds
  <2> QED
    BY <1>c, <2>1, <2>2, <2>3, <2>4, GotoType
<1>6. CASE MainAttemptRaises
  <2>1. main.target \in Challenge /\ UNCHANGED <<mode, left, cache, worker>> /\ main' = Goto("ended")
    BY <1>6 DEF MainAttemptRaises
  <2>2. rows' \in [Challenge -> Row]
    BY <1>6, <1>e, <2>1 DEF MainAttemptRaises
  <2>3. pass' \in Pass /\ stopped' \in BOOLEAN
    BY <1>6, NoteResultType DEF MainAttemptRaises
  <2> QED
    BY <1>c, <2>1, <2>2, <2>3, GotoType
<1>7. CASE TakeStatic
  <2>1. cache' \in Cache
    BY <1>7, SolvedJoins DEF TakeStatic
  <2> QED
    BY <1>7, <1>b, <1>c, <2>1, GotoType DEF TakeStatic
<1>8. CASE VisitRest
  <2> DEFINE rest == Targets \ {main.target, main.static}
             solved == rest \cap cache.solved
  <2>1. /\ rows' = Recorded(rows, solved, "solved")
        /\ pass' = [pass EXCEPT !.called = @ \/ rest # {}, !.allSolved = @ /\ rest \subseteq solved]
        /\ stopped' = (stopped \/ (left = 0 /\ ~(rest \subseteq solved)))
        /\ main' = Goto("returned") /\ main.pc = "rest" /\ UNCHANGED <<mode, left, cache, worker>>
    BY <1>8 DEF VisitRest
  <2>2. solved \subseteq Challenge
    BY DEF Cache
  <2>3. rows' \in [Challenge -> Row]
    BY <1>a, <2>1, <2>2, RecordedType
  <2> HIDE DEF rest, solved
  <2>4. pass' \in Pass
    <3>1. (pass.called \/ rest # {}) \in BOOLEAN /\ (pass.allSolved /\ rest \subseteq solved) \in BOOLEAN
      OBVIOUS
    <3> QED
      BY <2>1, <3>1 DEF Pass
  <2>5. stopped' \in BOOLEAN
    BY <2>1
  <2> QED
    BY <1>c, <2>1, <2>3, <2>4, <2>5, GotoType
<1>9. CASE PassEnds
  <2>1. main' = Goto("ended") \/ main' = [main EXCEPT !.pc = "sleep", !.pause = Delay]
    BY <1>9 DEF PassEnds
  <2>2. [main EXCEPT !.pc = "sleep", !.pause = Delay] \in Main
    BY <1>c, <1>d DEF Main
  <2> QED
    BY <1>9, <1>c, <2>1, <2>2, GotoType DEF PassEnds, Main
<1>10. CASE MainRefuses
  BY <1>10, <1>c, GotoType DEF MainRefuses
<1>11. CASE BeginPass
  BY <1>11, <1>c, GotoType, PassType DEF BeginPass
<1>12. CASE WorkerDetail
  <2>1. main.static \in Challenge /\ UNCHANGED <<mode, left, cache, main>>
    BY <1>12 DEF WorkerDetail
  <2>2. rows' \in [Challenge -> Row]
    <3>1. rows' = rows \/ rows' = Recorded(rows, {main.static}, "failed")
      BY <1>12 DEF WorkerDetail
    <3> QED
      BY <1>e, <2>1, <3>1
  <2>3. pass' \in Pass /\ stopped' \in BOOLEAN
    <3>1. UNCHANGED <<pass, stopped>> \/ NoteResult("failed")
      BY <1>12 DEF WorkerDetail
    <3> QED
      BY <3>1, NoteResultType
  <2>4. \/ worker' = [worker EXCEPT !.pc = "running"] \/ worker' = [worker EXCEPT !.pc = "failed"]
        \/ worker' = [pc |-> "done", solved |-> FALSE]
    BY <1>12 DEF WorkerDetail, Delivers
  <2>5. worker' \in Worker /\ worker'.pc # "none"
    <3>1. CASE worker' = [worker EXCEPT !.pc = "running"]
      BY <3>1 DEF Worker, WorkerPc
    <3>2. CASE worker' = [worker EXCEPT !.pc = "failed"]
      BY <3>2 DEF Worker, WorkerPc
    <3>3. CASE worker' = [pc |-> "done", solved |-> FALSE]
      BY <3>3 DEF Worker, WorkerPc
    <3> QED
      BY <2>4, <3>1, <3>2, <3>3
  <2> QED
    BY <2>1, <2>2, <2>3, <2>5
<1>13. ASSUME NEW end \in Ending, WorkerAttemptEnds(end) PROVE TypeInv'
  <2>1. main.static \in Challenge /\ UNCHANGED <<mode, left, cache, main>>
        /\ worker' = [pc |-> "done", solved |-> end = "solved"]
    BY <1>13 DEF WorkerAttemptEnds, Delivers
  <2>2. rows' \in [Challenge -> Row]
    <3>1. Result(end) \in Outcome /\ {main.static} \in SUBSET Challenge
      BY <2>1, ResultType
    <3>2. rows' = Recorded(rows, {main.static}, Result(end))
      BY <1>13 DEF WorkerAttemptEnds
    <3> QED
      BY <3>1, <3>2, RecordedType
  <2>3. pass' \in Pass /\ stopped' \in BOOLEAN
    BY <1>13, NoteResultType DEF WorkerAttemptEnds
  <2>4. worker' \in Worker /\ worker'.pc # "none"
    BY <1>b, <2>1 DEF WorkerPc
  <2> QED
    BY <2>1, <2>2, <2>3, <2>4
<1>14. CASE WorkerAttemptRaises
  <2>1. main.static \in Challenge /\ UNCHANGED <<mode, left, cache, main>>
        /\ worker' = [pc |-> "done", solved |-> FALSE]
    BY <1>14 DEF WorkerAttemptRaises, Delivers
  <2>2. rows' \in [Challenge -> Row]
    BY <1>14, <1>e, <2>1 DEF WorkerAttemptRaises
  <2>3. pass' \in Pass /\ stopped' \in BOOLEAN
    BY <1>14, NoteResultType DEF WorkerAttemptRaises
  <2>4. worker' \in Worker /\ worker'.pc # "none"
    BY <1>b, <2>1 DEF WorkerPc
  <2> QED
    BY <2>1, <2>2, <2>3, <2>4
<1>15. CASE Tick
  <2>1. rows' \in [Challenge -> Row]
    BY <1>15, TickedRows
  <2>2. main' \in Main /\ main'.pc = main.pc
        /\ main'.target = main.target /\ main'.static = main.static
    BY <1>15 DEF Tick, Main, AtLeast
  <2>3. left' \in 0..MaxRun
    BY <1>15 DEF Tick
  <2> QED
    BY <1>15, <2>1, <2>2, <2>3 DEF Tick
<1>16. CASE UNCHANGED vars
  BY <1>16 DEF vars
<1> QED
  BY <1>1, <1>2, <1>3, <1>4, <1>5, <1>6, <1>7, <1>8, <1>9, <1>10, <1>11, <1>12, <1>13,
     <1>14, <1>15, <1>16 DEF Next, MainSteps, WorkerSteps

-----------------------------------------------------------------------------
(* The lanes. *)

\* The static lane is free outside of its pair, and a pair holds one lane
\* between its two admissions.
LEMMA LaneStep ==
    ASSUME TypeInv, LaneInv, [Next]_vars
    PROVE  LaneInv'
<1> USE DEF LaneInv
<1>a. main \in Main /\ pass \in Pass /\ worker.pc \in WorkerPc
  BY DEF TypeInv, TypeOK, Worker
<1>b. \A pc \in MainPc : Goto(pc).pc = pc
  BY <1>a, GotoType
<1>c. {"list", "admit", "admitted", "running", "take", "rest", "returned", "sleep", "ended"}
        \subseteq MainPc
  BY DEF MainPc
<1>1. CASE ListChallenges
  <2>1. cache' \in Cache /\ main' \in Prepared(cache')
    BY <1>1, CataloguesType DEF ListChallenges, TypeInv
  <2>2. main'.pc \in {"admit", "rest"}
    BY <2>1, PreparedType
  <2> QED
    BY <1>1, <2>2 DEF ListChallenges
<1>2. CASE MainFails \/ MainRefuses
  BY <1>2, <1>b, <1>c DEF MainFails, MainRefuses
<1>3. CASE AdmitTarget
  <2>1. main.pc = "admit" /\ worker' = worker /\ worker.pc = "none" /\ pass.lanes = {}
    BY <1>3 DEF AdmitTarget
  <2>2. \/ main' = Goto("take") \/ main' = Goto("running")
        \/ /\ main' = Goto("admitted") /\ main.static # NoChallenge
           /\ pass' = Admitted(OwnLane) /\ ~Stops /\ UNCHANGED stopped
    BY <1>3 DEF AdmitTarget
  <2>3. ASSUME main' = Goto("admitted"), main.static # NoChallenge,
               pass' = Admitted(OwnLane), ~Stops, UNCHANGED stopped
        PROVE  LaneInv'
    <3>1. pass' = Admitted("dynamic") /\ "dynamic" \in Lane
      BY <2>3 DEF OwnLane, Lane
    <3>2. pass'.lanes = {"dynamic"}
      BY <1>a, <2>1, <3>1, PassType
    <3> QED
      BY <1>b, <1>c, <2>1, <2>3, <3>2 DEF Stops
  <2> QED
    BY <1>b, <1>c, <2>1, <2>2, <2>3
<1>4. CASE AdmitStatic
  <2>1. main' = Goto("ended") \/ main' = Goto("running")
    BY <1>4 DEF AdmitStatic
  <2> QED
    BY <1>b, <1>c, <2>1
<1>5. ASSUME NEW end \in Ending, MainAttemptEnds(end) PROVE LaneInv'
  BY <1>5, <1>b, <1>c DEF MainAttemptEnds
<1>6. CASE MainAttemptRaises
  BY <1>6, <1>b, <1>c DEF MainAttemptRaises
<1>7. CASE TakeStatic
  BY <1>7, <1>b, <1>c DEF TakeStatic, Idle
<1>8. CASE VisitRest
  BY <1>8, <1>b, <1>c DEF VisitRest
<1>9. CASE PassEnds
  <2>1. main' = Goto("ended") \/ main'.pc = "sleep"
    BY <1>9, <1>a DEF PassEnds, Main
  <2> QED
    BY <1>9, <1>b, <1>c, <2>1 DEF PassEnds
<1>10. CASE BeginPass
  BY <1>10, <1>a, <1>b, <1>c, PassType DEF BeginPass
<1>11. CASE WorkerSteps
  BY <1>11 DEF WorkerSteps, WorkerDetail, WorkerAttemptRaises, WorkerAttemptEnds
<1>12. CASE Tick
  BY <1>12, <1>a DEF Tick, Main
<1>13. CASE UNCHANGED vars
  BY <1>13 DEF vars
<1> QED
  BY <1>1, <1>2, <1>3, <1>4, <1>5, <1>6, <1>7, <1>8, <1>9, <1>10, <1>11, <1>12, <1>13
     DEF Next, MainSteps

-----------------------------------------------------------------------------
(* Back-offs and picks. *)

\* A pause is at least as long as any back-off, and both shrink together.
LEMMA BackoffStep ==
    ASSUME TypeInv, LaneInv, BackoffInv, [Next]_vars
    PROVE  BackoffInv'
<1> USE DEF BackoffInv
<1>a. /\ rows \in [Challenge -> Row] /\ main \in Main /\ main.pause \in 0..Recovery
      /\ \A c \in Challenge : rows[c].wait \in 0..BackoffCap
  BY DEF TypeInv, TypeOK, Row, Main
<1>b. \A pc \in MainPc : Goto(pc).pc = pc
  BY <1>a, GotoType
<1>c. {"list", "admit", "admitted", "running", "take", "rest", "returned", "sleep", "ended"}
        \subseteq MainPc
  BY DEF MainPc
<1>1. CASE ListChallenges
  <2>1. cache' \in Cache /\ main' \in Prepared(cache')
    BY <1>1, CataloguesType DEF ListChallenges, TypeInv
  <2> QED
    BY <2>1, PreparedType
<1>2. CASE MainFails \/ AdmitTarget \/ AdmitStatic \/ MainRefuses
  <2>1. \E pc \in {"ended", "take", "running", "admitted"} : main' = Goto(pc)
    BY <1>2 DEF MainFails, AdmitTarget, AdmitStatic, MainRefuses
  <2> QED
    BY <1>b, <1>c, <2>1
<1>3. CASE (\E end \in Ending : MainAttemptEnds(end)) \/ MainAttemptRaises
             \/ TakeStatic \/ VisitRest
  <2>1. \E pc \in {"ended", "take", "rest", "returned"} : main' = Goto(pc)
    BY <1>3 DEF MainAttemptEnds, MainAttemptRaises, TakeStatic, VisitRest
  <2> QED
    BY <1>b, <1>c, <2>1
<1>4. CASE PassEnds
  <2>1. UNCHANGED rows
        /\ (main' = Goto("ended") \/ main' = [main EXCEPT !.pc = "sleep", !.pause = Delay])
    BY <1>4 DEF PassEnds
  <2>2. Delay \in Nat /\ BackoffCap <= Delay
    BY DEF Delay
  <2>3. CASE main' = Goto("ended")
    BY <1>b, <1>c, <2>3
  <2>4. CASE main' = [main EXCEPT !.pc = "sleep", !.pause = Delay]
    <3>1. main'.pc = "sleep" /\ main'.pause = Delay
      BY <1>a, <2>4 DEF Main
    <3> QED
      BY <1>a, <2>1, <2>2, <3>1
  <2> QED
    BY <2>1, <2>3, <2>4
<1>5. CASE BeginPass
  BY <1>5, <1>a, <1>b, <1>c DEF BeginPass
<1>6. CASE WorkerSteps
  <2>1. worker.pc # "none" /\ UNCHANGED main
    BY <1>6 DEF WorkerSteps, WorkerDetail, WorkerAttemptRaises, WorkerAttemptEnds
  <2> QED
    BY <2>1 DEF LaneInv
<1>7. CASE Tick
  <2>1. /\ main'.pc = main.pc /\ main'.pause = AtLeast(main.pause - 1, 0)
        /\ \A c \in Challenge : rows'[c].wait = AtLeast(rows[c].wait - 1, 0)
    BY <1>7, <1>a, TickedRows DEF Tick, Main
  <2> QED
    BY <1>a, <2>1 DEF AtLeast
<1>8. CASE UNCHANGED vars
  BY <1>8 DEF vars
<1> QED
  BY <1>1, <1>2, <1>3, <1>4, <1>5, <1>6, <1>7, <1>8 DEF Next, MainSteps

\* When a pass lists its targets every one of them is ready, so what prepare
\* picks is a good pick against every open challenge of its kind.
LEMMA PreparedPicks ==
    ASSUME TypeInv, LaneInv, BackoffInv, ListChallenges
    PROVE  PickInv'
<1> DEFINE k == cache'
           open == (IF mode = "open" THEN k.listed ELSE k.listed \cap Selected) \ k.solved
           static == Candidates(k, Challenge \ Dynamic)
           dynamic == Candidates(k, Dynamic)
<1>1. /\ k \in Cache /\ main' \in Prepared(k) /\ main.pc = "list"
      /\ UNCHANGED <<rows, mode>> /\ rows \in [Challenge -> Row]
  BY CataloguesType DEF ListChallenges, TypeInv, TypeOK
<1>2. \A c \in Challenge : Ready(c)
  BY <1>1 DEF BackoffInv, Ready
<1>3. k.listed \subseteq Challenge /\ open = Targets' \ k.solved /\ open \subseteq Challenge
  BY <1>1 DEF Cache, Targets
<1>4. static = (k.listed \ k.solved) \cap (Challenge \ Dynamic)
      /\ dynamic = (k.listed \ k.solved) \cap Dynamic
  BY <1>2, <1>3 DEF Candidates
<1>5. \A c \in Challenge : Rivals(c)' = {d \in open \ {c} : c \in Dynamic <=> d \in Dynamic}
  BY <1>3 DEF Rivals
<1>0. \A set, solved : BestOf(set, solved) \subseteq set
  BY DEF BestOf
<1>6. ASSUME NEW set \in SUBSET Challenge, set \cap k.solved = {}, NEW c \in BestOf(set, k.solved),
             Rivals(c)' \subseteq set
      PROVE  GoodPick(c)'
  BY <1>1, <1>2, <1>6, BestIsGood DEF GoodPick
<1>7. ASSUME NEW c \in BestOf(open, k.solved) PROVE GoodPick(c)'
  <2>1. c \in Challenge
    BY <1>0, <1>3
  <2>2. Rivals(c)' \subseteq open
    BY <1>5, <2>1
  <2>3. open \cap k.solved = {}
    OBVIOUS
  <2> HIDE DEF open
  <2> QED
    BY <1>3, <1>6, <1>7, <2>2, <2>3
<1>8. ASSUME mode = "open", NEW c \in BestOf(static, k.solved) PROVE GoodPick(c)'
  <2>1. c \in Challenge /\ c \notin Dynamic
    <3>1. static \subseteq Challenge \ Dynamic
      BY <1>4
    <3>2. c \in static
      BY <1>0, <1>8
    <3> HIDE DEF static
    <3> QED
      BY <3>1, <3>2
  <2>2. Rivals(c)' \subseteq static
    <3>1. ASSUME NEW d \in Rivals(c)' PROVE d \in static
      <4>1. d \in open /\ d \notin Dynamic
        BY <1>5, <2>1, <3>1
      <4>2. d \in k.listed \ k.solved /\ d \in Challenge \ Dynamic
        BY <1>3, <1>8, <4>1
      <4> HIDE DEF static
      <4> QED
        BY <1>4, <4>2
    <3> QED
      BY <3>1
  <2>3. static \subseteq Challenge /\ static \cap k.solved = {}
    BY <1>4
  <2> HIDE DEF static
  <2> QED
    BY <1>6, <1>8, <2>2, <2>3
<1>9. ASSUME mode = "open", NEW c \in BestOf(dynamic, k.solved) PROVE GoodPick(c)'
  <2>1. c \in Challenge /\ c \in Dynamic
    BY <1>0, <1>3, <1>4
  <2>2. Rivals(c)' \subseteq dynamic
    BY <1>3, <1>4, <1>5, <1>9, <2>1
  <2>3. dynamic \subseteq Challenge /\ dynamic \cap k.solved = {}
    BY <1>3, <1>4
  <2> HIDE DEF dynamic
  <2> QED
    BY <1>6, <1>9, <2>2, <2>3
<1>10. \/ \E d \in BestOf(dynamic, k.solved), s \in BestOf(static, k.solved) :
             mode = "open" /\ main' = [pc |-> "admit", target |-> d, static |-> s, pause |-> 0]
       \/ \E c \in BestOf(open, k.solved) :
             main' = [pc |-> "admit", target |-> c, static |-> NoChallenge, pause |-> 0]
       \/ main' = [pc |-> "rest", target |-> NoChallenge, static |-> NoChallenge, pause |-> 0]
  <2> DEFINE Pair(d, s) == [pc |-> "admit", target |-> d, static |-> s, pause |-> 0]
             Rest == [pc |-> "rest", target |-> NoChallenge, static |-> NoChallenge, pause |-> 0]
  <2>1. Prepared(k) =
          IF mode = "open" /\ static # {} /\ dynamic # {}
          THEN {Pair(d, s) : d \in BestOf(dynamic, k.solved), s \in BestOf(static, k.solved)}
          ELSE IF open # {}
          THEN {Pair(c, NoChallenge) : c \in BestOf(open, k.solved)}
          ELSE {Rest}
    BY DEF Prepared
  <2> HIDE DEF open, static, dynamic
  <2>2. main' \in Prepared(k)
    BY <1>1
  <2>3. CASE mode = "open" /\ static # {} /\ dynamic # {}
    BY <2>1, <2>2, <2>3
  <2>4. CASE ~(mode = "open" /\ static # {} /\ dynamic # {})
    BY <2>1, <2>2, <2>4
  <2> QED
    BY <2>3, <2>4
<1> HIDE DEF open, static, dynamic
<1> QED
  BY <1>7, <1>8, <1>9, <1>10 DEF PickInv

\* A good pick stays one while nothing it is compared by changes.
LEMMA PickStays ==
    ASSUME TypeInv, NEW c \in Challenge, GoodPick(c), UNCHANGED <<mode, cache>>,
           \A d \in Challenge : rows'[d].solved = rows[d].solved
                                /\ rows'[d].attempts = rows[d].attempts
    PROVE  GoodPick(c)'
<1>1. Rivals(c) \subseteq Challenge
  BY DEF Rivals, Targets, TypeInv, TypeOK, Cache
<1>2. Rivals(c)' = Rivals(c)
  BY DEF Rivals, Targets
<1> QED
  BY <1>1, <1>2 DEF GoodPick

\* Between the ranking and the start of what it picked, nothing is recorded.
LEMMA PickStep ==
    ASSUME TypeInv, LaneInv, BackoffInv, PickInv, [Next]_vars
    PROVE  PickInv'
<1>a. main \in Main /\ rows \in [Challenge -> Row]
  BY DEF TypeInv, TypeOK
<1>b. /\ \A pc \in MainPc : /\ Goto(pc).pc = pc
                            /\ Goto(pc).target = main.target /\ Goto(pc).static = main.static
      /\ {"ended", "take", "running", "admitted", "rest", "returned", "sleep", "list"} \subseteq MainPc
  BY <1>a, GotoType DEF MainPc
<1>1. ASSUME main'.target = main.target, main'.static = main.static,
             main.pc \in {"admit", "admitted"}, UNCHANGED <<mode, cache>>,
             \A d \in Challenge : rows'[d].solved = rows[d].solved
                                  /\ rows'[d].attempts = rows[d].attempts
      PROVE  PickInv'
  <2>1. main.target \in Challenge /\ (main.static # NoChallenge => main.static \in Challenge)
    BY <1>1, <1>a DEF TypeInv, TargetsOK, Main
  <2>2. GoodPick(main.target)'
    BY <1>1, <2>1, PickStays DEF PickInv
  <2>3. main.static # NoChallenge => GoodPick(main.static)'
    BY <1>1, <2>1, PickStays DEF PickInv
  <2> QED
    BY <1>1, <2>2, <2>3 DEF PickInv, GoodPick, Rivals
<1>2. ASSUME main'.pc \notin {"admit", "admitted"} PROVE PickInv'
  BY <1>2 DEF PickInv
<1>3. CASE ListChallenges
  BY <1>3, PreparedPicks
<1>4. CASE AdmitTarget
  <2>1. /\ main.pc = "admit" /\ UNCHANGED <<rows, mode, cache>>
        /\ \E pc \in {"take", "running", "admitted"} : main' = Goto(pc)
    BY <1>4 DEF AdmitTarget
  <2>2. main'.target = main.target /\ main'.static = main.static
    BY <1>b, <2>1
  <2> QED
    BY <1>1, <2>1, <2>2
<1>5. CASE MainFails \/ AdmitStatic \/ MainRefuses \/ BeginPass
  <2>1. \E pc \in {"ended", "running", "list"} : main' = Goto(pc)
    BY <1>5 DEF MainFails, AdmitStatic, MainRefuses, BeginPass
  <2> QED
    BY <1>b, <1>2, <2>1
<1>6. CASE (\E end \in Ending : MainAttemptEnds(end)) \/ MainAttemptRaises
             \/ TakeStatic \/ VisitRest
  <2>1. \E pc \in {"ended", "take", "rest", "returned"} : main' = Goto(pc)
    BY <1>6 DEF MainAttemptEnds, MainAttemptRaises, TakeStatic, VisitRest
  <2> QED
    BY <1>b, <1>2, <2>1
<1>7. CASE PassEnds
  <2>1. main' = Goto("ended") \/ main' = [main EXCEPT !.pc = "sleep", !.pause = Delay]
    BY <1>7 DEF PassEnds
  <2>2. main'.pc \in {"ended", "sleep"}
    BY <1>a, <1>b, <2>1 DEF Main
  <2> QED
    BY <1>2, <2>2
<1>8. CASE WorkerSteps
  <2>1. worker.pc # "none" /\ UNCHANGED main
    BY <1>8 DEF WorkerSteps, WorkerDetail, WorkerAttemptRaises, WorkerAttemptEnds
  <2>2. main'.pc \notin {"admit", "admitted"}
    BY <2>1 DEF LaneInv
  <2> QED
    BY <1>2, <2>2
<1>9. CASE Tick
  <2>1. /\ main'.pc = main.pc /\ main'.target = main.target /\ main'.static = main.static
        /\ UNCHANGED <<mode, cache>>
    BY <1>9, <1>a DEF Tick, Main
  <2>2. \A d \in Challenge : rows'[d].solved = rows[d].solved
                             /\ rows'[d].attempts = rows[d].attempts
    BY <1>9, <1>a, TickedRows
  <2> QED
    BY <1>1, <1>2, <2>1, <2>2
<1>10. CASE UNCHANGED vars
  BY <1>1, <1>2, <1>10 DEF vars
<1> QED
  BY <1>3, <1>4, <1>5, <1>6, <1>7, <1>8, <1>9, <1>10 DEF Next, MainSteps

\* No step unlearns a solve.
LEMMA SolvesStay ==
    ASSUME TypeInv, [Next]_vars, NEW c \in Challenge, rows[c].solved
    PROVE  rows'[c].solved
<1>a. /\ rows \in [Challenge -> Row] /\ "failed" \in Outcome /\ "solved" \in Outcome
      /\ \A set \in SUBSET Challenge, outcome \in Outcome :
            Recorded(rows, set, outcome)[c].solved
  BY RecordedType DEF TypeInv, TypeOK, Outcome
<1>b. \A d \in Challenge : {d} \in SUBSET Challenge
  OBVIOUS
<1>1. ASSUME NEW end \in Ending, MainAttemptEnds(end) PROVE rows'[c].solved
  <2>1. main.target \in Challenge /\ Result(end) \in Outcome
    BY <1>1, ResultType DEF MainAttemptEnds, TypeInv, TargetsOK
  <2> QED
    BY <1>1, <1>a, <1>b, <2>1 DEF MainAttemptEnds
<1>2. CASE MainAttemptRaises
  <2>1. main.target \in Challenge
    BY <1>2 DEF MainAttemptRaises, TypeInv, TargetsOK
  <2>2. rows' = rows \/ rows' = Recorded(rows, {main.target}, "failed")
    BY <1>2 DEF MainAttemptRaises
  <2> QED
    BY <1>a, <1>b, <2>1, <2>2
<1>3. CASE VisitRest
  <2> DEFINE set == (Targets \ {main.target, main.static}) \cap cache.solved
  <2>1. rows' = Recorded(rows, set, "solved")
    BY <1>3 DEF VisitRest
  <2>2. set \in SUBSET Challenge
    BY DEF TypeInv, TypeOK, Cache
  <2> HIDE DEF set
  <2> QED
    BY <1>a, <2>1, <2>2
<1>4. CASE WorkerSteps
  <2>1. main.static \in Challenge
    BY <1>4 DEF WorkerSteps, WorkerDetail, WorkerAttemptRaises, WorkerAttemptEnds, TypeInv, TargetsOK
  <2>2. rows' = rows \/ \E outcome \in Outcome : rows' = Recorded(rows, {main.static}, outcome)
    BY <1>4, <1>a, ResultType DEF WorkerSteps, WorkerDetail, WorkerAttemptRaises, WorkerAttemptEnds
  <2> QED
    BY <1>a, <1>b, <2>1, <2>2
<1>5. CASE Tick
  BY <1>5, <1>a, TickedRows
<1>6. CASE ListChallenges \/ MainFails \/ AdmitTarget \/ AdmitStatic \/ TakeStatic \/ PassEnds
             \/ MainRefuses \/ BeginPass \/ UNCHANGED vars
  <2>1. rows' = rows
    BY <1>6 DEF ListChallenges, MainFails, AdmitTarget, AdmitStatic, TakeStatic, PassEnds,
                MainRefuses, BeginPass, vars
  <2> QED
    BY <2>1
<1> QED
  BY <1>1, <1>2, <1>3, <1>4, <1>5, <1>6 DEF Next, MainSteps

\* An attempt starts on what the last ranking picked.
LEMMA StartsPicked ==
    ASSUME TypeInv, LaneInv, PickInv, [Next]_vars, NEW c \in Challenge, Starts(c)
    PROVE  GoodPick(c)
<1>a. /\ main \in Main
      /\ \A pc \in MainPc : Goto(pc).pc = pc
      /\ {"ended", "take", "running", "admitted", "rest", "returned", "list"} \subseteq MainPc
  BY GotoType DEF TypeInv, TypeOK, MainPc
<1>1. CASE AdmitTarget
  <2>1. main.pc = "admit" /\ UNCHANGED worker
    BY <1>1 DEF AdmitTarget
  <2>2. main.target = c
    BY <2>1 DEF Starts
  <2> QED
    BY <2>1, <2>2 DEF PickInv
<1>2. CASE AdmitStatic
  <2>1. main.pc = "admitted" /\ (main.target = c \/ main.static = c)
    BY <1>2 DEF AdmitStatic, Starts
  <2> QED
    BY <2>1 DEF PickInv
<1>3. CASE WorkerSteps
  <2>1. worker.pc # "none" /\ UNCHANGED main
    BY <1>3 DEF WorkerSteps, WorkerDetail, WorkerAttemptRaises, WorkerAttemptEnds
  <2> QED
    BY <2>1 DEF Starts
<1>4. CASE ListChallenges
  <2>1. main'.pc \in {"admit", "rest"} /\ UNCHANGED worker
    BY <1>4, CataloguesType, PreparedType DEF ListChallenges, TypeInv
  <2> QED
    BY <2>1 DEF Starts
<1>5. CASE MainFails \/ MainRefuses \/ BeginPass \/ VisitRest
             \/ (\E end \in Ending : MainAttemptEnds(end)) \/ MainAttemptRaises
  <2>1. \E pc \in {"ended", "take", "rest", "returned", "list"} : main' = Goto(pc) /\ UNCHANGED worker
    BY <1>5 DEF MainFails, MainRefuses, BeginPass, VisitRest, MainAttemptEnds, MainAttemptRaises
  <2>2. main'.pc # "running" /\ UNCHANGED worker
    BY <1>a, <2>1
  <2> QED
    BY <2>2 DEF Starts
<1>6. CASE TakeStatic
  <2>1. main'.pc = "rest" /\ worker'.pc = "none"
    BY <1>6, <1>a DEF TakeStatic, Idle
  <2> QED
    BY <2>1 DEF Starts
<1>7. CASE PassEnds
  <2>1. main' = Goto("ended") \/ main' = [main EXCEPT !.pc = "sleep", !.pause = Delay]
    BY <1>7 DEF PassEnds
  <2>2. main'.pc \in {"ended", "sleep"} /\ UNCHANGED worker
    BY <1>7, <1>a, <2>1 DEF PassEnds, Main
  <2> QED
    BY <2>2 DEF Starts
<1>8. CASE Tick \/ UNCHANGED vars
  <2>1. main'.pc = main.pc /\ UNCHANGED worker
    BY <1>8, <1>a DEF Tick, vars, Main
  <2> QED
    BY <2>1 DEF Starts
<1> QED
  BY <1>1, <1>2, <1>3, <1>4, <1>5, <1>6, <1>7, <1>8 DEF Next, MainSteps

-----------------------------------------------------------------------------
(* Theorems. *)

ArenaInv == TypeInv /\ LaneInv /\ BackoffInv /\ PickInv

\* The invariant, over every run of the two threads, the catalogue and the
\* clock.
THEOREM ArenaInvariant == Spec => []ArenaInv
<1>1. Init => ArenaInv
  <2> SUFFICES ASSUME Init PROVE ArenaInv
    OBVIOUS
  <2>1. NoRow \in Row
    BY DEF NoRow, Row
  <2>2. NewPass \in Pass /\ NewPass.lanes = {}
    BY DEF NewPass, Pass
  <2>3. /\ cache \in Cache /\ main \in Main /\ main.pc = "list"
        /\ worker \in Worker /\ worker.pc = "none" /\ ~worker.solved
    BY DEF Init, Cache, Main, MainPc, Worker, WorkerPc, Idle
  <2>4. TypeInv
    <3>1. left \in 0..MaxRun
      BY CoordinatorAssumption DEF Init
    <3>2. rows \in [Challenge -> Row]
      BY <2>1 DEF Init
    <3> QED
      BY <2>2, <2>3, <3>1, <3>2 DEF Init, TypeInv, TypeOK, TargetsOK
  <2>5. LaneInv
    BY <2>2, <2>3 DEF Init, LaneInv
  <2>6. BackoffInv
    BY <2>3 DEF Init, BackoffInv, NoRow
  <2> QED
    BY <2>3, <2>4, <2>5, <2>6 DEF ArenaInv, PickInv
<1>2. ArenaInv /\ [Next]_vars => ArenaInv'
  BY TypeStep, LaneStep, BackoffStep, PickStep DEF ArenaInv
<1> QED
  BY <1>1, <1>2, PTL DEF Spec

\* prepare never finds a busy lane, and an admitted dynamic lane gets its
\* static one unless the deadline passes (_ParallelStaticLane, admit).
THEOREM LanesFree == Spec => []LanesNeverJam
<1>1. ArenaInv => LanesNeverJam
  BY DEF ArenaInv, LaneInv, LanesNeverJam, Vacant
<1> QED
  BY <1>1, ArenaInvariant, PTL

\* No challenge is deferred by its back-off when a pass ranks its targets, for
\* every cooldown that is at least the cap (should_continue, rank).
THEOREM BackoffEnds == Spec => []BackoffIsOver
<1>1. ArenaInv => BackoffIsOver
  BY DEF ArenaInv, BackoffInv, BackoffIsOver, Ready
<1> QED
  BY <1>1, ArenaInvariant, PTL

\* A solve is never unlearned and a solved challenge gets a slice only when its
\* kind has no open one (checkpoint_outcome, rank, prepare).
THEOREM SolvedLast == Spec => SolvedComesLast
<1>1. ArenaInv /\ [Next]_vars =>
        [\A c \in Challenge : rows[c].solved =>
           /\ rows'[c].solved
           /\ Starts(c) => \A d \in Rivals(c) : rows[d].solved]_vars
  BY SolvesStay, StartsPicked DEF ArenaInv, GoodPick
<1> QED
  BY <1>1, ArenaInvariant, PTL DEF Spec, SolvedComesLast

\* A challenge is tried only if it is at most the credit cap ahead of every
\* open one of its kind, for any crowd, proofs and groups (rank, item_key).
THEOREM NobodyLeft == Spec => NobodyLeftBehind
<1>1. ArenaInv /\ [Next]_vars =>
        [\A c \in Challenge : Starts(c) =>
           \A d \in Rivals(c) : ~rows[d].solved =>
               rows[c].attempts <= rows[d].attempts + CreditCap]_vars
  BY StartsPicked DEF ArenaInv, GoodPick
<1> QED
  BY <1>1, ArenaInvariant, PTL DEF Spec, NobodyLeftBehind

\* Every variable of the coordinator and the table keeps its type.
THEOREM ArenaTyped == Spec => []TypeOK
<1>1. ArenaInv => TypeOK
  BY DEF ArenaInv, TypeInv
<1> QED
  BY <1>1, ArenaInvariant, PTL

=============================================================================
