----------------------- MODULE SubmissionProtocolProofs ----------------------
(***************************************************************************)
(* Proofs about the submission protocol for any scopes, candidates,        *)
(* attempts and bounds on the network: it implements SubmissionPromise,    *)
(* and no verdict that was learnt is ever sent against.  What is on the    *)
(* wire or was accepted has a row that blocks its scope, and the catalogue *)
(* rule forgets such a row only when it is older than anything that could  *)
(* still happen, or when the challenge is known to be over.                *)
(***************************************************************************)
EXTENDS SubmissionProtocol, TLAPS

USE IntentsAssumption, PlatformAssumption

-----------------------------------------------------------------------------
(* The inductive invariant. *)

\* A verdict that ends the challenge is on record, whatever else comes.
Settled(row) == row.status \in {"accepted", "conflict"} \/ row.terminal

ConcludedIn(ch) ==
  \E t \in Scope, d \in Candidate : ChallengeOf[t] = ch /\ Settled(intents[t][d])

\* The platform lists the solve, and no catalogue that this process has or
\* awaits says otherwise: no attempt on the challenge will start again.
Gone(ch) ==
  /\ platform[ch] = "listed"
  /\ view[ch] # "unsolved"
  /\ fetched # NoCatalogue => ch \in fetched.shown

\* A slot works on a challenge that its process believes unsolved.
SlotFine(b) ==
  /\ b.pc # "idle" => b.scope \in Scope
  /\ b.pc \in Running => view[ChallengeOf[b.scope]] = "unsolved" /\ fetched = NoCatalogue
  /\ b.pc \in {"reserved", "marked", "calling", "answered"} => b.cand \in Candidate
  /\ b.pc \in {"reserved", "marked"} => b.sent < MaxSubmissions
  /\ b.pc = "answered" =>
        b.verdict \in Verdict /\ (b.verdict = "incorrect" => b.cand # Flag[b.scope])

\* Up to the send nothing else of the scope may take effect; afterwards only
\* what this slot has sent; a solve is on record before it is reported.
SenderFine(b) ==
  /\ b.pc \in {"reserved", "marked"} =>
        /\ b.scope \notin accepted
        /\ \A r \in wire : r.scope # b.scope
        /\ ~SendsAgainst(b.scope, b.cand)
  /\ b.pc = "marked" =>
        /\ intents[b.scope][b.cand].status = "dispatch_possible"
        /\ intents[b.scope][b.cand].age <= Delay
  /\ b.pc \in {"calling", "answered"} =>
        \A r \in wire : r.scope = b.scope =>
          r.cand = b.cand /\ (b.pc = "answered" => b.verdict \in {"error", "uncertain"})
  /\ b.pc = "solved" => ConcludedIn(ChallengeOf[b.scope])

\* No two slots of a pass work on one challenge.
Apart ==
  \A v, w \in Solver :
    v # w /\ solver[v].pc # "idle" /\ solver[w].pc # "idle" =>
      ChallengeOf[solver[v].scope] # ChallengeOf[solver[w].scope]

SlotFacts == Apart /\ \A w \in Solver : SlotFine(solver[w]) /\ SenderFine(solver[w])

\* What is on the wire is alone in its scope, and its row is no older than it.
WireFacts ==
  /\ \A r, q \in wire : r.scope = q.scope => r = q
  /\ \A r \in wire :
       \/ Gone(ChallengeOf[r.scope])
       \/ /\ intents[r.scope][r.cand].status \in Unresolved
          /\ intents[r.scope][r.cand].age <= r.age

\* The row of an accepted candidate says so, or is too young to be forgotten
\* before the catalogue shows the solve.
AcceptedRow(s) ==
  LET row == intents[s][Flag[s]]
      ch == ChallengeOf[s]
  IN \/ Settled(row)
     \/ /\ row.status \in Unresolved
        /\ platform[ch] = "solved" => row.age <= Delay + lag[ch]
        /\ platform[ch] = "listed" /\ fetched # NoCatalogue /\ ch \notin fetched.shown =>
              row.age <= Delay + Lag + fetched.age

AcceptedFacts ==
  \A s \in accepted :
    platform[ChallengeOf[s]] # "open" /\ (Gone(ChallengeOf[s]) \/ AcceptedRow(s))

\* A verdict that was learnt is on record until the challenge is over.
LearntFacts ==
  \A s \in Scope, c \in Candidate :
    \/ Gone(ChallengeOf[s])
    \/ /\ <<s, c, "incorrect">> \in learnt =>
             intents[s][c].status \in {"rejected", "conflict"}
       /\ \A v \in Concluding : <<s, c, v>> \in learnt => Settled(intents[s][c])

CatalogueFacts ==
  /\ fetched # NoCatalogue => \A ch \in fetched.shown : platform[ch] = "listed"
  /\ \A ch \in Challenge :
       view[ch] = "solved" => platform[ch] = "listed" \/ ConcludedIn(ch)

RowInv == WireFacts /\ AcceptedFacts /\ LearntFacts /\ CatalogueFacts

ProtocolInv == SlotFacts /\ RowInv

-----------------------------------------------------------------------------
(* The rows. *)

\* A settled row blocks every scope of its challenge.
LEMMA ConcludedBlocks ==
  ASSUME NEW s \in Scope, ConcludedIn(ChallengeOf[s])
  PROVE  Blocked(s)
BY DEF ConcludedIn, Settled, Blocked, Siblings, Concluded

\* What reconcile_submission makes of a row.
LEMMA ReconciledRow ==
  ASSUME IntentsTypeOK, NEW s \in Scope, NEW c \in Candidate, NEW v \in Verdict,
         ReconcileSubmission(s, c, v)
  PROVE  LET row == intents[s][c]
             new == intents'[s][c]
         IN /\ row.status \notin {"absent", "reserved"}
            /\ new \in Row /\ new.age <= row.age
            /\ Settled(row) => Settled(new)
            /\ row.status \in {"rejected", "conflict"} => new.status \in {"rejected", "conflict"}
            /\ v = "incorrect" => new.status \in {"rejected", "conflict"}
            /\ v \in Concluding => Settled(new)
            /\ row.status \in Unresolved /\ v # "incorrect" =>
                  Settled(new) \/ new.status \in Unresolved
            /\ row.status \in Unresolved /\ v \notin Concluding \cup {"incorrect"} =>
                  new.status \in Unresolved
            /\ intents' = [intents EXCEPT ![s][c] = new]
<1> DEFINE row == intents[s][c]
           now == Resolved(row.status, v)
           term == (row.terminal \/ v = "already_solved")
           age == IF now = row.status /\ term = row.terminal THEN row.age ELSE 0
<1>1. /\ row \in Row /\ row.status \notin {"absent", "reserved"}
      /\ intents' = [intents EXCEPT ![s][c] = [status |-> now, terminal |-> term, age |-> age]]
  BY DEF IntentsTypeOK, ReconcileSubmission
<1>2. intents'[s][c] = [status |-> now, terminal |-> term, age |-> age]
  BY <1>1 DEF IntentsTypeOK
<1>3. age \in 0..ReconcileAge /\ age <= row.age /\ row.status \in Status /\ row.terminal \in BOOLEAN
  BY <1>1 DEF Row
<1> HIDE DEF age, row
<1>4. /\ now \in Status /\ now \notin {"absent", "reserved"}
      /\ row.status \in {"accepted", "conflict"} => now \in {"accepted", "conflict"}
      /\ row.status \in {"rejected", "conflict"} => now \in {"rejected", "conflict"}
      /\ v = "incorrect" => now \in {"rejected", "conflict"}
      /\ v = "correct" => now \in {"accepted", "conflict"}
      /\ row.status \in Unresolved /\ v \in {"correct", "already_solved"} =>
            now \in {"accepted", "already_solved"}
      /\ row.status \in Unresolved /\ v \notin Concluding \cup {"incorrect"} => now \in Unresolved
  <2> DEFINE new == Classified(v)
  <2>1. /\ v = "correct" => new = "accepted"
        /\ v = "incorrect" => new = "rejected"
        /\ v = "already_solved" => new = "already_solved"
        /\ v \in {"ratelimited", "error", "uncertain"} => new \in {"unavailable", "uncertain"}
    BY DEF Classified
  <2>2. now = IF row.status = "conflict" \/ {row.status, new} = {"accepted", "rejected"}
              THEN "conflict"
              ELSE IF row.status \in {"accepted", "rejected"} THEN row.status
              ELSE IF new \in {"accepted", "rejected"} THEN new
              ELSE IF row.status = "already_solved" THEN "already_solved" ELSE new
    BY DEF Resolved
  <2>3. {row.status, new} = {"accepted", "rejected"} <=>
            \/ row.status = "accepted" /\ new = "rejected"
            \/ row.status = "rejected" /\ new = "accepted"
    OBVIOUS
  <2> HIDE DEF now, new
  <2>4. row.status \notin {"absent", "reserved"}
    BY <1>1 DEF row
  <2> QED
    BY <1>3, <2>1, <2>2, <2>3, <2>4
       DEF Status, Verdict, Unresolved, Concluded, Concluding
<1> HIDE DEF now
<1>5. /\ term \in BOOLEAN /\ (row.terminal => term) /\ (v = "already_solved" => term)
  BY <1>3
<1> HIDE DEF term
<1> DEFINE new == [status |-> now, terminal |-> term, age |-> age]
<1>6. /\ new \in Row /\ new.status = now /\ new.terminal = term /\ new.age = age
  BY <1>3, <1>4, <1>5 DEF Row
<1> HIDE DEF new
<1>7. intents'[s][c] = new /\ intents' = [intents EXCEPT ![s][c] = new]
  BY <1>1, <1>2 DEF new
<1> QED
  BY <1>1, <1>3, <1>4, <1>5, <1>6, <1>7 DEF Settled, Concluding, row

-----------------------------------------------------------------------------
(* What a step leaves alone. *)

\* Nothing but the slots changes.
LEMMA RowsStill ==
  ASSUME RowInv, UNCHANGED <<intents, view, fetched, wire, externalVars, learnt>>
  PROVE  RowInv'
BY DEF RowInv, WireFacts, AcceptedFacts, AcceptedRow, LearntFacts, CatalogueFacts, Gone,
       ConcludedIn, externalVars

\* A step confines itself to the scopes of one challenge.
OnlyIn(ch) ==
  /\ \A t \in Scope : ChallengeOf[t] # ch =>
       /\ \A d \in Candidate :
            /\ intents'[t][d] = intents[t][d]
            /\ \A x \in Verdict : <<t, d, x>> \in learnt' => <<t, d, x>> \in learnt
       /\ t \in accepted' => t \in accepted
       /\ \A r \in wire' : r.scope = t => r \in wire
  /\ \A x \in Challenge : x # ch => view'[x] = view[x]
  /\ UNCHANGED fetched

\* The slots that work on other challenges do not notice.
LEMMA OtherSlots ==
  ASSUME NEW ch \in Challenge, OnlyIn(ch), NEW v \in Solver, UNCHANGED solver[v],
         solver[v].pc \in Running => ChallengeOf[solver[v].scope] # ch,
         SlotFine(solver[v]), SenderFine(solver[v])
  PROVE  SlotFine(solver[v])' /\ SenderFine(solver[v])'
<1> DEFINE b == solver[v]
<1>1. b' = b
  OBVIOUS
<1>2. SlotFine(solver[v])'
  <2>1. b.pc \in Running =>
          /\ ChallengeOf[b.scope] \in Challenge \ {ch}
          /\ view'[ChallengeOf[b.scope]] = view[ChallengeOf[b.scope]]
    BY DEF SlotFine, OnlyIn, Running
  <2>2. UNCHANGED fetched
    BY DEF OnlyIn
  <2> QED
    BY <1>1, <2>1, <2>2 DEF SlotFine
<1>3. CASE b.pc \notin {"reserved", "marked", "calling", "answered", "solved"}
  BY <1>1, <1>2, <1>3 DEF SenderFine
<1>4. CASE b.pc \in {"reserved", "marked", "calling", "answered", "solved"}
  <2>1. b.scope \in Scope /\ ChallengeOf[b.scope] # ch
    BY <1>4 DEF SlotFine, Running, Pc
  <2>2. b.pc \in {"reserved", "marked"} => b.cand \in Candidate
    BY DEF SlotFine
  <2>3. \A r \in wire' : r.scope = b.scope => r \in wire
    BY <2>1 DEF OnlyIn
  <2>4. b.pc \in {"reserved", "marked"} => ~SendsAgainst(b.scope, b.cand)'
    BY ZenonT(40), <1>1, <2>1, <2>2 DEF SenderFine, SendsAgainst, OnlyIn, Siblings, Concluding, Verdict
  <2>5. ConcludedIn(ChallengeOf[b.scope]) => ConcludedIn(ChallengeOf[b.scope])'
    BY <1>1, <2>1 DEF ConcludedIn, OnlyIn
  <2>6. b.pc = "marked" => intents'[b.scope][b.cand] = intents[b.scope][b.cand]
    BY <2>1, <2>2 DEF OnlyIn
  <2>7. b.scope \in accepted' => b.scope \in accepted
    BY <2>1 DEF OnlyIn
  <2> QED
    BY <1>1, <1>2, <2>3, <2>4, <2>5, <2>6, <2>7 DEF SenderFine
<1> QED
  BY <1>2, <1>3, <1>4

\* Slots stay apart when one of them goes on, or starts where none is.
LEMMA ApartKept ==
  ASSUME solver \in [Solver -> Slot], Apart, NEW w \in Solver, NEW b \in Slot,
         solver' = [solver EXCEPT ![w] = b],
         \/ solver[w].pc # "idle" /\ b.scope = solver[w].scope
         \/ ~InPass(ChallengeOf[b.scope])
  PROVE  Apart'
<1>1. \A v \in Solver : solver'[v] = IF v = w THEN b ELSE solver[v]
  OBVIOUS
<1>2. ASSUME NEW v \in Solver \ {w}, solver[v].pc # "idle"
      PROVE  ChallengeOf[solver[v].scope] # ChallengeOf[b.scope]
  BY <1>2 DEF Apart, InPass
<1> QED
  BY <1>1, <1>2 DEF Apart

\* One slot moves, in a step confined to its challenge.
LEMMA SlotMoves ==
  ASSUME TypeOK, SlotFacts, NEW w \in Solver, NEW b \in Slot, b.pc # "idle",
         solver' = [solver EXCEPT ![w] = b],
         \/ solver[w].pc # "idle" /\ b.scope = solver[w].scope
         \/ ~InPass(ChallengeOf[b.scope]),
         b.scope \in Scope, OnlyIn(ChallengeOf[b.scope]),
         SlotFine(solver[w])', SenderFine(solver[w])'
  PROVE  SlotFacts'
<1>1. Apart'
  BY ApartKept DEF TypeOK, SlotFacts
<1>2. ASSUME NEW v \in Solver \ {w} PROVE SlotFine(solver[v])' /\ SenderFine(solver[v])'
  <2>1. UNCHANGED solver[v] /\ ChallengeOf[b.scope] \in Challenge
    BY DEF TypeOK
  <2>2. solver[v].pc \in Running => ChallengeOf[solver[v].scope] # ChallengeOf[b.scope]
    BY DEF SlotFacts, Apart, InPass, Running
  <2> QED
    BY <2>1, <2>2, OtherSlots DEF SlotFacts
<1> QED
  BY <1>1, <1>2 DEF SlotFacts

\* An empty slot and one that is done ask for nothing.
LEMMA EmptyFine == EmptySlot \in Slot /\ EmptySlot.pc = "idle"
BY DEF EmptySlot, Slot, Pc

LEMMA OverFine ==
  ASSUME NEW s \in Scope
  PROVE  /\ Over(s) \in Slot /\ Over(s).pc = "done" /\ Over(s).scope = s
         /\ EmptySlot \in Slot /\ EmptySlot.pc = "idle"
<1>1. EmptySlot \in Slot /\ EmptySlot.pc = "idle"
  BY EmptyFine
<1>2. /\ Over(s) \in Slot /\ Over(s).pc = "done" /\ Over(s).scope = s
  BY <1>1 DEF Over, Slot, Pc
<1> QED
  BY <1>1, <1>2

\* A step of the slots alone.
LEMMA SlotOnly ==
  ASSUME TypeOK, ProtocolInv, NEW w \in Solver, NEW b \in Slot, b.pc # "idle",
         solver' = [solver EXCEPT ![w] = b], b.scope \in Scope,
         \/ solver[w].pc # "idle" /\ b.scope = solver[w].scope
         \/ ~InPass(ChallengeOf[b.scope]),
         UNCHANGED <<intents, view, fetched, wire, externalVars, learnt>>,
         SlotFine(b), SenderFine(b)
  PROVE  TypeOK' /\ ProtocolInv'
<1>1. solver'[w] = b
  BY DEF TypeOK
<1>2. TypeOK'
  BY DEF TypeOK, IntentsTypeOK, externalVars
<1>3. OnlyIn(ChallengeOf[b.scope])
  BY DEF OnlyIn, externalVars
<1>4. SlotFine(solver[w])' /\ SenderFine(solver[w])'
  BY <1>1 DEF SlotFine, SenderFine, SendsAgainst, ConcludedIn, externalVars
<1>5. SlotFacts'
  BY <1>3, <1>4, SlotMoves DEF ProtocolInv
<1>6. RowInv'
  BY RowsStill DEF ProtocolInv
<1> QED
  BY <1>2, <1>5, <1>6 DEF ProtocolInv

\* An attempt is over.
LEMMA EndsStep ==
  ASSUME TypeOK, ProtocolInv, NEW w \in Solver, solver[w].pc # "idle",
         solver' = [solver EXCEPT ![w] = Over(@.scope)],
         UNCHANGED <<intents, view, fetched, wire, externalVars, learnt>>
  PROVE  TypeOK' /\ ProtocolInv'
<1>1. solver[w].scope \in Scope
  BY DEF ProtocolInv, SlotFacts, SlotFine
<1> DEFINE b == Over(solver[w].scope)
<1>2. b \in Slot /\ b.pc = "done" /\ b.scope = solver[w].scope
  BY <1>1, OverFine
<1> HIDE DEF b
<1>3. SlotFine(b) /\ SenderFine(b)
  BY <1>1, <1>2 DEF SlotFine, SenderFine, Running
<1>4. solver' = [solver EXCEPT ![w] = b]
  BY DEF b
<1> QED
  BY <1>1, <1>2, <1>3, <1>4, SlotOnly

\* One row changes, and a verdict on it may be learnt: what the row stood for
\* it still stands for, unless only its unknown outcome became known.
LEMMA RowStep ==
  ASSUME TypeOK, RowInv, NEW s \in Scope, NEW c \in Candidate, NEW v, NEW new \in Row,
         intents' = [intents EXCEPT ![s][c] = new],
         UNCHANGED <<view, fetched, wire, externalVars>>,
         learnt' \in {learnt, learnt \cup {<<s, c, v>>}},
         Settled(intents[s][c]) => Settled(new),
         intents[s][c].status \in {"rejected", "conflict"} =>
            new.status \in {"rejected", "conflict"},
         intents[s][c].status \in Unresolved =>
            /\ new.age <= intents[s][c].age
            /\ c = Flag[s] => Settled(new) \/ new.status \in Unresolved
            /\ \A r \in wire : r.scope = s /\ r.cand = c => new.status \in Unresolved,
         <<s, c, v>> \in learnt' => <<s, c, v>> \in learnt \/
            /\ v = "incorrect" => new.status \in {"rejected", "conflict"}
            /\ v \in Concluding => Settled(new)
  PROVE  RowInv'
<1> USE DEF RowInv
<1>1. /\ \A t \in Scope, d \in Candidate :
           intents'[t][d] = IF t = s /\ d = c THEN new ELSE intents[t][d]
      /\ \A t \in Scope, d \in Candidate : intents[t][d] \in Row
  BY DEF TypeOK, IntentsTypeOK
<1>2. /\ \A r \in wire : r.scope \in Scope /\ r.cand \in Candidate /\ r.age \in Nat
      /\ \A t \in accepted : t \in Scope /\ Flag[t] \in Candidate
      /\ \A ch \in Challenge : lag[ch] \in Nat
  BY DEF TypeOK, Request
<1>3. UNCHANGED <<view, fetched, wire, platform, lag, accepted>>
  BY DEF externalVars
<1>4. \A ch : Gone(ch) => Gone(ch)'
  BY <1>3 DEF Gone
<1>5. WireFacts'
  <2>1. ASSUME NEW r \in wire, ~Gone(ChallengeOf[r.scope])
        PROVE  /\ intents'[r.scope][r.cand].status \in Unresolved
               /\ intents'[r.scope][r.cand].age <= r.age
    <3>1. /\ intents[r.scope][r.cand].status \in Unresolved
          /\ intents[r.scope][r.cand].age <= r.age
      BY <2>1 DEF WireFacts
    <3>2. CASE r.scope = s /\ r.cand = c
      BY <1>1, <1>2, <3>1, <3>2 DEF Row
    <3>3. CASE ~(r.scope = s /\ r.cand = c)
      BY <1>1, <1>2, <3>1, <3>3
    <3> QED
      BY <3>2, <3>3
  <2> QED
    BY <1>3, <1>4, <2>1 DEF WireFacts
<1>6. AcceptedFacts'
  <2>1. ASSUME NEW t \in accepted, AcceptedRow(t) PROVE AcceptedRow(t)'
    <3> DEFINE ch == ChallengeOf[t]
               row == intents[t][Flag[t]]
    <3>1. CASE t = s /\ Flag[t] = c
      <4>1. row' = new /\ row = intents[s][c]
        BY <1>1, <1>2, <3>1
      <4>2. CASE Settled(row)
        BY <4>1, <4>2 DEF AcceptedRow
      <4>3. CASE ~Settled(row)
        <5>1. /\ row.status \in Unresolved
              /\ platform[ch] = "solved" => row.age <= Delay + lag[ch]
              /\ platform[ch] = "listed" /\ fetched # NoCatalogue /\ ch \notin fetched.shown =>
                    row.age <= Delay + Lag + fetched.age
          BY <2>1, <4>3 DEF AcceptedRow
        <5>2. /\ new.age <= row.age
              /\ Settled(new) \/ new.status \in Unresolved
          BY <3>1, <4>1, <5>1
        <5>3. new.age \in Nat /\ row.age \in Nat /\ lag[ch] \in Nat
              /\ (fetched # NoCatalogue => fetched.age \in Nat)
          BY <1>1, <1>2, <4>1 DEF Row, TypeOK, Response
        <5>4. Delay \in Nat /\ Lag \in Nat
          OBVIOUS
        <5>5. /\ Settled(row') \/ row'.status \in Unresolved
              /\ platform[ch] = "solved" => row'.age <= Delay + lag[ch]
              /\ platform[ch] = "listed" /\ fetched # NoCatalogue /\ ch \notin fetched.shown =>
                    row'.age <= Delay + Lag + fetched.age
          <6> HIDE DEF row, ch
          <6> QED
            BY <4>1, <5>1, <5>2, <5>3, <5>4
        <5> QED
          BY <1>3, <5>5 DEF AcceptedRow
      <4> QED
        BY <4>2, <4>3
    <3>2. CASE ~(t = s /\ Flag[t] = c)
      <4>1. row' = row
        BY <1>1, <1>2, <3>2
      <4> QED
        BY <1>3, <2>1, <4>1 DEF AcceptedRow
    <3> QED
      BY <3>1, <3>2
  <2> QED
    BY <1>3, <1>4, <2>1 DEF AcceptedFacts
<1>7. LearntFacts'
  <2> SUFFICES ASSUME NEW t \in Scope, NEW d \in Candidate, ~Gone(ChallengeOf[t])'
               PROVE  /\ <<t, d, "incorrect">> \in learnt' =>
                            intents'[t][d].status \in {"rejected", "conflict"}
                      /\ \A x \in Concluding : <<t, d, x>> \in learnt' => Settled(intents'[t][d])
    BY DEF LearntFacts
  <2>1. /\ <<t, d, "incorrect">> \in learnt => intents[t][d].status \in {"rejected", "conflict"}
        /\ \A x \in Concluding : <<t, d, x>> \in learnt => Settled(intents[t][d])
    BY <1>4 DEF LearntFacts
  <2>2. CASE t = s /\ d = c
    BY <1>1, <2>1, <2>2
  <2>3. CASE ~(t = s /\ d = c)
    BY <1>1, <2>1, <2>3
  <2> QED
    BY <2>2, <2>3
<1>8. CatalogueFacts'
  <2>1. \A ch : ConcludedIn(ch) => ConcludedIn(ch)'
    BY <1>1 DEF ConcludedIn
  <2> QED
    BY <1>3, <2>1 DEF CatalogueFacts
<1> QED
  BY <1>5, <1>6, <1>7, <1>8

-----------------------------------------------------------------------------
(* The steps of an attempt. *)

\* What is known of the slot that moves.
LEMMA SlotKnown ==
  ASSUME TypeOK, ProtocolInv, NEW w \in Solver, solver[w].pc \in Running
  PROVE  /\ solver[w] \in Slot /\ solver[w].pc # "idle"
         /\ solver[w].scope \in Scope /\ ChallengeOf[solver[w].scope] \in Challenge
         /\ view[ChallengeOf[solver[w].scope]] = "unsolved" /\ fetched = NoCatalogue
         /\ ~Gone(ChallengeOf[solver[w].scope])
         /\ SlotFine(solver[w]) /\ SenderFine(solver[w])
<1>1. SlotFine(solver[w]) /\ SenderFine(solver[w]) /\ solver[w] \in Slot
  BY DEF ProtocolInv, SlotFacts, TypeOK
<1>2. solver[w].pc # "idle" /\ solver[w].scope \in Scope
  BY <1>1 DEF SlotFine, Running
<1> QED
  BY <1>1, <1>2 DEF SlotFine, Gone

LEMMA BeginStep ==
  ASSUME TypeOK, ProtocolInv, NEW w \in Solver, NEW s \in Scope, BeginAttempt(w, s)
  PROVE  TypeOK' /\ ProtocolInv'
<1> DEFINE b == IF Blocked(s) THEN Over(s)
                ELSE [EmptySlot EXCEPT !.pc = "looping", !.scope = s]
<1>1. /\ fetched = NoCatalogue /\ view[ChallengeOf[s]] = "unsolved"
      /\ ~InPass(ChallengeOf[s]) /\ solver' = [solver EXCEPT ![w] = b]
      /\ UNCHANGED <<intents, view, fetched, wire, externalVars, learnt>>
  BY DEF BeginAttempt
<1>2. b \in Slot /\ b.scope = s /\ b.pc \in {"done", "looping"}
  <2>1. /\ [EmptySlot EXCEPT !.pc = "looping", !.scope = s] \in Slot
        /\ [EmptySlot EXCEPT !.pc = "looping", !.scope = s].scope = s
        /\ [EmptySlot EXCEPT !.pc = "looping", !.scope = s].pc = "looping"
    BY OverFine DEF Slot, Pc
  <2> QED
    BY <2>1, OverFine
<1> HIDE DEF b
<1>3. SlotFine(b) /\ SenderFine(b)
  BY <1>1, <1>2 DEF SlotFine, SenderFine
<1> QED
  BY <1>1, <1>2, <1>3, SlotOnly

\* reserve_submission lets the candidate in: nothing of the scope is open, and
\* nothing that was learnt speaks against it.
LEMMA ReserveStep ==
  ASSUME TypeOK, ProtocolInv, NEW w \in Solver, NEW c \in Candidate,
         solver[w].pc = "looping", solver[w].sent < MaxSubmissions,
         ReserveSubmission(solver[w].scope, c),
         NEW b \in Slot, solver' = [solver EXCEPT ![w] = b],
         b.pc = "reserved", b.cand = c, b.scope = solver[w].scope, b.sent = solver[w].sent,
         UNCHANGED <<view, fetched, wire, externalVars, learnt>>
  PROVE  TypeOK' /\ ProtocolInv'
<1> DEFINE s == solver[w].scope
<1>1. /\ solver[w] \in Slot /\ s \in Scope /\ ~Gone(ChallengeOf[s])
      /\ view[ChallengeOf[s]] = "unsolved" /\ fetched = NoCatalogue
      /\ intents \in [Scope -> [Candidate -> Row]]
  BY SlotKnown DEF Running, Pc, TypeOK, IntentsTypeOK
<1>2. b.scope = s /\ b.sent < MaxSubmissions
  OBVIOUS
<1>3. /\ ~Blocked(s) /\ intents[s][c].status \in {"absent", "reserved"}
      /\ intents' = [intents EXCEPT ![s][c] = ReservedRow]
  BY DEF ReserveSubmission
<1>4. solver'[w] = b
  BY <1>2 DEF TypeOK
<1>5. ReservedRow \in Row
  BY DEF ReservedRow, Row, Status
<1>6. \A t \in Scope, d \in Candidate :
         ChallengeOf[t] = ChallengeOf[s] => ~Settled(intents[t][d])
  BY <1>1, <1>3 DEF Blocked, Settled, Siblings, Concluded
<1>7. \A d \in Candidate : intents[s][d].status \notin Unresolved
  BY <1>3 DEF Blocked
<1>8. RowInv'
  <2>1. ~Settled(intents[s][c]) /\ intents[s][c].status \notin {"rejected", "conflict"} \cup Unresolved
    BY <1>1, <1>3, <1>6, <1>7
  <2> HIDE DEF s
  <2> QED
    BY <1>1, <1>3, <1>5, <2>1, RowStep DEF ProtocolInv
<1>9. s \notin accepted
  BY <1>1, <1>6, <1>7 DEF ProtocolInv, RowInv, AcceptedFacts, AcceptedRow
<1>10. \A r \in wire : r.scope # s
  BY <1>1, <1>7 DEF ProtocolInv, RowInv, WireFacts, TypeOK, Request
<1>11. ~SendsAgainst(s, c)
  <2>1. <<s, c, "incorrect">> \notin learnt
    BY <1>1, <1>3 DEF ProtocolInv, RowInv, LearntFacts
  <2>2. \A t \in Siblings(s), d \in Candidate, v \in Concluding : <<t, d, v>> \notin learnt
    BY <1>1, <1>6 DEF ProtocolInv, RowInv, LearntFacts, Siblings
  <2> QED
    BY <2>1, <2>2 DEF SendsAgainst
<1>12. OnlyIn(ChallengeOf[s])
  BY <1>1, <1>3 DEF OnlyIn, externalVars
<1>13. SlotFine(solver[w])'
  BY <1>1, <1>2, <1>4 DEF SlotFine
<1>14. SenderFine(solver[w])'
  <2>1. /\ b.scope \notin accepted' /\ \A r \in wire' : r.scope # b.scope
        /\ ~SendsAgainst(b.scope, b.cand)'
    BY <1>2, <1>9, <1>10, <1>11 DEF SendsAgainst, externalVars
  <2> QED
    BY <1>4, <2>1 DEF SenderFine
<1>15. SlotFacts'
  BY <1>1, <1>2, <1>12, <1>13, <1>14, SlotMoves DEF ProtocolInv
<1>16. TypeOK'
  BY <1>2, <1>3, <1>5 DEF TypeOK, IntentsTypeOK, externalVars
<1> QED
  BY <1>8, <1>15, <1>16 DEF ProtocolInv

LEMMA ProposeStep ==
  ASSUME TypeOK, ProtocolInv, NEW w \in Solver, NEW c \in Candidate, Propose(w, c)
  PROVE  TypeOK' /\ ProtocolInv'
<1> DEFINE s == solver[w].scope
<1>1. /\ solver[w].pc = "looping" /\ UNCHANGED <<view, fetched, wire, externalVars, learnt>>
  BY DEF Propose
<1>2. /\ solver[w] \in Slot /\ s \in Scope /\ view[ChallengeOf[s]] = "unsolved"
      /\ fetched = NoCatalogue
  BY <1>1, SlotKnown DEF Running, Pc
<1>3. CASE solver' = [solver EXCEPT ![w] = Over(@.scope)] /\ UNCHANGED intents
  BY <1>1, <1>3, EndsStep
<1>4. ASSUME NEW pc \in {"reserved", "looping"}
      PROVE  LET b == [solver[w] EXCEPT !.pc = pc, !.cand = c, !.tried = solver[w].tried \cup {c}]
             IN  /\ b \in Slot /\ b.pc = pc /\ b.cand = c /\ b.scope = s
                 /\ b.sent = solver[w].sent
                 /\ [solver EXCEPT ![w].pc = pc, ![w].cand = c, ![w].tried = @ \cup {c}]
                      = [solver EXCEPT ![w] = b]
  <2>1. solver[w].tried \cup {c} \in SUBSET Candidate /\ pc \in Pc
    BY <1>2 DEF Slot, Pc
  <2> QED
    BY <1>2, <2>1 DEF Slot, TypeOK
<1>5. CASE /\ solver[w].sent < MaxSubmissions /\ ReserveSubmission(s, c)
           /\ solver' = [solver EXCEPT ![w].pc = "reserved", ![w].cand = c,
                                       ![w].tried = @ \cup {c}]
  <2> DEFINE b == [solver[w] EXCEPT !.pc = "reserved", !.cand = c,
                                    !.tried = solver[w].tried \cup {c}]
  <2>1. /\ b \in Slot /\ b.pc = "reserved" /\ b.cand = c /\ b.scope = solver[w].scope
        /\ b.sent = solver[w].sent /\ solver' = [solver EXCEPT ![w] = b]
    BY <1>4, <1>5
  <2> HIDE DEF b
  <2> QED
    BY <1>1, <1>5, <2>1, ReserveStep
<1>6. CASE /\ UNCHANGED intents
           /\ solver' = [[solver EXCEPT ![w].pc = "looping", ![w].cand = c,
                                        ![w].tried = @ \cup {c}]
                    EXCEPT ![w].cand = NoCandidate]
  <2> DEFINE x == [solver[w] EXCEPT !.pc = "looping", !.cand = c,
                                    !.tried = solver[w].tried \cup {c}]
             b == [x EXCEPT !.cand = NoCandidate]
  <2>1. /\ x \in Slot /\ x.pc = "looping" /\ x.scope = s
        /\ solver' = [[solver EXCEPT ![w] = x] EXCEPT ![w].cand = NoCandidate]
    BY <1>4, <1>6
  <2> HIDE DEF x
  <2>2. solver' = [solver EXCEPT ![w] = b]
    BY <2>1 DEF TypeOK
  <2>3. b \in Slot /\ b.pc = "looping" /\ b.scope = s
    BY <2>1 DEF Slot
  <2> HIDE DEF b
  <2>4. SlotFine(b) /\ SenderFine(b)
    BY <1>2, <2>3 DEF SlotFine, SenderFine
  <2> QED
    BY <1>1, <1>2, <1>6, <2>2, <2>3, <2>4, SlotOnly
<1> QED
  BY <1>1, <1>3, <1>5, <1>6 DEF Propose

\* The marker is committed.
LEMMA MarkStep ==
  ASSUME TypeOK, ProtocolInv, NEW w \in Solver, Mark(w)
  PROVE  TypeOK' /\ ProtocolInv'
<1> DEFINE s == solver[w].scope
           c == solver[w].cand
           b == [solver[w] EXCEPT !.pc = "marked"]
           new == [intents[s][c] EXCEPT !.status = "dispatch_possible", !.age = 0]
<1>1. /\ solver[w].pc = "reserved" /\ UNCHANGED <<view, fetched, wire, externalVars, learnt>>
      /\ intents[s][c].status = "reserved" /\ solver' = [solver EXCEPT ![w].pc = "marked"]
      /\ intents' = [intents EXCEPT ![s][c].status = "dispatch_possible", ![s][c].age = 0]
  BY DEF Mark, MarkDispatchPossible
<1>2. /\ solver[w] \in Slot /\ s \in Scope /\ view[ChallengeOf[s]] = "unsolved"
      /\ fetched = NoCatalogue /\ SlotFine(solver[w]) /\ SenderFine(solver[w])
      /\ solver \in [Solver -> Slot] /\ intents \in [Scope -> [Candidate -> Row]]
  BY <1>1, SlotKnown DEF Running, Pc, TypeOK, IntentsTypeOK
<1>3. c \in Candidate /\ solver[w].sent < MaxSubmissions
  BY <1>1, <1>2 DEF SlotFine
<1>4. /\ b \in Slot /\ b.pc = "marked" /\ b.cand = c /\ b.scope = s
      /\ b.sent < MaxSubmissions /\ solver' = [solver EXCEPT ![w] = b]
  BY <1>1, <1>2, <1>3 DEF Slot, Pc
<1>5. /\ new \in Row /\ new.status = "dispatch_possible" /\ new.age = 0
      /\ new.terminal = intents[s][c].terminal
      /\ intents' = [intents EXCEPT ![s][c] = new]
  <2> HIDE DEF s, c
  <2>1. intents[s][c] \in Row /\ 0 \in 0..ReconcileAge /\ s \in Scope
    BY <1>2, <1>3 DEF s
  <2>2. /\ new \in Row /\ new.status = "dispatch_possible" /\ new.age = 0
        /\ new.terminal = intents[s][c].terminal
    BY <2>1 DEF Row, Status, Unresolved
  <2>3. intents' = [intents EXCEPT ![s][c] = new]
    BY <1>1, <1>2, <1>3, <2>1 DEF s, c
  <2> QED
    BY <2>2, <2>3
<1> HIDE DEF b, new
<1>6. RowInv'
  <2>1. /\ Settled(intents[s][c]) => Settled(new)
        /\ intents[s][c].status \notin {"rejected", "conflict"} \cup Unresolved
    BY <1>1, <1>5 DEF Settled, Unresolved
  <2> HIDE DEF s, c
  <2> QED
    BY <1>1, <1>2, <1>3, <1>5, <2>1, RowStep DEF ProtocolInv
<1>7. solver'[w] = b /\ intents'[s][c] = new
  BY <1>2, <1>3, <1>4, <1>5
<1>8. OnlyIn(ChallengeOf[s])
  BY <1>1, <1>2, <1>5 DEF OnlyIn, externalVars
<1>9. SlotFine(solver[w])'
  BY <1>1, <1>2, <1>3, <1>4, <1>7 DEF SlotFine
<1>10. SenderFine(solver[w])'
  <2>1. s \notin accepted /\ (\A r \in wire : r.scope # s) /\ ~SendsAgainst(s, c)
    BY <1>1, <1>2 DEF SenderFine
  <2>2. 0 <= Delay
    OBVIOUS
  <2> QED
    BY <1>1, <1>4, <1>5, <1>7, <2>1, <2>2 DEF SenderFine, SendsAgainst, externalVars
<1>11. SlotFacts'
  BY <1>1, <1>2, <1>4, <1>8, <1>9, <1>10, SlotMoves DEF ProtocolInv
<1>12. TypeOK'
  <2>1. solver' \in [Solver -> Slot] /\ intents' \in [Scope -> [Candidate -> Row]]
    BY <1>2, <1>3, <1>4, <1>5
  <2> QED
    BY <1>1, <2>1 DEF TypeOK, IntentsTypeOK, externalVars
<1> QED
  BY <1>6, <1>11, <1>12 DEF ProtocolInv

\* The flag goes out, alone in its scope.
LEMMA DispatchStep ==
  ASSUME TypeOK, ProtocolInv, NEW w \in Solver, Dispatch(w)
  PROVE  TypeOK' /\ ProtocolInv'
<1> DEFINE s == solver[w].scope
           c == solver[w].cand
           b == [solver[w] EXCEPT !.pc = "calling", !.sent = solver[w].sent + 1]
           r == [scope |-> s, cand |-> c, age |-> intents[s][c].age]
<1>1. /\ solver[w].pc = "marked" /\ wire' = wire \cup {r}
      /\ solver' = [solver EXCEPT ![w].pc = "calling", ![w].sent = @ + 1]
      /\ UNCHANGED <<intents, view, fetched, externalVars, learnt>>
  BY DEF Dispatch
<1>2. /\ solver[w] \in Slot /\ s \in Scope /\ view[ChallengeOf[s]] = "unsolved"
      /\ fetched = NoCatalogue /\ SlotFine(solver[w]) /\ SenderFine(solver[w])
      /\ solver \in [Solver -> Slot] /\ intents \in [Scope -> [Candidate -> Row]]
  BY <1>1, SlotKnown DEF Running, Pc, TypeOK, IntentsTypeOK
<1>3. c \in Candidate /\ solver[w].sent < MaxSubmissions
  BY <1>1, <1>2 DEF SlotFine
<1>4. /\ b \in Slot /\ b.pc = "calling" /\ b.cand = c /\ b.scope = s
      /\ solver' = [solver EXCEPT ![w] = b]
  <2>1. solver[w].sent + 1 \in 0..MaxSubmissions
    BY <1>2, <1>3 DEF Slot
  <2>2. b \in Slot /\ b.pc = "calling" /\ b.cand = c /\ b.scope = s
    BY <1>2, <2>1 DEF Slot, Pc
  <2>3. solver' = [solver EXCEPT ![w] = b]
    BY <1>1, <1>2
  <2> QED
    BY <2>2, <2>3
<1>5. /\ intents[s][c].status = "dispatch_possible" /\ intents[s][c].age <= Delay
      /\ \A q \in wire : q.scope # s
  BY <1>1, <1>2 DEF SenderFine
<1>6. intents[s][c].age \in 0..Delay
  <2>1. intents[s][c] \in Row
    BY <1>2, <1>3
  <2> QED
    BY <1>5, <2>1 DEF Row
<1>7. r \in Request /\ r.scope = s /\ r.cand = c /\ r.age = intents[s][c].age
  BY <1>2, <1>3, <1>6 DEF Request
<1> HIDE DEF b, r
<1>8. solver'[w] = b
  BY <1>2, <1>4
<1>9. RowInv'
  <2>1. WireFacts'
    <3>1. intents[s][c].status \in Unresolved /\ intents[s][c].age <= r.age
      BY <1>5, <1>6, <1>7 DEF Unresolved
    <3>2. intents' = intents /\ \A ch : Gone(ch) => Gone(ch)'
      BY <1>1 DEF Gone, externalVars
    <3> HIDE DEF s, c
    <3>3. \A q, p \in wire' : q.scope = p.scope => q = p
      BY <1>1, <1>5, <1>7 DEF ProtocolInv, RowInv, WireFacts
    <3>4. \A q \in wire' : Gone(ChallengeOf[q.scope]) \/
              /\ intents[q.scope][q.cand].status \in Unresolved
              /\ intents[q.scope][q.cand].age <= q.age
      BY <1>1, <1>7, <3>1 DEF ProtocolInv, RowInv, WireFacts
    <3> QED
      BY <3>2, <3>3, <3>4 DEF WireFacts
  <2> QED
    BY <1>1, <2>1 DEF ProtocolInv, RowInv, AcceptedFacts, AcceptedRow, LearntFacts,
                      CatalogueFacts, Gone, ConcludedIn, externalVars
<1>10. OnlyIn(ChallengeOf[s])
  BY <1>1, <1>2, <1>7 DEF OnlyIn, externalVars
<1>11. SlotFine(solver[w])'
  BY <1>1, <1>2, <1>3, <1>4, <1>8 DEF SlotFine
<1>12. SenderFine(solver[w])'
  <2>1. \A q \in wire' : q.scope = b.scope => q.cand = b.cand
    BY <1>1, <1>4, <1>5, <1>7
  <2> QED
    BY <1>4, <1>8, <2>1 DEF SenderFine
<1>13. SlotFacts'
  BY <1>1, <1>2, <1>4, <1>10, <1>11, <1>12, SlotMoves DEF ProtocolInv
<1>14. TypeOK'
  BY ZenonT(40), <1>1, <1>4, <1>7 DEF TypeOK, IntentsTypeOK, externalVars
<1> QED
  BY <1>9, <1>13, <1>14 DEF ProtocolInv

LEMMA CallFailsStep ==
  ASSUME TypeOK, ProtocolInv, NEW w \in Solver, CallFails(w)
  PROVE  TypeOK' /\ ProtocolInv'
<1>1. PICK v \in {"error", "uncertain"} :
        solver' = [solver EXCEPT ![w].pc = "answered", ![w].verdict = v]
  BY DEF CallFails
<1>2. /\ solver[w].pc = "calling"
      /\ UNCHANGED <<intents, view, fetched, wire, externalVars, learnt>>
  BY DEF CallFails
<1>3. /\ solver[w] \in Slot /\ solver[w].scope \in Scope /\ solver \in [Solver -> Slot]
      /\ view[ChallengeOf[solver[w].scope]] = "unsolved" /\ fetched = NoCatalogue
      /\ SlotFine(solver[w]) /\ SenderFine(solver[w])
  BY <1>2, SlotKnown DEF Running, Pc, TypeOK
<1> DEFINE b == [solver[w] EXCEPT !.pc = "answered", !.verdict = v]
<1>4. /\ b \in Slot /\ b.pc = "answered" /\ b.verdict = v /\ b.scope = solver[w].scope
      /\ b.cand = solver[w].cand /\ solver' = [solver EXCEPT ![w] = b]
  BY <1>1, <1>3 DEF Slot, Pc, Verdict
<1> HIDE DEF b
<1>5. SlotFine(b)
  BY <1>2, <1>3, <1>4 DEF SlotFine, Verdict
<1>6. SenderFine(b)
  BY <1>2, <1>3, <1>4 DEF SenderFine
<1> QED
  BY <1>2, <1>3, <1>4, <1>5, <1>6, SlotOnly

\* A verdict is reconciled: the row keeps standing for what is on the wire, and
\* remembers what was learnt.
LEMMA RecordStep ==
  ASSUME TypeOK, ProtocolInv, NEW w \in Solver, Record(w)
  PROVE  TypeOK' /\ ProtocolInv'
<1> DEFINE s == solver[w].scope
           c == solver[w].cand
           v == solver[w].verdict
           b == AfterVerdict(solver[w])
           new == intents'[s][c]
<1>1. /\ solver[w].pc = "answered" /\ ReconcileSubmission(s, c, v)
      /\ learnt' = learnt \cup ({<<s, c, v>>} \cap Definitive)
      /\ solver' = [solver EXCEPT ![w] = b]
      /\ UNCHANGED <<view, fetched, wire, externalVars>>
  BY DEF Record
<1>2. /\ solver[w] \in Slot /\ s \in Scope /\ view[ChallengeOf[s]] = "unsolved"
      /\ fetched = NoCatalogue /\ SlotFine(solver[w]) /\ SenderFine(solver[w])
      /\ solver \in [Solver -> Slot] /\ intents \in [Scope -> [Candidate -> Row]]
  BY <1>1, SlotKnown DEF Running, Pc, TypeOK, IntentsTypeOK
<1>3. /\ c \in Candidate /\ v \in Verdict /\ (v = "incorrect" => c # Flag[s])
      /\ \A r \in wire : r.scope = s => v \in {"error", "uncertain"}
  BY <1>1, <1>2 DEF SlotFine, SenderFine
<1>4. /\ intents[s][c].status \notin {"absent", "reserved"}
      /\ new \in Row /\ new.age <= intents[s][c].age
      /\ Settled(intents[s][c]) => Settled(new)
      /\ intents[s][c].status \in {"rejected", "conflict"} =>
            new.status \in {"rejected", "conflict"}
      /\ v = "incorrect" => new.status \in {"rejected", "conflict"}
      /\ v \in Concluding => Settled(new)
      /\ intents[s][c].status \in Unresolved /\ v # "incorrect" =>
            Settled(new) \/ new.status \in Unresolved
      /\ intents[s][c].status \in Unresolved /\ v \notin Concluding \cup {"incorrect"} =>
            new.status \in Unresolved
      /\ intents' = [intents EXCEPT ![s][c] = new]
  <2> HIDE DEF s, c, v
  <2>1. IntentsTypeOK /\ s \in Scope /\ c \in Candidate /\ v \in Verdict
        /\ ReconcileSubmission(s, c, v)
    BY <1>1, <1>2, <1>3 DEF TypeOK
  <2> QED
    BY <2>1, ReconciledRow
<1>5. /\ b \in Slot /\ b.scope = s /\ b.pc \in {"done", "solved", "looping"}
      /\ b.pc = "solved" <=> v \in Concluding
  <2>1. NextPc(v) \in {"done", "solved", "looping"} /\ (NextPc(v) = "solved" <=> v \in Concluding)
    BY DEF NextPc
  <2>2. CASE NextPc(v) = "done"
    BY <1>2, <2>1, <2>2, OverFine DEF AfterVerdict
  <2>3. CASE NextPc(v) # "done"
    <3> DEFINE pc == NextPc(v)
               x == [solver[w] EXCEPT !.pc = pc, !.cand = NoCandidate, !.verdict = NoVerdict]
    <3>1. b = x
      BY <2>3 DEF AfterVerdict
    <3>2. pc \in {"done", "solved", "looping"} /\ (pc = "solved" <=> v \in Concluding)
      BY <2>1
    <3> HIDE DEF b, pc
    <3>3. x \in Slot /\ x.pc = pc /\ x.scope = s
      BY <1>2, <3>2 DEF Slot, Pc
    <3> QED
      BY <3>1, <3>2, <3>3
  <2> QED
    BY <2>2, <2>3
<1> HIDE DEF b
<1>6. learnt' \in {learnt, learnt \cup {<<s, c, v>>}}
  BY <1>1
<1>7. RowInv'
  <2>1. /\ c = Flag[s] => v # "incorrect"
        /\ \A r \in wire : r.scope = s /\ r.cand = c => v \notin Concluding \cup {"incorrect"}
    BY <1>3 DEF Concluding
  <2> HIDE DEF s, c, v, new
  <2> QED
    BY <1>1, <1>2, <1>3, <1>4, <1>6, <2>1, RowStep DEF ProtocolInv
<1>8. solver'[w] = b
  BY <1>1, <1>2, <1>5
<1>9. OnlyIn(ChallengeOf[s])
  <2> HIDE DEF s, c, v, new
  <2> QED
    BY <1>1, <1>2, <1>3, <1>4 DEF OnlyIn, externalVars
<1>10. SlotFine(solver[w])'
  BY <1>1, <1>2, <1>5, <1>8 DEF SlotFine
<1>11. SenderFine(solver[w])'
  <2>1. b.pc = "solved" =>
          \E t \in Scope, d \in Candidate :
            ChallengeOf[t] = ChallengeOf[b.scope] /\ Settled(intents'[t][d])
    BY <1>2, <1>3, <1>4, <1>5
  <2> QED
    BY <1>5, <1>8, <2>1 DEF SenderFine, ConcludedIn, Settled
<1>12. SlotFacts'
  BY <1>1, <1>2, <1>5, <1>9, <1>10, <1>11, SlotMoves DEF ProtocolInv
<1>13. TypeOK'
  <2>1. intents' \in [Scope -> [Candidate -> Row]]
    <3> HIDE DEF s, c, v, new
    <3> QED
      BY <1>2, <1>3, <1>4
  <2>2. learnt' \in SUBSET Definitive
    BY <1>1 DEF TypeOK
  <2> QED
    BY <1>1, <1>5, <2>1, <2>2 DEF TypeOK, IntentsTypeOK, externalVars
<1> QED
  BY <1>7, <1>12, <1>13 DEF ProtocolInv

\* The brief is marked: the solve is on record.
LEMMA ReportSolvedStep ==
  ASSUME TypeOK, ProtocolInv, NEW w \in Solver, ReportSolved(w)
  PROVE  TypeOK' /\ ProtocolInv'
<1> DEFINE s == solver[w].scope
           b == Over(s)
<1>1. /\ solver[w].pc = "solved" /\ view' = [view EXCEPT ![ChallengeOf[s]] = "solved"]
      /\ solver' = [solver EXCEPT ![w] = b]
      /\ UNCHANGED <<intents, fetched, wire, externalVars, learnt>>
  BY DEF ReportSolved
<1>2. /\ s \in Scope /\ ChallengeOf[s] \in Challenge /\ solver \in [Solver -> Slot]
      /\ ConcludedIn(ChallengeOf[s]) /\ view \in [Challenge -> View]
  BY <1>1, SlotKnown DEF Running, Pc, TypeOK, SenderFine
<1>3. b \in Slot /\ b.pc = "done" /\ b.scope = s
  BY <1>2, OverFine
<1> HIDE DEF b
<1>4. solver'[w] = b
  BY <1>1, <1>2, <1>3
<1>5. RowInv'
  <2>1. \A ch : Gone(ch) => Gone(ch)'
    BY <1>1, <1>2 DEF Gone, externalVars
  <2>2. WireFacts' /\ LearntFacts'
    BY <1>1, <2>1 DEF ProtocolInv, RowInv, WireFacts, LearntFacts
  <2>3. AcceptedFacts'
    BY <1>1, <2>1 DEF ProtocolInv, RowInv, AcceptedFacts, AcceptedRow, externalVars
  <2>4. CatalogueFacts'
    BY <1>1, <1>2 DEF ProtocolInv, RowInv, CatalogueFacts, ConcludedIn, externalVars
  <2> QED
    BY <2>2, <2>3, <2>4 DEF RowInv
<1>6. OnlyIn(ChallengeOf[s])
  BY <1>1, <1>2 DEF OnlyIn, externalVars
<1>7. SlotFine(solver[w])' /\ SenderFine(solver[w])'
  BY <1>2, <1>3, <1>4 DEF SlotFine, SenderFine, Running
<1>8. SlotFacts'
  BY <1>1, <1>2, <1>3, <1>6, <1>7, SlotMoves DEF ProtocolInv
<1>9. TypeOK'
  BY <1>1, <1>2, <1>3 DEF TypeOK, IntentsTypeOK, View, externalVars
<1> QED
  BY <1>5, <1>8, <1>9 DEF ProtocolInv

LEMMA AttemptInv ==
  ASSUME TypeOK, ProtocolInv, NEW w \in Solver, AttemptStep(w)
  PROVE  TypeOK' /\ ProtocolInv'
<1>1. CASE \E c \in Candidate : Propose(w, c)
  BY <1>1, ProposeStep
<1>2. CASE Mark(w) \/ Dispatch(w) \/ CallFails(w)
  BY <1>2, MarkStep, DispatchStep, CallFailsStep
<1>3. CASE Record(w) \/ ReportSolved(w)
  BY <1>3, RecordStep, ReportSolvedStep
<1>4. CASE EndAttempt(w)
  BY <1>4, EndsStep DEF EndAttempt
<1> QED
  BY <1>1, <1>2, <1>3, <1>4 DEF AttemptStep

-----------------------------------------------------------------------------
(* Passes, the catalogue and the process. *)

\* Slots that do not run ask for nothing.
LEMMA NoneRunning ==
  ASSUME TypeOK, SlotFacts, AllEnded,
         \/ UNCHANGED solver
         \/ solver' = [w \in Solver |-> EmptySlot]
  PROVE  SlotFacts'
<1>1. ASSUME NEW w \in Solver PROVE solver'[w].pc \notin Running /\
         (solver'[w].pc # "idle" => solver'[w].scope = solver[w].scope
                                    /\ solver[w].pc # "idle" /\ solver[w].scope \in Scope)
  BY EmptyFine DEF AllEnded, SlotFacts, SlotFine, Running
<1>2. \A w \in Solver : solver'[w].pc \in Pc
  BY EmptyFine DEF TypeOK, Slot
<1>3. Apart'
  BY <1>1 DEF SlotFacts, Apart
<1>4. ASSUME NEW w \in Solver PROVE SlotFine(solver[w])' /\ SenderFine(solver[w])'
  <2>1. solver'[w].pc \in {"idle", "done"}
    BY <1>1, <1>2 DEF Running
  <2> QED
    BY <1>1, <2>1 DEF SlotFine, SenderFine, Running
<1> QED
  BY <1>3, <1>4 DEF SlotFacts

LEMMA AllIdle ==
  ASSUME solver' = [w \in Solver |-> EmptySlot]
  PROVE  SlotFacts' /\ solver' \in [Solver -> Slot]
BY EmptyFine DEF SlotFacts, Apart, SlotFine, SenderFine, Running

LEMMA FetchStep ==
  ASSUME TypeOK, ProtocolInv, FetchCatalogue
  PROVE  TypeOK' /\ ProtocolInv'
<1> DEFINE got == [shown |-> {ch \in Challenge : platform[ch] = "listed"}, age |-> 0]
<1>1. /\ AllEnded /\ fetched = NoCatalogue /\ fetched' = got
      /\ UNCHANGED <<intents, solver, view, wire, externalVars, learnt>>
  BY DEF FetchCatalogue
<1>2. /\ got \in Response /\ got.shown = {ch \in Challenge : platform[ch] = "listed"}
      /\ got.age = 0
  BY DEF Response
<1> HIDE DEF got
<1>3. TypeOK'
  BY <1>1, <1>2 DEF TypeOK, IntentsTypeOK, externalVars
<1>4. SlotFacts'
  BY <1>1, NoneRunning DEF ProtocolInv
<1>5. \A ch \in Challenge : Gone(ch) => Gone(ch)'
  BY <1>1, <1>2 DEF Gone, externalVars
<1>6. /\ \A r \in wire : ChallengeOf[r.scope] \in Challenge
      /\ \A s \in Scope : ChallengeOf[s] \in Challenge
      /\ accepted \subseteq Scope
  BY DEF TypeOK, Request
<1>7. WireFacts' /\ LearntFacts'
  BY <1>1, <1>5, <1>6 DEF ProtocolInv, RowInv, WireFacts, LearntFacts
<1>8. AcceptedFacts'
  <2>1. ASSUME NEW s \in accepted, AcceptedRow(s) PROVE AcceptedRow(s)'
    BY <1>1, <1>2, <1>6, <2>1 DEF AcceptedRow, externalVars
  <2> QED
    BY <1>1, <1>5, <1>6, <2>1 DEF ProtocolInv, RowInv, AcceptedFacts, externalVars
<1>9. CatalogueFacts'
  BY <1>1, <1>2 DEF ProtocolInv, RowInv, CatalogueFacts, ConcludedIn, externalVars
<1> QED
  BY <1>3, <1>4, <1>7, <1>8, <1>9 DEF ProtocolInv, RowInv

\* The process forgets what it knows of the platform, but not that a challenge
\* is over.
LEMMA ForgetStep ==
  ASSUME TypeOK, ProtocolInv, solver' = [w \in Solver |-> EmptySlot],
         fetched' = NoCatalogue, view' \in [Challenge -> View],
         \A ch \in Challenge : view'[ch] \in {view[ch], "unread"},
         UNCHANGED <<intents, wire, externalVars, learnt>>
  PROVE  TypeOK' /\ ProtocolInv'
<1>1. TypeOK' /\ SlotFacts'
  BY AllIdle DEF TypeOK, IntentsTypeOK, externalVars
<1>2. \A ch \in Challenge : Gone(ch) => Gone(ch)'
  BY DEF Gone, externalVars
<1>3. /\ \A r \in wire : ChallengeOf[r.scope] \in Challenge
      /\ \A s \in Scope : ChallengeOf[s] \in Challenge
      /\ accepted \subseteq Scope
  BY DEF TypeOK, Request
<1>4. WireFacts' /\ LearntFacts'
  BY <1>2, <1>3 DEF ProtocolInv, RowInv, WireFacts, LearntFacts
<1>5. AcceptedFacts'
  <2>1. ASSUME NEW s \in accepted, AcceptedRow(s) PROVE AcceptedRow(s)'
    BY <2>1 DEF AcceptedRow, externalVars
  <2> QED
    BY <1>2, <1>3, <2>1 DEF ProtocolInv, RowInv, AcceptedFacts, externalVars
<1>6. CatalogueFacts'
  BY DEF ProtocolInv, RowInv, CatalogueFacts, ConcludedIn, externalVars
<1> QED
  BY <1>1, <1>4, <1>5, <1>6 DEF ProtocolInv, RowInv

LEMMA PassCachedStep ==
  ASSUME TypeOK, ProtocolInv, PassWithCachedCatalogue
  PROVE  TypeOK' /\ ProtocolInv'
<1>1. view' = view /\ view \in [Challenge -> View]
  BY DEF PassWithCachedCatalogue, TypeOK
<1> QED
  BY <1>1, ForgetStep DEF PassWithCachedCatalogue

LEMMA CrashStep ==
  ASSUME TypeOK, ProtocolInv, Crash
  PROVE  TypeOK' /\ ProtocolInv'
<1>1. view' \in [Challenge -> View] /\ \A ch \in Challenge : view'[ch] = "unread"
  BY DEF Crash, View
<1> QED
  BY <1>1, ForgetStep DEF Crash

\* The catalogue forgets rows: those of challenges that are over, and those too
\* old for what they stand for to happen still.
LEMMA PassFreshStep ==
  ASSUME TypeOK, ProtocolInv, PassWithFreshCatalogue
  PROVE  TypeOK' /\ ProtocolInv'
<1>1. /\ fetched # NoCatalogue /\ fetched' = NoCatalogue
      /\ view' = [ch \in Challenge |-> IF ch \in fetched.shown THEN "solved" ELSE "unsolved"]
      /\ solver' = [w \in Solver |-> EmptySlot]
      /\ UNCHANGED <<wire, platform, lag, accepted, learnt>>
      /\ intents' = [s \in Scope |-> [c \in Candidate |->
                        IF ChallengeOf[s] \in Challenge /\ Clears(s, c, fetched.shown)
                          THEN NoRow ELSE intents[s][c]]]
  BY DEF PassWithFreshCatalogue, ReconcileCatalogue, externalVars
<1>2. /\ fetched \in Response /\ fetched.shown \subseteq Challenge /\ fetched.age \in 0..Fetch
      /\ intents \in [Scope -> [Candidate -> Row]]
      /\ \A ch \in Challenge : lag[ch] \in 0..Lag
      /\ \A r \in wire : r.scope \in Scope /\ r.cand \in Candidate /\ r.age \in 0..Delay
      /\ accepted \subseteq Scope
  BY <1>1 DEF TypeOK, IntentsTypeOK, Request, Response
<1>3. NoRow \in Row
  BY DEF NoRow, Row, Status
<1>4. TypeOK'
  <2>1. intents' \in [Scope -> [Candidate -> Row]] /\ view' \in [Challenge -> View]
    BY <1>1, <1>2, <1>3 DEF View
  <2> QED
    BY <1>1, <2>1, AllIdle DEF TypeOK, IntentsTypeOK
<1>5. \A ch \in Challenge : /\ ch \in fetched.shown => Gone(ch)'
                            /\ ch \notin fetched.shown => ~Gone(ch)
  BY <1>1, <1>2 DEF ProtocolInv, RowInv, CatalogueFacts, Gone
<1>6. ASSUME NEW s \in Scope, NEW c \in Candidate, ChallengeOf[s] \notin fetched.shown,
             \/ Settled(intents[s][c])
             \/ intents[s][c].status \notin Unresolved
             \/ intents[s][c].age <= Delay + Lag + Fetch
      PROVE  intents'[s][c] = intents[s][c]
  <2>1. ~Clears(s, c, fetched.shown)
    <3>1. intents[s][c].age \in Nat
      BY <1>2 DEF Row
    <3>2. ~(intents[s][c].age <= Delay + Lag + Fetch /\ intents[s][c].age >= ReconcileAge)
      BY <3>1
    <3> QED
      BY <1>6, <3>2 DEF Clears, Settled, Unresolved
  <2> QED
    BY <1>1, <2>1
<1>7. WireFacts'
  <2>1. ASSUME NEW r \in wire, ChallengeOf[r.scope] \notin fetched.shown
        PROVE  intents'[r.scope][r.cand].status \in Unresolved
               /\ intents'[r.scope][r.cand].age <= r.age
    <3>1. intents[r.scope][r.cand].status \in Unresolved /\ intents[r.scope][r.cand].age <= r.age
      BY <1>2, <1>5, <2>1 DEF ProtocolInv, RowInv, WireFacts
    <3>2. intents[r.scope][r.cand].age <= Delay + Lag + Fetch
      <4>1. intents[r.scope][r.cand].age \in Nat /\ r.age \in 0..Delay
        BY <1>2 DEF Row
      <4> QED
        BY <3>1, <4>1
    <3> QED
      BY <1>2, <1>6, <2>1, <3>1, <3>2
  <2> QED
    BY <1>1, <1>2, <1>5, <2>1 DEF ProtocolInv, RowInv, WireFacts
<1>8. AcceptedFacts'
  <2>1. ASSUME NEW s \in accepted, ChallengeOf[s] \notin fetched.shown
        PROVE  AcceptedRow(s)'
    <3> DEFINE ch == ChallengeOf[s]
               row == intents[s][Flag[s]]
    <3>1. /\ s \in Scope /\ ch \in Challenge /\ Flag[s] \in Candidate
          /\ platform[ch] \in {"solved", "listed"} /\ AcceptedRow(s)
      BY <1>2, <1>5, <2>1 DEF ProtocolInv, RowInv, AcceptedFacts, TypeOK
    <3>2. \/ Settled(row)
          \/ /\ row.status \in Unresolved
             /\ platform[ch] = "solved" => row.age <= Delay + lag[ch]
             /\ platform[ch] = "listed" => row.age <= Delay + Lag + fetched.age
      BY <1>1, <2>1, <3>1 DEF AcceptedRow
    <3>3. Settled(row) \/ row.age <= Delay + Lag + Fetch
      <4>1. row.age \in Nat /\ lag[ch] \in 0..Lag /\ fetched.age \in 0..Fetch
        BY <1>2, <3>1 DEF Row
      <4> HIDE DEF row, ch
      <4> QED
        BY <3>1, <3>2, <4>1
    <3>4. intents'[s][Flag[s]] = row
      BY <1>6, <2>1, <3>1, <3>3
    <3> QED
      BY <1>1, <3>1, <3>2, <3>4 DEF AcceptedRow
  <2> QED
    BY <1>1, <1>2, <1>5, <2>1 DEF ProtocolInv, RowInv, AcceptedFacts
<1>9. LearntFacts'
  <2>1. ASSUME NEW s \in Scope, NEW c \in Candidate, ChallengeOf[s] \notin fetched.shown
        PROVE  /\ <<s, c, "incorrect">> \in learnt =>
                     intents'[s][c].status \in {"rejected", "conflict"}
               /\ \A v \in Concluding : <<s, c, v>> \in learnt => Settled(intents'[s][c])
    <3>1. /\ <<s, c, "incorrect">> \in learnt => intents[s][c].status \in {"rejected", "conflict"}
          /\ \A v \in Concluding : <<s, c, v>> \in learnt => Settled(intents[s][c])
      BY <1>5, <2>1 DEF ProtocolInv, RowInv, LearntFacts
    <3>2. Settled(intents[s][c]) \/ intents[s][c].status \in {"rejected", "conflict"} =>
            intents'[s][c] = intents[s][c]
      BY <1>6, <2>1 DEF Unresolved
    <3> QED
      BY <3>1, <3>2
  <2> QED
    BY <1>1, <1>5, <2>1 DEF LearntFacts
<1>10. CatalogueFacts'
  BY <1>1, <1>2 DEF ProtocolInv, RowInv, CatalogueFacts
<1> QED
  BY <1>1, <1>4, <1>7, <1>8, <1>9, <1>10, AllIdle DEF ProtocolInv, RowInv

-----------------------------------------------------------------------------
(* The platform and the network. *)

\* A submission leaves the wire with an answer: it was alone in its scope, so
\* nothing of the slot that gets the answer is out any more.
LEMMA AnsweredSlots ==
  ASSUME TypeOK, ProtocolInv, NEW r \in wire, NEW v \in Verdict,
         v = "incorrect" => r.cand # Flag[r.scope],
         solver' = Answered(r, v), wire' = wire \ {r},
         accepted' \in {accepted, accepted \cup {r.scope}},
         UNCHANGED <<intents, view, fetched, learnt>>
  PROVE  SlotFacts' /\ solver' \in [Solver -> Slot]
<1>1. \A w \in Solver :
        /\ solver[w] \in Slot /\ SlotFine(solver[w]) /\ SenderFine(solver[w])
        /\ \/ solver'[w] = solver[w]
           \/ /\ solver[w].pc = "calling" /\ solver[w].scope = r.scope
              /\ solver[w].cand = r.cand
              /\ solver'[w] = [solver[w] EXCEPT !.pc = "answered", !.verdict = v]
  BY DEF TypeOK, ProtocolInv, SlotFacts, Answered
<1>2. ASSUME NEW b \in Slot
      PROVE  LET x == [b EXCEPT !.pc = "answered", !.verdict = v]
             IN  /\ x \in Slot /\ x.pc = "answered" /\ x.verdict = v
                 /\ x.scope = b.scope /\ x.cand = b.cand
  BY DEF Slot, Pc
<1>3. ASSUME NEW w \in Solver
      PROVE  \/ solver'[w] = solver[w]
             \/ /\ solver[w].pc = "calling" /\ solver[w].scope = r.scope
                /\ solver[w].cand = r.cand
                /\ solver'[w] \in Slot /\ solver'[w].pc = "answered"
                /\ solver'[w].verdict = v
                /\ solver'[w].scope = r.scope /\ solver'[w].cand = r.cand
  <2>1. solver[w] \in Slot
    BY <1>1
  <2> DEFINE x == [solver[w] EXCEPT !.pc = "answered", !.verdict = v]
  <2>2. /\ x \in Slot /\ x.pc = "answered" /\ x.verdict = v
        /\ x.scope = solver[w].scope /\ x.cand = solver[w].cand
    BY <1>2, <2>1
  <2>3. \/ solver'[w] = solver[w]
        \/ /\ solver[w].pc = "calling" /\ solver[w].scope = r.scope
           /\ solver[w].cand = r.cand /\ solver'[w] = x
    BY <1>1
  <2> HIDE DEF x
  <2> QED
    BY <2>2, <2>3
<1>4. solver' \in [Solver -> Slot]
  BY <1>1, <1>3 DEF Answered
<1>5. \A w \in Solver : /\ solver'[w].scope = solver[w].scope
                        /\ solver'[w].pc # "idle" => solver[w].pc # "idle"
  BY <1>3
<1>6. Apart'
  BY <1>5 DEF ProtocolInv, SlotFacts, Apart
<1>7. \A q \in wire : q.scope = r.scope => q = r
  BY DEF ProtocolInv, RowInv, WireFacts
<1>8. ASSUME NEW w \in Solver PROVE SlotFine(solver[w])' /\ SenderFine(solver[w])'
  <2>0. SlotFine(solver[w]) /\ SenderFine(solver[w])
    BY <1>1
  <2>1. CASE solver'[w] = solver[w]
    <3>1. SlotFine(solver[w])'
      BY <2>0, <2>1 DEF SlotFine
    <3>2. solver[w].pc \in {"reserved", "marked"} =>
            solver[w].scope \notin accepted' /\ \A q \in wire' : q.scope # solver[w].scope
      BY <2>0 DEF SenderFine
    <3>3. SenderFine(solver[w])'
      BY <2>0, <2>1, <3>2 DEF SenderFine, SendsAgainst, ConcludedIn
    <3> QED
      BY <3>1, <3>3
  <2>2. CASE solver'[w] # solver[w]
    <3>1. /\ solver[w].pc = "calling" /\ solver[w].scope = r.scope /\ solver[w].cand = r.cand
          /\ solver'[w] \in Slot /\ solver'[w].pc = "answered" /\ solver'[w].verdict = v
          /\ solver'[w].scope = r.scope /\ solver'[w].cand = r.cand
      BY <1>3, <2>2
    <3>2. SlotFine(solver[w])'
      BY <2>0, <3>1 DEF SlotFine, Running, Pc
    <3>3. SenderFine(solver[w])'
      BY <1>7, <3>1 DEF SenderFine
    <3> QED
      BY <3>2, <3>3
  <2> QED
    BY <2>1, <2>2
<1> QED
  BY <1>4, <1>6, <1>8 DEF SlotFacts

\* The platform moves on: what it lists or accepted stays so.
LEMMA OthersAccepted ==
  ASSUME TypeOK, ProtocolInv, NEW ch \in Challenge,
         \A x \in Challenge : x # ch => platform'[x] = platform[x] /\ lag'[x] = lag[x],
         Gone(ch) => Gone(ch)',
         UNCHANGED <<intents, view, fetched>>,
         NEW s \in accepted, ChallengeOf[s] # ch
  PROVE  (platform[ChallengeOf[s]] # "open" /\ (Gone(ChallengeOf[s]) \/ AcceptedRow(s)))'
<1>1. s \in Scope /\ ChallengeOf[s] \in Challenge
  BY DEF TypeOK
<1>2. platform[ChallengeOf[s]] # "open" /\ (Gone(ChallengeOf[s]) \/ AcceptedRow(s))
  BY DEF ProtocolInv, RowInv, AcceptedFacts
<1> QED
  BY <1>1, <1>2 DEF Gone, AcceptedRow

LEMMA ProcessStep ==
  ASSUME TypeOK, ProtocolInv, NEW r \in wire, Process(r)
  PROVE  TypeOK' /\ ProtocolInv'
<1> DEFINE ch == ChallengeOf[r.scope]
           v == Answer(r)
<1>1. /\ wire' = wire \ {r} /\ solver' = Answered(r, v)
      /\ UNCHANGED <<intents, view, fetched, lag, learnt>>
      /\ \/ /\ v = "correct" /\ accepted' = accepted \cup {r.scope}
            /\ platform' = [platform EXCEPT ![ch] = "solved"]
         \/ v # "correct" /\ UNCHANGED <<accepted, platform>>
  BY DEF Process
<1>2. /\ r.scope \in Scope /\ r.cand \in Candidate /\ r.age \in 0..Delay /\ ch \in Challenge
      /\ intents \in [Scope -> [Candidate -> Row]]
      /\ \A x \in Challenge : lag[x] \in Nat
  BY DEF TypeOK, Request, IntentsTypeOK
<1>3. /\ v \in {"correct", "incorrect", "already_solved"} /\ v \in Verdict
      /\ v = "incorrect" => r.cand # Flag[r.scope]
      /\ v = "correct" => platform[ch] = "open" /\ r.cand = Flag[r.scope]
  BY DEF Answer, Verdict
<1> HIDE DEF v
<1>4. SlotFacts' /\ solver' \in [Solver -> Slot]
  BY <1>1, <1>3, AnsweredSlots
<1>5. TypeOK'
  BY <1>1, <1>2, <1>4 DEF TypeOK, IntentsTypeOK
<1>6. /\ \A x \in Challenge : Gone(x) => Gone(x)'
      /\ \A x \in Challenge : x # ch => platform'[x] = platform[x]
      /\ \A x \in Challenge : platform[x] = "listed" => platform'[x] = "listed"
  BY <1>1, <1>3 DEF Gone, TypeOK
<1>7. \A q \in wire : ChallengeOf[q.scope] \in Challenge
  BY DEF TypeOK, Request
<1>8. WireFacts'
  BY <1>1, <1>6, <1>7 DEF ProtocolInv, RowInv, WireFacts
<1>9. LearntFacts'
  BY <1>1, <1>6 DEF ProtocolInv, RowInv, LearntFacts
<1>10. CatalogueFacts'
  <2>1. \A x \in Challenge : platform'[x] = "open" => platform[x] = "open"
    BY <1>1, <1>3, <1>6
  <2>2. fetched # NoCatalogue => fetched.shown \subseteq Challenge
    BY DEF TypeOK, Response
  <2> QED
    BY <1>1, <1>6, <2>1, <2>2 DEF ProtocolInv, RowInv, CatalogueFacts, ConcludedIn
<1>11. AcceptedFacts'
  <2>1. CASE v # "correct"
    BY <1>1, <1>6, <2>1 DEF ProtocolInv, RowInv, AcceptedFacts, AcceptedRow, Gone
  <2>2. CASE v = "correct"
    <3>1. platform'[ch] = "solved" /\ platform[ch] = "open"
      BY <1>1, <1>2, <1>3, <2>2 DEF TypeOK
    <3>2. /\ intents[r.scope][Flag[r.scope]].status \in Unresolved
          /\ intents[r.scope][Flag[r.scope]].age <= r.age
      BY <1>3, <2>2, <3>1 DEF ProtocolInv, RowInv, WireFacts, Gone
    <3>3. intents[r.scope][Flag[r.scope]].age <= Delay + lag[ch]
      <4>1. intents[r.scope][Flag[r.scope]].age \in Nat /\ lag[ch] \in Nat
        BY <1>2 DEF Row
      <4> QED
        BY <1>2, <3>2, <4>1
    <3>4. (platform[ch] # "open" /\ AcceptedRow(r.scope))'
      BY <1>1, <3>1, <3>2, <3>3 DEF AcceptedRow
    <3>5. ASSUME NEW s \in accepted
          PROVE  (platform[ChallengeOf[s]] # "open" /\ (Gone(ChallengeOf[s]) \/ AcceptedRow(s)))'
      <4>1. ChallengeOf[s] # ch
        BY <3>1 DEF ProtocolInv, RowInv, AcceptedFacts
      <4> QED
        BY <1>1, <1>2, <1>6, <4>1, OthersAccepted
    <3> QED
      BY <1>1, <2>2, <3>4, <3>5 DEF AcceptedFacts
  <2> QED
    BY <2>1, <2>2
<1> QED
  BY <1>4, <1>5, <1>8, <1>9, <1>10, <1>11 DEF ProtocolInv, RowInv

LEMMA DropStep ==
  ASSUME TypeOK, ProtocolInv, NEW r \in wire, Drop(r)
  PROVE  TypeOK' /\ ProtocolInv'
<1>1. PICK v \in {"ratelimited", "uncertain"} : solver' = Answered(r, v)
  BY DEF Drop
<1>2. /\ wire' = wire \ {r} /\ UNCHANGED <<intents, view, fetched, externalVars, learnt>>
      /\ v \in Verdict /\ v # "incorrect" /\ accepted' = accepted
  BY DEF Drop, Verdict, externalVars
<1>3. SlotFacts' /\ solver' \in [Solver -> Slot]
  BY <1>1, <1>2, AnsweredSlots
<1>4. TypeOK'
  BY <1>2, <1>3 DEF TypeOK, IntentsTypeOK, externalVars
<1>5. RowInv'
  BY <1>2 DEF ProtocolInv, RowInv, WireFacts, AcceptedFacts, AcceptedRow, LearntFacts,
              CatalogueFacts, Gone, ConcludedIn, externalVars
<1> QED
  BY <1>3, <1>4, <1>5 DEF ProtocolInv

\* The slots do not see the platform.
LEMMA SlotsStill ==
  ASSUME ProtocolInv, UNCHANGED <<intents, solver, view, fetched, wire, accepted, learnt>>
  PROVE  SlotFacts'
<1>1. ASSUME NEW w \in Solver PROVE SlotFine(solver[w])' /\ SenderFine(solver[w])'
  <2>1. SlotFine(solver[w]) /\ SenderFine(solver[w])
    BY DEF ProtocolInv, SlotFacts
  <2> QED
    BY <2>1 DEF SlotFine, SenderFine, SendsAgainst, ConcludedIn
<1> QED
  BY <1>1 DEF ProtocolInv, SlotFacts, Apart

LEMMA SolvedElsewhereStep ==
  ASSUME TypeOK, ProtocolInv, NEW ch \in Challenge, SolvedElsewhere(ch)
  PROVE  TypeOK' /\ ProtocolInv'
<1>1. /\ platform[ch] = "open" /\ platform' = [platform EXCEPT ![ch] = "solved"]
      /\ UNCHANGED <<intents, solver, view, fetched, wire, lag, accepted, learnt>>
  BY DEF SolvedElsewhere
<1>2. TypeOK' /\ SlotFacts'
  BY <1>1, SlotsStill DEF TypeOK, IntentsTypeOK
<1>3. /\ \A x \in Challenge : Gone(x) => Gone(x)'
      /\ \A x \in Challenge : x # ch => platform'[x] = platform[x]
      /\ \A x \in Challenge : platform[x] = "listed" => platform'[x] = "listed"
      /\ platform'[ch] = "solved"
  BY <1>1 DEF Gone, TypeOK
<1>4. /\ \A q \in wire : ChallengeOf[q.scope] \in Challenge
      /\ fetched # NoCatalogue => fetched.shown \subseteq Challenge
  BY DEF TypeOK, Request, Response
<1>5. WireFacts' /\ LearntFacts'
  BY <1>1, <1>3, <1>4 DEF ProtocolInv, RowInv, WireFacts, LearntFacts
<1>6. CatalogueFacts'
  BY <1>1, <1>3, <1>4 DEF ProtocolInv, RowInv, CatalogueFacts, ConcludedIn
<1>7. AcceptedFacts'
  <2>1. ASSUME NEW s \in accepted
        PROVE  (platform[ChallengeOf[s]] # "open" /\ (Gone(ChallengeOf[s]) \/ AcceptedRow(s)))'
    <3>1. ChallengeOf[s] # ch
      BY <1>1 DEF ProtocolInv, RowInv, AcceptedFacts
    <3> QED
      BY <1>1, <1>3, <3>1, OthersAccepted
  <2> QED
    BY <1>1, <2>1 DEF AcceptedFacts
<1> QED
  BY <1>2, <1>5, <1>6, <1>7 DEF ProtocolInv, RowInv

LEMMA ListSolveStep ==
  ASSUME TypeOK, ProtocolInv, NEW ch \in Challenge, ListSolve(ch)
  PROVE  TypeOK' /\ ProtocolInv'
<1>1. /\ platform[ch] = "solved" /\ platform' = [platform EXCEPT ![ch] = "listed"]
      /\ lag' = [lag EXCEPT ![ch] = 0]
      /\ UNCHANGED <<intents, solver, view, fetched, wire, accepted, learnt>>
  BY DEF ListSolve
<1>2. TypeOK' /\ SlotFacts'
  BY <1>1, SlotsStill DEF TypeOK, IntentsTypeOK
<1>3. /\ \A x \in Challenge : Gone(x) => Gone(x)'
      /\ \A x \in Challenge : x # ch => platform'[x] = platform[x] /\ lag'[x] = lag[x]
      /\ \A x \in Challenge : platform[x] = "listed" => platform'[x] = "listed"
      /\ platform'[ch] = "listed" /\ lag'[ch] = 0
  BY <1>1 DEF Gone, TypeOK
<1>4. /\ \A q \in wire : ChallengeOf[q.scope] \in Challenge
      /\ fetched # NoCatalogue => fetched.shown \subseteq Challenge /\ fetched.age \in Nat
  BY DEF TypeOK, Request, Response
<1>5. WireFacts' /\ LearntFacts'
  BY <1>1, <1>3, <1>4 DEF ProtocolInv, RowInv, WireFacts, LearntFacts
<1>6. CatalogueFacts'
  BY <1>1, <1>3, <1>4 DEF ProtocolInv, RowInv, CatalogueFacts, ConcludedIn
<1>7. AcceptedFacts'
  <2>1. ASSUME NEW s \in accepted, ChallengeOf[s] = ch
        PROVE  (platform[ChallengeOf[s]] # "open" /\ (Gone(ChallengeOf[s]) \/ AcceptedRow(s)))'
    <3> DEFINE row == intents[s][Flag[s]]
    <3>1. /\ s \in Scope /\ row \in Row /\ lag[ch] \in 0..Lag
          /\ ~Gone(ch) /\ AcceptedRow(s)
      BY <1>1, <2>1 DEF ProtocolInv, RowInv, AcceptedFacts, TypeOK, IntentsTypeOK, Gone
    <3>2. Settled(row) \/ (row.status \in Unresolved /\ row.age <= Delay + lag[ch])
      BY <1>1, <2>1, <3>1 DEF AcceptedRow
    <3>3. row.age <= Delay + lag[ch] /\ fetched # NoCatalogue =>
            row.age <= Delay + Lag + fetched.age
      <4>1. row.age \in Nat
        BY <3>1 DEF Row
      <4> HIDE DEF row
      <4> QED
        BY <1>4, <3>1, <4>1
    <3> QED
      BY <1>1, <1>3, <2>1, <3>2, <3>3 DEF AcceptedRow
  <2>2. ASSUME NEW s \in accepted
        PROVE  (platform[ChallengeOf[s]] # "open" /\ (Gone(ChallengeOf[s]) \/ AcceptedRow(s)))'
    <3>1. CASE ChallengeOf[s] = ch
      BY <2>1, <3>1
    <3>2. CASE ChallengeOf[s] # ch
      BY <1>1, <1>3, <3>2, OthersAccepted
    <3> QED
      BY <3>1, <3>2
  <2> QED
    BY <1>1, <2>2 DEF AcceptedFacts
<1> QED
  BY <1>2, <1>5, <1>6, <1>7 DEF ProtocolInv, RowInv

-----------------------------------------------------------------------------
(* Time. *)

Older(r) == [r EXCEPT !.age = @ + 1]

\* A tick ages a row of unknown outcome by one, up to the bound, and nothing else.
LEMMA AgedRow ==
  ASSUME NEW row \in Row
  PROVE  /\ Aged(row) \in Row /\ Aged(row).status = row.status
         /\ Aged(row).terminal = row.terminal /\ Aged(row).age <= row.age + 1
<1>1. CASE row.status \in Unresolved /\ row.age < ReconcileAge
  <2>1. row.age + 1 \in 0..ReconcileAge
    BY <1>1 DEF Row
  <2> QED
    BY <1>1, <2>1 DEF Aged, Row
<1>2. CASE ~(row.status \in Unresolved /\ row.age < ReconcileAge)
  BY <1>2 DEF Aged, Row
<1> QED
  BY <1>1, <1>2

LEMMA OlderRequest ==
  ASSUME NEW r \in Request, r.age < Delay
  PROVE  /\ Older(r) \in Request /\ Older(r).scope = r.scope /\ Older(r).cand = r.cand
         /\ Older(r).age = r.age + 1
<1>1. r.age + 1 \in 0..Delay
  BY DEF Request
<1> QED
  BY <1>1 DEF Older, Request

\* Ages grow together: a row of unknown outcome stays no older than what it
\* stands for.
LEMMA TickStep ==
  ASSUME TypeOK, ProtocolInv, Tick
  PROVE  TypeOK' /\ ProtocolInv'
<1>1. /\ \A r \in wire : r.age < Delay
      /\ \A w \in Solver : solver[w].pc = "marked" =>
            intents[solver[w].scope][solver[w].cand].age < Delay
      /\ \A ch \in Challenge : platform[ch] = "solved" => lag[ch] < Lag
      /\ fetched # NoCatalogue => fetched.age < Fetch
      /\ intents' = [s \in Scope |-> [c \in Candidate |-> Aged(intents[s][c])]]
      /\ wire' = {Older(r) : r \in wire}
      /\ fetched' = IF fetched = NoCatalogue THEN fetched ELSE [fetched EXCEPT !.age = @ + 1]
      /\ lag' = [ch \in Challenge |-> IF platform[ch] = "solved" THEN lag[ch] + 1 ELSE lag[ch]]
      /\ UNCHANGED <<solver, view, platform, accepted, learnt>>
  BY DEF Tick, AgeIntents, Older
<1>2. /\ intents \in [Scope -> [Candidate -> Row]] /\ solver \in [Solver -> Slot]
      /\ \A r \in wire : r \in Request /\ r.scope \in Scope /\ r.cand \in Candidate
                         /\ r.age \in Nat /\ ChallengeOf[r.scope] \in Challenge
      /\ \A ch \in Challenge : lag[ch] \in 0..Lag
      /\ accepted \subseteq Scope
      /\ \A s \in Scope : ChallengeOf[s] \in Challenge /\ Flag[s] \in Candidate
  BY DEF TypeOK, IntentsTypeOK, Request
<1>3. \A s \in Scope, c \in Candidate :
        /\ intents[s][c] \in Row /\ intents'[s][c] \in Row
        /\ intents[s][c].age \in Nat /\ intents'[s][c].age \in Nat
        /\ intents'[s][c].status = intents[s][c].status
        /\ intents'[s][c].terminal = intents[s][c].terminal
        /\ intents'[s][c].age <= intents[s][c].age + 1
  <2>1. ASSUME NEW s \in Scope, NEW c \in Candidate
        PROVE  intents'[s][c] = Aged(intents[s][c]) /\ intents[s][c] \in Row
    BY <1>1, <1>2
  <2> QED
    BY <2>1, AgedRow DEF Row
<1>4. \A r \in wire : /\ Older(r) \in Request /\ Older(r).scope = r.scope
                      /\ Older(r).cand = r.cand /\ Older(r).age = r.age + 1
  BY <1>1, <1>2, OlderRequest
<1>5. /\ fetched = NoCatalogue => fetched' = NoCatalogue
      /\ fetched # NoCatalogue =>
            /\ fetched' \in Response /\ fetched'.shown = fetched.shown
            /\ fetched'.age = fetched.age + 1 /\ fetched.age \in Nat
  <2>1. CASE fetched # NoCatalogue
    <3>1. fetched \in Response
      BY <2>1 DEF TypeOK
    <3>2. fetched.age + 1 \in 0..Fetch /\ fetched.age \in Nat
      BY <1>1, <2>1, <3>1 DEF Response
    <3> QED
      BY <1>1, <2>1, <3>1, <3>2 DEF Response
  <2> QED
    BY <1>1, <2>1
<1>6. fetched' # NoCatalogue => fetched # NoCatalogue
  BY <1>5
<1>7. TypeOK'
  <2>1. intents' \in [Scope -> [Candidate -> Row]]
    <3>1. \A s \in Scope : intents'[s] \in [Candidate -> Row]
      <4>1. ASSUME NEW s \in Scope PROVE intents'[s] = [c \in Candidate |-> Aged(intents[s][c])]
        BY <1>1
      <4> QED
        BY <1>3, <4>1
    <3> QED
      BY <1>1, <3>1
  <2>2. wire' \subseteq Request
    BY <1>1, <1>4
  <2>3. lag' \in [Challenge -> 0..Lag]
    <3>1. ASSUME NEW ch \in Challenge
          PROVE  (IF platform[ch] = "solved" THEN lag[ch] + 1 ELSE lag[ch]) \in 0..Lag
      BY <1>1, <1>2
    <3> QED
      BY <1>1, <3>1
  <2>4. fetched' \in Response \cup {NoCatalogue}
    BY <1>5
  <2> QED
    BY <1>1, <2>1, <2>2, <2>3, <2>4 DEF TypeOK, IntentsTypeOK
<1>8. \A ch \in Challenge : Gone(ch) => Gone(ch)'
  BY <1>1, <1>5, <1>6 DEF Gone
<1>9. \A s \in Scope, c \in Candidate : Settled(intents'[s][c]) <=> Settled(intents[s][c])
  BY <1>3 DEF Settled
<1>10. WireFacts'
  <2>1. ASSUME NEW r \in wire
        PROVE  \/ Gone(ChallengeOf[r.scope])'
               \/ /\ intents'[r.scope][r.cand].status \in Unresolved
                  /\ intents'[r.scope][r.cand].age <= r.age + 1
    <3>1. CASE Gone(ChallengeOf[r.scope])
      BY <1>2, <1>8, <3>1
    <3>2. CASE /\ intents[r.scope][r.cand].status \in Unresolved
               /\ intents[r.scope][r.cand].age <= r.age
      BY <1>2, <1>3, <3>2
    <3> QED
      BY <3>1, <3>2 DEF ProtocolInv, RowInv, WireFacts
  <2>2. ASSUME NEW q \in wire' PROVE \E r \in wire : q = Older(r)
    BY <1>1
  <2>3. \A q, p \in wire' : q.scope = p.scope => q = p
    BY <1>4, <2>2 DEF ProtocolInv, RowInv, WireFacts
  <2>4. ASSUME NEW q \in wire'
        PROVE  \/ Gone(ChallengeOf[q.scope])'
               \/ /\ intents'[q.scope][q.cand].status \in Unresolved
                  /\ intents'[q.scope][q.cand].age <= q.age
    <3>1. PICK r \in wire : q = Older(r)
      BY <2>2
    <3> QED
      BY <1>4, <2>1, <3>1
  <2> QED
    BY <2>3, <2>4 DEF WireFacts
<1>11. AcceptedFacts'
  <2>1. ASSUME NEW s \in accepted, AcceptedRow(s) PROVE AcceptedRow(s)'
    <3> DEFINE ch == ChallengeOf[s]
               old == intents[s][Flag[s]]
               new == intents'[s][Flag[s]]
    <3>1. /\ s \in Scope /\ ch \in Challenge /\ old.age \in Nat /\ new.age \in Nat
          /\ new.status = old.status /\ new.age <= old.age + 1
          /\ Settled(new) <=> Settled(old)
          /\ lag[ch] \in Nat
      BY <1>2, <1>3, <1>9
    <3>2. /\ platform[ch] = "solved" => lag'[ch] = lag[ch] + 1
          /\ platform' = platform
      BY <1>1, <3>1
    <3>3. \/ Settled(old)
          \/ /\ old.status \in Unresolved
             /\ platform[ch] = "solved" => old.age <= Delay + lag[ch]
             /\ platform[ch] = "listed" /\ fetched # NoCatalogue /\ ch \notin fetched.shown =>
                  old.age <= Delay + Lag + fetched.age
      BY <2>1 DEF AcceptedRow
    <3>4. \/ Settled(new)
          \/ /\ new.status \in Unresolved
             /\ platform'[ch] = "solved" => new.age <= Delay + lag'[ch]
             /\ platform'[ch] = "listed" /\ fetched' # NoCatalogue /\ ch \notin fetched'.shown =>
                  new.age <= Delay + Lag + fetched'.age
      <4> HIDE DEF old, new, ch
      <4> QED
        BY <1>5, <1>6, <3>1, <3>2, <3>3
    <3> QED
      BY <3>4 DEF AcceptedRow
  <2> QED
    BY <1>1, <1>2, <1>8, <2>1 DEF ProtocolInv, RowInv, AcceptedFacts
<1>12. LearntFacts'
  BY <1>1, <1>2, <1>3, <1>8, <1>9 DEF ProtocolInv, RowInv, LearntFacts
<1>13. CatalogueFacts'
  <2>1. \A ch : ConcludedIn(ch) => ConcludedIn(ch)'
    BY <1>9 DEF ConcludedIn, Settled
  <2> QED
    BY <1>1, <1>5, <1>6, <2>1 DEF ProtocolInv, RowInv, CatalogueFacts
<1>14. SlotFacts'
  <2>1. Apart'
    BY <1>1 DEF ProtocolInv, SlotFacts, Apart
  <2>2. ASSUME NEW w \in Solver PROVE SlotFine(solver[w])' /\ SenderFine(solver[w])'
    <3> DEFINE b == solver[w]
    <3>1. SlotFine(b) /\ SenderFine(b) /\ b' = b
      BY <1>1 DEF ProtocolInv, SlotFacts
    <3>2. SlotFine(b)'
      BY <1>1, <1>5, <3>1 DEF SlotFine
    <3>3. \A q \in wire' : \E r \in wire : q.scope = r.scope /\ q.cand = r.cand
      BY <1>1, <1>4
    <3>4. b.pc = "marked" =>
            /\ intents'[b.scope][b.cand].status = "dispatch_possible"
            /\ intents'[b.scope][b.cand].age <= Delay
      <4>1. ASSUME b.pc = "marked"
            PROVE  /\ b.scope \in Scope /\ b.cand \in Candidate
                   /\ intents[b.scope][b.cand].status = "dispatch_possible"
                   /\ intents[b.scope][b.cand].age < Delay
        BY <1>1, <3>1, <4>1 DEF SlotFine, SenderFine
      <4> HIDE DEF b
      <4> QED
        BY <1>3, <4>1
    <3>5. ConcludedIn(ChallengeOf[b.scope]) => ConcludedIn(ChallengeOf[b.scope])'
      BY <1>9, <3>1 DEF ConcludedIn, Settled
    <3>6. SendsAgainst(b.scope, b.cand)' = SendsAgainst(b.scope, b.cand)
      BY <1>1, <3>1 DEF SendsAgainst
    <3>7. b.pc \in {"calling", "answered"} =>
            \A q \in wire' : q.scope = b.scope =>
              q.cand = b.cand /\ (b.pc = "answered" => b.verdict \in {"error", "uncertain"})
      BY <3>1, <3>3 DEF SenderFine
    <3>8. b.pc \in {"reserved", "marked"} => \A q \in wire' : q.scope # b.scope
      BY <3>1, <3>3 DEF SenderFine
    <3> HIDE DEF b
    <3>9. SenderFine(b)'
      BY <1>1, <3>1, <3>4, <3>5, <3>6, <3>7, <3>8 DEF SenderFine
    <3> QED
      BY <3>2, <3>9 DEF b
  <2> QED
    BY <2>1, <2>2 DEF SlotFacts
<1> QED
  BY <1>7, <1>10, <1>11, <1>12, <1>13, <1>14 DEF ProtocolInv, RowInv

-----------------------------------------------------------------------------
(* The theorems. *)

LEMMA InitInv ==
  ASSUME Init
  PROVE  TypeOK /\ ProtocolInv
<1>1. /\ intents = [s \in Scope |-> [c \in Candidate |-> NoRow]]
      /\ solver = [w \in Solver |-> EmptySlot]
      /\ view = [ch \in Challenge |-> "unread"] /\ fetched = NoCatalogue /\ wire = {}
      /\ platform = [ch \in Challenge |-> "open"] /\ lag = [ch \in Challenge |-> 0]
      /\ accepted = {} /\ learnt = {}
  BY DEF Init, IntentsInit
<1>2. NoRow \in Row /\ 0 \in 0..Lag
  BY DEF NoRow, Row, Status
<1>3. TypeOK
  BY <1>1, <1>2, EmptyFine DEF TypeOK, IntentsTypeOK, View
<1>4. SlotFacts
  <2>1. \A w \in Solver : solver[w].pc = "idle"
    BY <1>1, EmptyFine
  <2> QED
    BY <2>1 DEF SlotFacts, Apart, SlotFine, SenderFine, Running
<1>5. RowInv
  BY <1>1 DEF RowInv, WireFacts, AcceptedFacts, LearntFacts, CatalogueFacts
<1> QED
  BY <1>3, <1>4, <1>5 DEF ProtocolInv

LEMMA NextInv ==
  ASSUME TypeOK, ProtocolInv, [Next]_vars
  PROVE  TypeOK' /\ ProtocolInv'
<1>1. CASE \E w \in Solver, s \in Scope : BeginAttempt(w, s)
  BY <1>1, BeginStep
<1>2. CASE \E w \in Solver : AttemptStep(w)
  BY <1>2, AttemptInv
<1>3. CASE FetchCatalogue
  BY <1>3, FetchStep
<1>4. CASE PassWithCachedCatalogue
  BY <1>4, PassCachedStep
<1>5. CASE PassWithFreshCatalogue
  BY <1>5, PassFreshStep
<1>6. CASE Crash
  BY <1>6, CrashStep
<1>7. CASE \E r \in wire : Process(r) \/ Drop(r)
  BY <1>7, ProcessStep, DropStep
<1>8. CASE \E ch \in Challenge : SolvedElsewhere(ch) \/ ListSolve(ch)
  BY <1>8, SolvedElsewhereStep, ListSolveStep
<1>9. CASE Tick
  BY <1>9, TickStep
<1>10. CASE UNCHANGED vars
  <2>1. TypeOK'
    BY <1>10 DEF vars, TypeOK, IntentsTypeOK
  <2>2. SlotFacts'
    BY <1>10, SlotsStill DEF vars
  <2>3. RowInv'
    BY <1>10, RowsStill DEF vars, externalVars, ProtocolInv
  <2> QED
    BY <2>1, <2>2, <2>3 DEF ProtocolInv
<1> QED
  BY <1>1, <1>2, <1>3, <1>4, <1>5, <1>6, <1>7, <1>8, <1>9, <1>10 DEF Next

\* The inductive invariant holds in every run.
THEOREM ProtocolSafe == Spec => [](TypeOK /\ ProtocolInv)
<1>1. Init => TypeOK /\ ProtocolInv
  BY InitInv
<1>2. TypeOK /\ ProtocolInv /\ [Next]_vars => (TypeOK /\ ProtocolInv)'
  BY NextInv
<1> QED
  BY <1>1, <1>2, PTL DEF Spec

\* Rows, slots, the cached catalogue and the platform keep their types.
THEOREM ProtocolTyped == Spec => []TypeOK
BY ProtocolSafe, PTL

\* A challenge that the process calls solved is listed by the platform or
\* blocked by a durable row in every scope, whatever crashed meanwhile.
THEOREM SolvedBeliefDurable == Spec => []SolvedBeliefIsDurable
<1>1. TypeOK /\ ProtocolInv => SolvedBeliefIsDurable
  BY ConcludedBlocks DEF ProtocolInv, RowInv, CatalogueFacts, SolvedBeliefIsDurable
<1> QED
  BY <1>1, ProtocolSafe, PTL

\* A flag is never sent again in the scope that rejected it, nor for a
\* challenge that a durable verdict ended: the marker was committed by a slot
\* whose reservation saw those verdicts, and no other slot of the pass learns
\* one for the same challenge in between.
THEOREM NeverAgainst == Spec => NeverSendsAgainstVerdict
<1>1. TypeOK /\ ProtocolInv =>
        \A w \in Solver : solver[w].pc = "marked" /\ solver'[w].pc = "calling" =>
          ~SendsAgainst(solver[w].scope, solver[w].cand)
  BY DEF ProtocolInv, SlotFacts, SenderFine
<1> QED
  BY <1>1, ProtocolSafe, PTL DEF NeverSendsAgainstVerdict

Outstanding == {<<r.scope, r.cand>> : r \in wire}

\* A submission leaves the wire and its scope, for good or with a solve.
LEMMA LeavesWire ==
  ASSUME TypeOK, ProtocolInv, NEW r \in wire, wire' = wire \ {r},
         accepted' \in {accepted, accepted \cup {r.scope}}
  PROVE  Promise!PromiseNext
<1>1. r.scope \in Scope /\ r.cand \in Candidate
  BY DEF TypeOK, Request
<1>2. \A q \in wire : q.scope = r.scope => q = r
  BY DEF ProtocolInv, RowInv, WireFacts
<1>3. <<r.scope, r.cand>> \in Outstanding
  BY DEF Outstanding
<1>4. Outstanding' = Outstanding \ {<<r.scope, r.cand>>}
  BY <1>2 DEF Outstanding
<1> QED
  BY <1>1, <1>3, <1>4 DEF Promise!PromiseNext, Promise!Process, Outstanding

\* The protocol keeps its promise to the platform: in each scope at most one
\* submission may still take effect, and none is sent after one was accepted,
\* through crashes, lost answers and the catalogue rule that forgets rows.
THEOREM ProtocolKeepsPromise == Spec => KeepsPromise
<1>1. Init => Promise!PromiseInit
  BY DEF Init, Promise!PromiseInit
<1>2. TypeOK /\ ProtocolInv /\ [Next]_vars => [Promise!PromiseNext]_(Promise!promiseVars)
  <2> SUFFICES ASSUME TypeOK, ProtocolInv, [Next]_vars
               PROVE  [Promise!PromiseNext]_(Promise!promiseVars)
    OBVIOUS
  <2>1. ASSUME UNCHANGED <<wire, accepted>> PROVE UNCHANGED Promise!promiseVars
    BY <2>1 DEF Promise!promiseVars
  <2>2. ASSUME NEW w \in Solver, Dispatch(w) PROVE Promise!PromiseNext
    <3> DEFINE s == solver[w].scope
               c == solver[w].cand
               r == [scope |-> s, cand |-> c, age |-> intents[s][c].age]
    <3>1. solver[w].pc = "marked" /\ wire' = wire \cup {r} /\ accepted' = accepted
      BY <2>2 DEF Dispatch, externalVars
    <3>2. s \in Scope /\ c \in Candidate /\ s \notin accepted /\ \A q \in wire : q.scope # s
      BY <3>1 DEF ProtocolInv, SlotFacts, SlotFine, SenderFine
    <3>3. r.scope = s /\ r.cand = c
      OBVIOUS
    <3> HIDE DEF r
    <3>4. /\ Outstanding' = Outstanding \cup {<<s, c>>}
          /\ \A p \in Outstanding : p[1] # s
      BY <3>1, <3>2, <3>3 DEF Outstanding
    <3> HIDE DEF s, c
    <3> QED
      BY <3>1, <3>2, <3>4 DEF Promise!PromiseNext, Promise!Send, Outstanding
  <2>3. CASE \E w \in Solver, s \in Scope : BeginAttempt(w, s)
    BY <2>1, <2>3 DEF BeginAttempt, externalVars
  <2>4. CASE \E w \in Solver : AttemptStep(w)
    <3>1. PICK w \in Solver : AttemptStep(w)
      BY <2>4
    <3>2. CASE Dispatch(w)
      BY <2>2, <3>2
    <3>3. CASE UNCHANGED <<wire, accepted>>
      BY <2>1, <3>3
    <3> QED
      BY <3>1, <3>2, <3>3 DEF AttemptStep, Propose, Mark, CallFails, Record, ReportSolved,
                              EndAttempt, externalVars
  <2>5. CASE FetchCatalogue \/ PassWithCachedCatalogue \/ PassWithFreshCatalogue \/ Crash
    BY <2>1, <2>5 DEF FetchCatalogue, PassWithCachedCatalogue, PassWithFreshCatalogue, Crash,
                      externalVars
  <2>6. CASE \E r \in wire : Process(r)
    <3>1. PICK r \in wire : Process(r)
      BY <2>6
    <3>2. wire' = wire \ {r} /\ accepted' \in {accepted, accepted \cup {r.scope}}
      BY <3>1 DEF Process
    <3> QED
      BY <3>2, LeavesWire
  <2>7. CASE \E r \in wire : Drop(r)
    <3>1. PICK r \in wire : Drop(r)
      BY <2>7
    <3>2. wire' = wire \ {r} /\ accepted' = accepted
      BY <3>1 DEF Drop, externalVars
    <3> QED
      BY <3>2, LeavesWire
  <2>8. CASE \E ch \in Challenge : SolvedElsewhere(ch) \/ ListSolve(ch)
    BY <2>1, <2>8 DEF SolvedElsewhere, ListSolve
  <2>9. CASE Tick
    <3>1. wire' = {Older(r) : r \in wire} /\ accepted' = accepted
          /\ \A r \in wire : r.age < Delay /\ r \in Request
      BY <2>9 DEF Tick, Older, TypeOK
    <3>2. \A r \in wire : Older(r).scope = r.scope /\ Older(r).cand = r.cand
      BY <3>1, OlderRequest
    <3>3. Outstanding' = Outstanding
      BY <3>1, <3>2 DEF Outstanding
    <3> QED
      BY <3>1, <3>3 DEF Promise!promiseVars, Outstanding
  <2>10. CASE UNCHANGED vars
    BY <2>1, <2>10 DEF vars
  <2> QED
    BY <2>3, <2>4, <2>5, <2>6, <2>7, <2>8, <2>9, <2>10 DEF Next
<1> QED
  BY <1>1, <1>2, ProtocolSafe, PTL DEF Spec, KeepsPromise, Promise!PromiseSpec

-----------------------------------------------------------------------------
(* The table under the protocol.                                              *)

\* Attempts, passes and crashes touch the table only through its operations,
\* one at a time.
THEOREM ProtocolUsesTheTable == Spec => TableSpec
<1>1. Init => IntentsInit
  BY DEF Init
<1>2. TypeOK /\ ProtocolInv /\ [Next]_vars => [TableNext]_intents
  <2> SUFFICES ASSUME TypeOK, ProtocolInv, [Next]_vars PROVE TableNext \/ UNCHANGED intents
    OBVIOUS
  <2>1. ASSUME NEW w \in Solver, solver[w].pc \in Running \ {"looping", "solved"}
        PROVE  solver[w].scope \in Scope /\ solver[w].cand \in Candidate
    BY <2>1 DEF ProtocolInv, SlotFacts, SlotFine, Running, Pc
  <2>2. ASSUME NEW w \in Solver, AttemptStep(w) PROVE TableNext \/ UNCHANGED intents
    <3>1. ASSUME NEW c \in Candidate, Propose(w, c) PROVE TableNext \/ UNCHANGED intents
      <4>1. solver[w].scope \in Scope
        BY <3>1 DEF Propose, ProtocolInv, SlotFacts, SlotFine
      <4> QED
        BY <3>1, <4>1 DEF Propose, TableNext
    <3>2. CASE Mark(w)
      <4>1. solver[w].pc = "reserved" /\ MarkDispatchPossible(solver[w].scope, solver[w].cand)
        BY <3>2 DEF Mark
      <4> QED
        BY <4>1, <2>1 DEF TableNext, Running, Pc
    <3>3. CASE Record(w)
      <4>1. /\ solver[w].pc = "answered"
            /\ ReconcileSubmission(solver[w].scope, solver[w].cand, solver[w].verdict)
        BY <3>3 DEF Record
      <4>2. solver[w].verdict \in Verdict
        BY <4>1 DEF ProtocolInv, SlotFacts, SlotFine
      <4> QED
        BY <4>1, <4>2, <2>1 DEF TableNext, Running, Pc
    <3>4. CASE Dispatch(w) \/ CallFails(w) \/ ReportSolved(w) \/ EndAttempt(w)
      BY <3>4 DEF Dispatch, CallFails, ReportSolved, EndAttempt
    <3> QED
      BY <2>2, <3>1, <3>2, <3>3, <3>4 DEF AttemptStep
  <2>3. CASE PassWithFreshCatalogue
    <3>1. fetched.shown \in SUBSET Challenge /\ ReconcileCatalogue(Challenge, fetched.shown)
      BY <2>3 DEF PassWithFreshCatalogue, TypeOK, Response
    <3> QED
      BY <3>1 DEF TableNext
  <2>4. CASE Tick
    BY <2>4 DEF Tick, TableNext
  <2>5. (\E w \in Solver, s \in Scope : BeginAttempt(w, s)) => UNCHANGED intents
    BY DEF BeginAttempt
  <2>6. FetchCatalogue \/ PassWithCachedCatalogue \/ Crash => UNCHANGED intents
    BY DEF FetchCatalogue, PassWithCachedCatalogue, Crash
  <2>7. (\E r \in wire : Process(r) \/ Drop(r)) => UNCHANGED intents
    BY DEF Process, Drop
  <2>8. (\E ch \in Challenge : SolvedElsewhere(ch) \/ ListSolve(ch)) => UNCHANGED intents
    BY DEF SolvedElsewhere, ListSolve
  <2>9. UNCHANGED vars => UNCHANGED intents
    BY DEF vars
  <2> QED
    BY <2>2, <2>3, <2>4, <2>5, <2>6, <2>7, <2>8, <2>9 DEF Next
<1> QED
  BY <1>1, <1>2, ProtocolSafe, PTL DEF Spec, TableSpec

\* The store on its own; what its histories are does not matter here.
Store == INSTANCE IntentVerdictsProofs WITH verdicts <- {}, concluded <- {}

\* The operations read the same there.
LEMMA SameTable ==
  /\ IntentsInit <=> Store!IntentsInit
  /\ TableNext <=> Store!TableNext
  /\ CapacityRespected <=> Store!CapacityRespected
<1>1. IntentsInit <=> Store!IntentsInit
  BY DEF IntentsInit, Store!IntentsInit, NoRow, Store!NoRow
<1>2. CapacityRespected <=> Store!CapacityRespected
  BY DEF CapacityRespected, Store!CapacityRespected, Present, Store!Present,
         Cardinality, Store!Cardinality
<1>3. \A s \in Scope, c \in Candidate :
        /\ ReserveSubmission(s, c) <=> Store!ReserveSubmission(s, c)
        /\ MarkDispatchPossible(s, c) <=> Store!MarkDispatchPossible(s, c)
  BY DEF ReserveSubmission, Store!ReserveSubmission, Blocked, Store!Blocked, Siblings,
         Store!Siblings, AtCapacity, Store!AtCapacity, Present, Store!Present, Cardinality,
         Store!Cardinality, ReservedRow, Store!ReservedRow, Unresolved, Store!Unresolved,
         Concluded, Store!Concluded, MarkDispatchPossible, Store!MarkDispatchPossible
<1>4. \A s \in Scope, c \in Candidate, v \in Verdict :
        ReconcileSubmission(s, c, v) <=> Store!ReconcileSubmission(s, c, v)
  BY DEF ReconcileSubmission, Store!ReconcileSubmission, Resolved, Store!Resolved,
         Classified, Store!Classified
<1>5. \A listed, solvedIds \in SUBSET Challenge :
        ReconcileCatalogue(listed, solvedIds) <=> Store!ReconcileCatalogue(listed, solvedIds)
  BY DEF ReconcileCatalogue, Store!ReconcileCatalogue, Clears, Store!Clears, NoRow,
         Store!NoRow, Unresolved, Store!Unresolved
<1>6. AgeIntents <=> Store!AgeIntents
  BY DEF AgeIntents, Store!AgeIntents, Aged, Store!Aged, Unresolved, Store!Unresolved
<1>7. Verdict = Store!Verdict
  BY DEF Verdict, Store!Verdict
<1> QED
  BY <1>1, <1>2, <1>3, <1>4, <1>5, <1>6, <1>7 DEF TableNext, Store!TableNext

\* So no interleaving of attempts, catalogue reads and crashes makes more rows
\* than _MAX_SUBMISSION_INTENTS.
THEOREM ProtocolCapacity == Spec => []CapacityRespected
<1>1. TableSpec => Store!TableSpec
  BY SameTable, PTL DEF TableSpec, Store!TableSpec
<1> QED
  BY <1>1, SameTable, Store!TableBounded, ProtocolUsesTheTable, PTL

=============================================================================
