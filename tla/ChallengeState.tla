---------------------------- MODULE ChallengeState ---------------------------
(* The table challenge_state of runtime_state.py and the ranking read from it.*)
(*                                                                            *)
(* A row keeps its back-off as the time that is left of it, and its           *)
(* last_attempt_at as the set of challenges recorded after it.  Progress,     *)
(* points, kind, last_attempt and id only break ties between equal keys:      *)
(* BestOf keeps every candidate of a tie.                                     *)
EXTENDS LexOrder, FiniteSets

CONSTANTS
    Challenge,
    Dynamic,        \* challenges with an instance of their own
    Proven,         \* has_local_proof
    HighValue,      \* worth 500 points or more
    Crowd,          \* [Challenge -> public solve count]
    MaxCount,       \* the million at which attempts saturate
    MaxStreak,      \* and the failure streak, of which only BackoffCap matters
    BackoffCap,     \* 2 seconds
    CreditCap,      \* _CROWD_RETRY_CREDIT_CAP
    CountCap,       \* _CROWD_SOLVE_COUNT_CAP
    RetryGap        \* _PROVEN_RETRY_GAP

ASSUME RankingAssumption ==
    /\ IsFiniteSet(Challenge)
    /\ {Dynamic, Proven, HighValue} \subseteq SUBSET Challenge
    /\ Crowd \in [Challenge -> Nat]
    /\ {MaxCount, MaxStreak, BackoffCap, CreditCap, CountCap, RetryGap} \subseteq Nat \ {0}

VARIABLE rows       \* [Challenge -> Row], durable

Outcome == {"solved", "unsolved", "failed"}

\* missed: last_outcome is "unsolved".
Row == [attempts : 0..MaxCount, streak : 0..MaxStreak, missed : BOOLEAN,
        solved : BOOLEAN, wait : 0..BackoffCap, later : SUBSET Challenge]

NoRow == [attempts |-> 0, streak |-> 0, missed |-> FALSE, solved |-> FALSE,
          wait |-> 0, later |-> {}]

-----------------------------------------------------------------------------
(* checkpoint_outcome. *)

\* Variant: the back-off doubles and has no cap.
DoubledBackoff(streak) == 2 * streak

Backoff(streak) == AtMost(streak, BackoffCap)

Advanced(row, outcome) ==
    LET solved == outcome = "solved" \/ row.solved
        streak == IF solved THEN 0 ELSE AtMost(row.streak + 1, MaxStreak)
    IN  [attempts |-> AtMost(row.attempts + 1, MaxCount), streak |-> streak,
         missed |-> outcome = "unsolved", solved |-> solved, wait |-> Backoff(streak),
         later |-> {}]

\* The rows after an outcome of each challenge of a set.
Recorded(table, set, outcome) ==
    [c \in Challenge |->
        IF c \in set THEN Advanced(table[c], outcome)
        ELSE [table[c] EXCEPT !.later = @ \cup set]]

-----------------------------------------------------------------------------
(* rank. *)

Ready(c) == rows[c].wait = 0

\* A proven method that failed once gets its second look after RetryGap others.
RetryDue(c) ==
    /\ c \in Proven /\ rows[c].attempts = 1 /\ rows[c].missed
    /\ Cardinality(rows[c].later) >= RetryGap

Fresh(c) == rows[c].attempts = 0

Tier(c) ==
    CASE RetryDue(c)             -> IF c \in Dynamic THEN 2 ELSE 0
      [] Fresh(c) /\ c \in Proven -> IF c \in Dynamic THEN 3 ELSE 1
      [] Fresh(c) /\ c \notin Proven -> IF c \in Dynamic THEN 5 ELSE 4
      [] OTHER                   -> 6

\* Variant: every public solve counts as one attempt less.
UncappedCredit(c) == Crowd[c]

Credit(c) == AtMost(Crowd[c], CreditCap)

\* Variant: only the catalogue tells what is solved.
CatalogueKey(c, solved) ==
    <<Flagged(c \in solved), Flagged(~Ready(c)), Tier(c),
      AtLeast(0, rows[c].attempts - Credit(c)), rows[c].attempts>>

RankKey(c, solved) ==
    <<Flagged(c \in solved \/ rows[c].solved),
      Flagged(~Ready(c)),
      Flagged(~(c \in Proven \cap HighValue /\ (Fresh(c) \/ RetryDue(c)))),
      Tier(c),
      Flagged(~(c \in Proven /\ rows[c].attempts = 1)),
      AtLeast(0, rows[c].attempts - Credit(c)),
      -AtMost(Crowd[c], CountCap),
      rows[c].attempts>>

\* The members of a set that the ranking may place first.
BestOf(set, solved) ==
    {c \in set : \A d \in set : ~Precedes(RankKey(d, solved), RankKey(c, solved))}

=============================================================================
