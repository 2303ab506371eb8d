------------------------------- MODULE LexOrder ------------------------------
(* Sort keys as the code's tuples of numbers, compared from the left.         *)
EXTENDS Integers, Sequences

Flagged(b) == IF b THEN 1 ELSE 0

AtMost(m, n) == IF m <= n THEN m ELSE n
AtLeast(m, n) == IF m >= n THEN m ELSE n

Precedes(s, t) ==
    \E i \in DOMAIN s : s[i] < t[i] /\ \A j \in 1..(i - 1) : s[j] = t[j]

=============================================================================
