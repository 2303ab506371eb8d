--------------------------- MODULE MCBudgetInstances -------------------------
(* A finite instance of BudgetInstances: two objects opened with limits of 2  *)
(* or 3 units, calls of 1 or 2 units, and a table that holds every call.      *)
EXTENDS BudgetInstances, TLC

CONSTANTS i1, i2, k1, k2, k3

MCSymmetry == Permutations({i1, i2}) \cup Permutations({k1, k2, k3})

=============================================================================
