---------------------------- MODULE MCManagedShells --------------------------
(* A finite instance of ManagedShells: two attempts, two jobs, and commands   *)
(* that compete for the heavy slot or fit beside each other.                  *)
EXTENDS ManagedShells, TLC

CONSTANTS j1, j2, main, lane, gdb, cat, xxd

HeavyCost == [memory |-> 3, pids |-> 3, heavy |-> 1]
LightCost == [memory |-> 1, pids |-> 1, heavy |-> 0]

MCCost == {HeavyCost, LightCost}
\* Without xxd, when only two commands are needed.
TwoCostOf == (gdb :> HeavyCost) @@ (cat :> LightCost)

MCCostOf == (gdb :> HeavyCost) @@ (cat :> LightCost) @@ (xxd :> LightCost)

MCSymmetry == Permutations({j1, j2}) \cup Permutations({main, lane})

=============================================================================
