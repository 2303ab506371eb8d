----------------------------- MODULE MCModelCalls ----------------------------
(* A finite instance of ModelCalls: two lanes, three calls, prices of one to  *)
(* three units.                                                               *)
EXTENDS ModelCalls, TLC

CONSTANTS cheap, hard, failover, k1, k2, k3, main, side

MCListPrice == (cheap :> 1) @@ (hard :> 2) @@ (failover :> 1)
MCMaxPrice  == (cheap :> 2) @@ (hard :> 3) @@ (failover :> 2)

MCSymmetry == Permutations({k1, k2, k3}) \cup Permutations({main, side})

=============================================================================
