------------------------- MODULE MCArenaCoordinator --------------------------
(* A finite instance of ArenaCoordinator: two static challenges, one of them  *)
(* proven and popular, and a dynamic one, in a run of a few passes.           *)
EXTENDS ArenaCoordinator, TLC

CONSTANTS web, pwn, vm

MCCrowd == (web :> 3) @@ (pwn :> 0) @@ (vm :> 1)
MCOpenings == {{pwn}, {web, pwn, vm}}

=============================================================================
