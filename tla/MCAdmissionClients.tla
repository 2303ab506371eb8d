-------------------------- MODULE MCAdmissionClients -------------------------
(* A finite instance of AdmissionClients: four threads, two slots of which    *)
(* one heavy, costs that collide in every dimension, one no pool can fit.     *)
EXTENDS AdmissionClients

CONSTANTS c1, c2, c3, c4

MCCost == {[memory |-> 1, pids |-> 1, heavy |-> 1],
           [memory |-> 1, pids |-> 2, heavy |-> 0],
           [memory |-> 2, pids |-> 1, heavy |-> 0],
           [memory |-> 4, pids |-> 1, heavy |-> 0]}

=============================================================================
