--------------------------- MODULE MCObservation ---------------------------
(* Model-checking instances of Observation: a switch position believed at   *)
(* once beside a measurement that has to hold.                              *)
EXTENDS Observation, TLC

CONSTANTS wan, internet, temperature

Shipped == (wan :> 1) @@ (internet :> 2) @@ (temperature :> 3)
MCSamples == [k \in Keys |-> Shipped[k]]
=============================================================================
