------------------------------- MODULE MCJmapSync -------------------------------
(* The instance of JmapSync in which a message is missed. *)
EXTENDS JmapSync, TLC

CONSTANTS w1, w2

(* Two deliveries, nothing else.                                           *)
Delivering == {w1 :> {"deliver"} @@ w2 :> {"deliver"}}

Symmetry == Permutations(Ids)
=============================================================================
