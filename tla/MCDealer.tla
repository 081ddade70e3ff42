------------------------------ MODULE MCDealer ------------------------------
(***************************************************************************)
(* Two runs, of two replicas, and three players who come and go around one *)
(* hand.  The two who are not there yet come to one replica each.          *)
(***************************************************************************)
EXTENDS Dealer

CONSTANTS d1, d2

TwoReplicas == [p \in Players |-> IF p = 1 THEN {d1, d2} ELSE IF p = 2 THEN {d1} ELSE {d2}]
============================================================================
