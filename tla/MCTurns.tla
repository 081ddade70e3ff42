------------------------------ MODULE MCTurns ------------------------------
(***************************************************************************)
(* Two hands of two players, timed out by the workers of two replicas.     *)
(***************************************************************************)
EXTENDS Turns
============================================================================
