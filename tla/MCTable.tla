------------------------------ MODULE MCTable ------------------------------
(***************************************************************************)
(* Two hands at a table of three seats, no-limit then pot-limit.           *)
(***************************************************************************)
EXTENDS Table

MCRake == [bps |-> 3000, cap |-> 1]
============================================================================
