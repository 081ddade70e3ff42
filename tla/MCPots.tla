------------------------------- MODULE MCPots -------------------------------
(***************************************************************************)
(* Settles every hand of a small instance: all contributions, folds and    *)
(* rankings of three players, on one or two boards, with and without rake. *)
(***************************************************************************)
EXTENDS Payouts

MCRakes == {[bps |-> 0, cap |-> 0], [bps |-> 3000, cap |-> 2]}
============================================================================
