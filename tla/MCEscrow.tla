------------------------------ MODULE MCEscrow ------------------------------
(***************************************************************************)
(* Two players, two authorities, short delays; the roots include some that *)
(* pay more or less than was deposited.                                    *)
(***************************************************************************)
EXTENDS Escrow, TLC

MCRoots == [Players -> 0..3] \ {[p \in Players |-> 0]}
Symmetry == Permutations(Players)
============================================================================
