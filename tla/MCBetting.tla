------------------------------ MODULE MCBetting ------------------------------
(***************************************************************************)
(* Three seats with short, medium and deep stacks, so that blinds are      *)
(* posted short, all-ins are called short and side pots appear.            *)
(***************************************************************************)
EXTENDS Betting

P == INSTANCE Pots

\* A finished hand can be settled: no pot is left to players who all folded.
\* buildPots would throw "A pot has no eligible player" on every attempt to
\* finish the hand, and the table would stay in it for ever.
HandSettles == HandOver => P!Buildable(contributed, folded)
============================================================================
