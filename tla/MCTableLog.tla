----------------------------- MODULE MCTableLog -----------------------------
(***************************************************************************)
(* Instances of the table log: handlers of replicas with one common clock, *)
(* and handlers of two replicas whose clocks differ by a tick.             *)
(***************************************************************************)
EXTENDS TableLog, TLC

CONSTANT h1   \* a handler of the replica whose clock is ahead

OneClock == [h \in Handlers |-> 0]
TwoClocks == [h \in Handlers |-> IF h = h1 THEN 1 ELSE 0]
Symmetry == Permutations(Handlers) \cup Permutations(Keys)
============================================================================
