----------------------------- MODULE MCCustody -----------------------------
(***************************************************************************)
(* One wallet, which is an operator too; two deposits, two withdrawals and *)
(* two callers.                                                            *)
(***************************************************************************)
EXTENDS Custody

CONSTANTS w1, o1, o2

MCKinds == {"geolocation"}
MCMaxAge == [kind \in MCKinds |-> 1]
MCControls == [w \in {w1} |-> [selfExcludedUntil |-> 0, depositLimit |-> 2]]
MCReports == {[kind |-> "geolocation", status |-> "pass", flags |-> {}]}
MCSymmetry ==
    Permutations(Intents) \cup Permutations(Requests) \cup Permutations(Signatures)
    \cup Permutations(Callers) \cup Permutations({o1, o2})
============================================================================
