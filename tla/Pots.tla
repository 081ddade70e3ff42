-------------------------------- MODULE Pots --------------------------------
(***************************************************************************)
(* The settlement arithmetic of a hand: server/poker/pots.js (side pots,   *)
(* refunds, rake, splits, odd chips) and the part of showdown.js that      *)
(* calls it.  Everything is an operator on                                  *)
(*   c   what each player contributed over the hand, a function,           *)
(*   f   who folded, a function on the same players;                       *)
(* players are identified with their seats.  A hand is ranked by a number, *)
(* the evaluation of cards being a function the code calls (evaluator.js). *)
(***************************************************************************)
EXTENDS Integers, Sequences, FiniteSets, FiniteSetsExt, Functions

Total(c) == SumFunction(c)

----------------------------------------------------------------------------
(* buildPots *)

Levels(c) == {c[p] : p \in DOMAIN c} \ {0}
\* mutant: the previous level is not carried from one pot to the next
LevelBelowForgotten(c, l) == 0
LevelBelow(c, l) == Max({m \in Levels(c) : m < l} \cup {0})
Participants(c, l) == {p \in DOMAIN c : c[p] >= l}
PotLevels(c) == {l \in Levels(c) : Cardinality(Participants(c, l)) > 1}

\* The code throws "A pot has no eligible player" when this is false.
Buildable(c, f) == \A l \in PotLevels(c) : \E p \in Participants(c, l) : ~f[p]

\* What each participant pays into the pot of its level.
Step(c, l) == l - LevelBelow(c, l)

\* The pots, a pot being known by its level: the lowest is the main pot.
BuildPots(c, f) ==
    [l \in PotLevels(c) |->
        [amount |-> Step(c, l) * Cardinality(Participants(c, l)),
         eligible |-> {p \in Participants(c, l) : ~f[p]}]]

\* What nobody matched goes back.
Refunds(c) ==
    [p \in DOMAIN c |->
        SumFunction([l \in {m \in Levels(c) : Participants(c, m) = {p}} |-> Step(c, l)])]

----------------------------------------------------------------------------
(* applyRake: taken from the main pot first *)

Amounts(pots) == [l \in DOMAIN pots |-> pots[l].amount]
Gross(pots) == SumFunction(Amounts(pots))

RakeTarget(pots, rake, flopDealt) ==
    IF flopDealt THEN Min({(Gross(pots) * rake.bps) \div 10000, rake.cap}) ELSE 0

\* The rake of each pot: what the pots below it could not pay, as far as it goes.
Cuts(pots, target) ==
    LET Remaining(l) ==
            Max({0, target - SumFunctionOnSet(Amounts(pots), {m \in DOMAIN pots : m < l})})
    IN  [l \in DOMAIN pots |-> Min({Remaining(l), pots[l].amount})]

\* The pots after rake, and the rake taken.
ApplyRake(pots, rake, flopDealt) ==
    LET cuts == Cuts(pots, RakeTarget(pots, rake, flopDealt))
    IN  [pots |-> [l \in DOMAIN pots |-> [pots[l] EXCEPT !.amount = @ - cuts[l]]],
         total |-> SumFunction(cuts)]

----------------------------------------------------------------------------
(* settlePots *)

\* oddChipOrder: clockwise from the button, seats being 0 to 8.
Clockwise(button, p) == IF p > button THEN p ELSE p + 9

\* mutant: the comparison of two evaluations is reversed
WinnersReversed(pot, rank) ==
    {p \in pot.eligible : \A q \in pot.eligible : rank[p] <= rank[q]}
Winners(pot, rank) ==
    IF Cardinality(pot.eligible) = 1 THEN pot.eligible
    ELSE {p \in pot.eligible : \A q \in pot.eligible : rank[p] >= rank[q]}

\* What the b-th of n boards shares out of a pot.
BoardAmount(pot, b, n) == pot.amount \div n + (IF b <= pot.amount % n THEN 1 ELSE 0)

\* mutant: every winner's share is rounded up
ShareRoundedUp(p, amount, winners, button) ==
    IF p \notin winners THEN 0
    ELSE (amount + Cardinality(winners) - 1) \div Cardinality(winners)
\* mutant: odd chips follow the seat numbers, wherever the button is
ShareFromSeatZero(p, amount, winners, button) ==
    LET n == Cardinality(winners)
        ahead == {w \in winners : w < p}
    IN  IF p \notin winners THEN 0
        ELSE amount \div n + (IF Cardinality(ahead) < amount % n THEN 1 ELSE 0)
\* What a pot on one board pays to p.
Share(p, amount, winners, button) ==
    LET n == Cardinality(winners)
        ahead == {w \in winners : Clockwise(button, w) < Clockwise(button, p)}
    IN  IF p \notin winners THEN 0
        ELSE amount \div n + (IF Cardinality(ahead) < amount % n THEN 1 ELSE 0)

SettlePots(players, pots, ranks, button) ==
    LET Award(p, l, b) ==
            Share(p, BoardAmount(pots[l], b, Len(ranks)), Winners(pots[l], ranks[b]), button)
    IN  [p \in players |->
            SumFunction([l \in DOMAIN pots |->
                SumFunction([b \in DOMAIN ranks |-> Award(p, l, b)])])]

----------------------------------------------------------------------------
(* settleShowdown and settleUncontested, through finalize *)

Settle(c, f, ranks, button, rake, flopDealt) ==
    LET raked == ApplyRake(BuildPots(c, f), rake, flopDealt)
        awards == SettlePots(DOMAIN c, raked.pots, ranks, button)
    IN  [payouts |-> [p \in DOMAIN c |-> awards[p] + Refunds(c)[p]],
         rake |-> raked.total]
============================================================================
