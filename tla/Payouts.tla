------------------------------ MODULE Payouts -------------------------------
(***************************************************************************)
(* A hand that is over is settled (Pots): what its players put in, who     *)
(* folded and how the hands of the others rank decide what each is paid.   *)
(***************************************************************************)
EXTENDS Pots

CONSTANTS
    Players,             \* the seats dealt in
    MaxContribution,     \* bound on what a player puts in
    Ranks,               \* the values of evaluated hands
    Button,
    Rakes                \* the rake rules, [bps, cap]

ASSUME PayoutsAssumption ==
    /\ Players \subseteq 0..8
    /\ MaxContribution \in Nat
    /\ Ranks \subseteq Int
    /\ Button \in Int
    /\ Rakes \subseteq [bps : 0..10000, cap : Nat]

VARIABLES settling, outcome
payoutVars == <<settling, outcome>>

Unsettled == [done |-> FALSE]

\* The hands finishHand settles: a single live player takes the pots unseen,
\* with or without a flop; a showdown ranks its live players on each board.
Hands ==
    {h \in [contributed : [Players -> 0..MaxContribution],
            folded : [Players -> BOOLEAN],
            flopDealt : BOOLEAN,
            rake : Rakes,
            boards : 1..2] :
        /\ \E p, q \in Players : p # q /\ h.contributed[p] > 0 /\ h.contributed[q] > 0
        /\ \E p \in Players : ~h.folded[p]
        /\ Buildable(h.contributed, h.folded)
        /\ IF \E w \in Players : \A p \in Players : h.folded[p] <=> p # w
           THEN h.boards = 1 ELSE h.flopDealt}

RankingsOf(h) == [1..h.boards -> [Players -> Ranks]]

PayoutInit ==
    /\ outcome = Unsettled
    /\ \E h \in Hands : settling \in {[table |-> h, ranks |-> r] : r \in RankingsOf(h)}

SettleHand ==
    /\ outcome = Unsettled
    /\ LET h == settling.table
           s == Settle(h.contributed, h.folded, settling.ranks, Button, h.rake, h.flopDealt)
       IN  outcome' = [done |-> TRUE, payouts |-> s.payouts, rake |-> s.rake]
    /\ UNCHANGED settling

PayoutSpec == PayoutInit /\ [][SettleHand]_payoutVars

----------------------------------------------------------------------------
(* Properties of a settled hand *)

In(p) == settling.table.contributed[p]
Out(p) == settling.table.folded[p]
Paid(p) == outcome.payouts[p]

\* What p can win at most: its own chips and as many from every other player.
Covered(p) == SumFunction([q \in Players |-> Min({In(p), In(q)})])

OthersTop(p) == Max({In(q) : q \in Players \ {p}})
Unmatched(p) == Max({0, In(p) - OthersTop(p)})

\* Every chip that went in comes out, as a payout or as rake: the conservation
\* checks of pots.js and showdown.js, which would throw and leave the hand
\* unfinished, never fire.  The rake stays under its cap and its percentage of what
\* was contested, leaves unmatched bets alone, and needs a flop.
SettlementConserves ==
    outcome.done =>
        LET h == settling.table
            contested == Total(h.contributed) - SumFunction([q \in Players |-> Unmatched(q)])
        IN  /\ Total(outcome.payouts) + outcome.rake = Total(h.contributed)
            /\ outcome.rake <= h.rake.cap
            /\ outcome.rake * 10000 <= contested * h.rake.bps
            /\ ~h.flopDealt => outcome.rake = 0

\* A player wins no more from anybody than it put at risk itself, and one
\* that folded gets back exactly the part of its bet nobody matched.
NobodyWinsMoreThanCovered ==
    outcome.done => \A p \in Players :
        /\ Paid(p) <= Covered(p)
        /\ Out(p) => Paid(p) = Unmatched(p)

\* The one best hand (on every board) takes everything it covers, through all
\* the side pots, but for the rake.
BestHandCollects ==
    outcome.done => \A p \in Players :
        (~Out(p) /\ \A b \in DOMAIN settling.ranks, q \in Players \ {p} :
                        ~Out(q) => settling.ranks[b][p] > settling.ranks[b][q])
            => Paid(p) \in (Covered(p) - outcome.rake)..Covered(p)

\* Two players who put in the same and tie on every board are paid the same up
\* to one odd chip a pot and board, which goes to the first from the button.
OddChipsClockwise ==
    outcome.done => \A p, q \in Players :
        (/\ ~Out(p) /\ ~Out(q) /\ In(p) = In(q)
         /\ \A b \in DOMAIN settling.ranks : settling.ranks[b][p] = settling.ranks[b][q]
         /\ Clockwise(Button, p) < Clockwise(Button, q))
            => Paid(p) - Paid(q) \in 0..(Cardinality(PotLevels(settling.table.contributed))
                                           * Len(settling.ranks))
============================================================================
