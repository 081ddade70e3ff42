------------------------------ MODULE FairDeal ------------------------------
(***************************************************************************)
(* Which deck position a card of a hand comes from: the deal map of        *)
(* fairness/protocol.js.  A deck is modelled by what it is derived from.   *)
(***************************************************************************)
EXTENDS Integers, Sequences

\* The order in which the active seats, numbered from 0, receive cards.
ActiveSeatOrder(seats, buttonSeat) ==
    LET first == IF seats = 2 THEN buttonSeat ELSE (buttonSeat + 1) % seats
    IN  [i \in 1..seats |-> (first + i - 1) % seats]

\* A board burns a card before each street.
RunoutPlan(startPosition, board) ==
    LET start == startPosition + 8 * (board - 1)
    IN  [flop |-> [i \in 1..3 |-> start + i], turn |-> <<start + 5>>, river |-> <<start + 7>>]

HoleCount(game) == IF game = "NLH" THEN 2 ELSE 4

\* mutant: the board starts a round early
DealPlanEarly(rules) ==
    LET order == ActiveSeatOrder(rules.seats, rules.buttonSeat)
        rounds == HoleCount(rules.game)
        place(seat) == CHOOSE i \in 1..rules.seats : order[i] = seat
    IN  [holeCards |-> [seat \in 0..(rules.seats - 1) |->
                           [r \in 1..rounds |-> (r - 1) * rules.seats + place(seat) - 1]],
         boards |-> [b \in 1..rules.boards |-> RunoutPlan((rounds - 1) * rules.seats, b)]]
DealPlan(rules) ==
    LET order == ActiveSeatOrder(rules.seats, rules.buttonSeat)
        rounds == HoleCount(rules.game)
        place(seat) == CHOOSE i \in 1..rules.seats : order[i] = seat
    IN  [holeCards |-> [seat \in 0..(rules.seats - 1) |->
                           [r \in 1..rounds |-> (r - 1) * rules.seats + place(seat) - 1]],
         boards |-> [b \in 1..rules.boards |-> RunoutPlan(rounds * rules.seats, b)]]

\* The positions of a board, in the order in which they may be revealed.
BoardPositions(rules) ==
    LET board == DealPlan(rules).boards[1] IN board.flop \o board.turn \o board.river

\* The deck that the seeds, the rules and the beacon of a hand derive.
CommittedHand(rules, seeds, beacon) == [rules |-> rules, seeds |-> seeds, beacon |-> beacon]

\* createAuditBundle: the record of the deck, and the seeds.
AuditBundle(deck) ==
    [rules |-> deck.rules, commitments |-> deck.seeds, beacon |-> deck.beacon, deckRoot |-> deck,
     seeds |-> deck.seeds]

\* verifyAuditBundle: the seeds are those committed to, and derive the deck.
Verified(bundle) ==
    /\ bundle.seeds = bundle.commitments
    /\ CommittedHand(bundle.rules, bundle.seeds, bundle.beacon) = bundle.deckRoot
============================================================================
