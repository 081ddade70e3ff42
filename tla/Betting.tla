------------------------------ MODULE Betting ------------------------------
(***************************************************************************)
(* One hand of no-limit hold'em or pot-limit Omaha as played by the rules  *)
(* engine of server/poker/betting.js: forced bets, the actions of the      *)
(* seat whose turn it is, timeouts, the deal of each street and the        *)
(* run-out of the board when nobody can bet any more.                      *)
(*                                                                         *)
(* A player is identified with its seat (the code requires both to be      *)
(* unique).  Cards are not modelled: the engine only counts them, and so   *)
(* does boardSize.  The version counter of the code, the optimistic lock   *)
(* of the table, is not part of a hand's rules and is left out.            *)
(***************************************************************************)
EXTENDS Integers, Functions

CONSTANTS
    Tables,       \* the sets of seats that may be dealt in, numbers from 0 to 8
    Stacks,       \* the stacks a player may bring to the hand
    SmallBlind,
    BigBlind,
    Antes,        \* the antes a table may ask for, 0 for none
    Straddles,    \* the live straddles, 0 for none
    Games         \* a subset of {"NLH", "PLO4"}

ASSUME SeatsAssumption ==
    \A S \in Tables : S \subseteq 0..8 /\ \E p, q \in S : p # q
ASSUME ChipsAssumption ==
    /\ Stacks \subseteq Nat \ {0}
    /\ SmallBlind \in Nat \ {0}
    /\ BigBlind \in Nat /\ BigBlind >= SmallBlind
    /\ Antes \subseteq Nat
    /\ Straddles \subseteq {0} \cup {s \in Nat : s >= 2 * BigBlind}
ASSUME GamesAssumption == Games \subseteq {"NLH", "PLO4"}

NoSeat == -1      \* the code's null action seat and null winner

VARIABLES
    game,
    button,
    phase,               \* the street being played
    status,
    currentBet,          \* what a player must have put in on this street
    lastFullRaiseSize,
    acted,               \* actedSinceFullRaise
    actionSeat,
    boardSize,           \* number of board cards
    winner,
    stack,               \* chips behind, by seat
    streetContribution,  \* chips put in on this street
    contributed,         \* chips put in over the hand
    folded,
    bought               \* the stack each seat dealt in started with, never changed

money == <<stack, streetContribution, contributed>>
vars == <<game, button, phase, status, currentBet, lastFullRaiseSize, acted,
          actionSeat, boardSize, winner, money, folded, bought>>

Streets == {"PREFLOP", "FLOP", "TURN", "RIVER"}
Statuses == {"BETTING", "AWAITING_DEAL", "AWAITING_RUNOUT", "SHOWDOWN", "COMPLETE"}
HandOver == status \in {"SHOWDOWN", "COMPLETE"}

NextStreet(street) ==
    CASE street = "PREFLOP" -> "FLOP"
      [] street = "FLOP" -> "TURN"
      [] OTHER -> "RIVER"

----------------------------------------------------------------------------
(* Seats *)

Seats == DOMAIN bought

Lowest(S) == CHOOSE s \in S : \A t \in S : s <= t

\* The first seat of S clockwise after `after`, which comes last itself.
NextSeat(after, S) ==
    LET higher == {s \in S : s > after}
    IN  IF S = {} THEN NoSeat
        ELSE IF higher # {} THEN Lowest(higher) ELSE Lowest(S)

Least(a, b) == IF a < b THEN a ELSE b

Live == {p \in Seats : ~folded[p]}
CanAct == {p \in Live : stack[p] # 0}
Pending == {p \in CanAct : streetContribution[p] < currentBet \/ p \notin acted}
RoundComplete ==
    \A p \in CanAct : streetContribution[p] = currentBet /\ p \in acted
OneLeftMatched ==
    \E p \in CanAct : CanAct = {p} /\ streetContribution[p] = currentBet

----------------------------------------------------------------------------
(* What a player may do *)

Pot == SumFunction(contributed)

ToCall(p) ==
    IF currentBet > streetContribution[p]
    THEN currentBet - streetContribution[p] ELSE 0
CallAmount(p) == Least(ToCall(p), stack[p])
AllInTarget(p) == streetContribution[p] + stack[p]

\* The largest total a player may bet to: the whole stack in no-limit, the
\* pot after calling in pot-limit.
\* mutant: the pot-limit cap forgets the chips of the call
MaximumTargetBeforeCall(p) ==
    IF game = "NLH" THEN AllInTarget(p)
    ELSE Least(streetContribution[p] + Pot, AllInTarget(p))
MaximumTarget(p) ==
    IF game = "NLH" THEN AllInTarget(p)
    ELSE Least(streetContribution[p] + 2 * CallAmount(p) + Pot, AllInTarget(p))

MinimumTarget(p) ==
    IF currentBet = 0 THEN BigBlind ELSE currentBet + lastFullRaiseSize

CanIncrease(p) ==
    /\ AllInTarget(p) > currentBet
    /\ MaximumTarget(p) > currentBet
    /\ p \notin acted

LegalTarget(p, to) ==
    /\ to > currentBet
    /\ to <= MaximumTarget(p)
    /\ p \notin acted
    /\ to >= MinimumTarget(p) \/ to = AllInTarget(p)

\* mutant: any raise reopens the betting
FullRaiseAlways(to) == to > currentBet
FullRaise(to) ==
    IF currentBet = 0 THEN to >= BigBlind ELSE to - currentBet >= lastFullRaiseSize

----------------------------------------------------------------------------
(* The end of a step: finishOrAdvance *)

\* mutant: the board is not run out when one player is left against all-ins
RoundStatusNoRunout ==
    IF \E w \in Seats : Live = {w} THEN "COMPLETE"
    ELSE IF CanAct = {} \/ OneLeftMatched THEN "SHOWDOWN"
    ELSE IF RoundComplete
         THEN IF phase = "RIVER" THEN "SHOWDOWN" ELSE "AWAITING_DEAL"
    ELSE "BETTING"
RoundStatus ==
    IF \E w \in Seats : Live = {w} THEN "COMPLETE"
    ELSE IF CanAct = {} THEN "AWAITING_RUNOUT"
    ELSE IF OneLeftMatched
         THEN IF phase = "RIVER" THEN "SHOWDOWN" ELSE "AWAITING_RUNOUT"
    ELSE IF RoundComplete
         THEN IF phase = "RIVER" THEN "SHOWDOWN" ELSE "AWAITING_DEAL"
    ELSE "BETTING"

FinishOrAdvance(actor) ==
    /\ status' = RoundStatus'
    /\ actionSeat' = IF status' = "BETTING" THEN NextSeat(actor, Pending') ELSE NoSeat
    /\ winner' = IF status' = "COMPLETE" THEN CHOOSE w \in Seats : Live' = {w} ELSE winner

\* mutant: a payment is not added to what the player put in over the hand
PayToStreetOnly(p, target) ==
    /\ target - streetContribution[p] \in 0..stack[p]
    /\ stack' = [stack EXCEPT ![p] = @ - (target - streetContribution[p])]
    /\ streetContribution' = [streetContribution EXCEPT ![p] = target]
    /\ UNCHANGED contributed
PayTo(p, target) ==
    LET amount == target - streetContribution[p]
    IN  /\ amount \in 0..stack[p]
        /\ stack' = [stack EXCEPT ![p] = @ - amount]
        /\ streetContribution' = [streetContribution EXCEPT ![p] = target]
        /\ contributed' = [contributed EXCEPT ![p] = @ + amount]

Increase(p, to) ==
    /\ LegalTarget(p, to)
    /\ PayTo(p, to)
    /\ currentBet' = to
    /\ IF FullRaise(to)
       THEN /\ lastFullRaiseSize' = to - currentBet
            /\ acted' = {p}
       ELSE /\ acted' = acted \cup {p}
            /\ UNCHANGED lastFullRaiseSize

InTurn(p) == status = "BETTING" /\ actionSeat = p
SameStreet == UNCHANGED <<game, button, phase, boardSize, bought>>
SameBet == UNCHANGED <<currentBet, lastFullRaiseSize>>

----------------------------------------------------------------------------
(* The actions of a player, and of the clock *)

FoldHand(p) ==
    /\ folded' = [folded EXCEPT ![p] = TRUE]
    /\ acted' = acted \cup {p}
    /\ UNCHANGED money
    /\ SameBet /\ SameStreet
    /\ FinishOrAdvance(p)

CheckHand(p) ==
    /\ acted' = acted \cup {p}
    /\ UNCHANGED <<money, folded>>
    /\ SameBet /\ SameStreet
    /\ FinishOrAdvance(p)

Fold(p) == InTurn(p) /\ ToCall(p) > 0 /\ FoldHand(p)

Check(p) == InTurn(p) /\ ToCall(p) = 0 /\ CheckHand(p)

\* mutant: the clock only ever folds, which is refused when checking is free
TimeoutFolds(p) == InTurn(p) /\ ToCall(p) > 0 /\ FoldHand(p)
\* applyTimeout: check when it is free, fold otherwise.
Timeout(p) ==
    /\ InTurn(p)
    /\ IF ToCall(p) = 0 THEN CheckHand(p) ELSE FoldHand(p)

Call(p) ==
    /\ InTurn(p)
    /\ ToCall(p) > 0
    /\ PayTo(p, streetContribution[p] + CallAmount(p))
    /\ acted' = acted \cup {p}
    /\ UNCHANGED folded
    /\ SameBet /\ SameStreet
    /\ FinishOrAdvance(p)

\* A bet opens the street, a raise follows an earlier bet.
Bet(p, to) ==
    /\ InTurn(p)
    /\ currentBet = 0 /\ CanIncrease(p)
    /\ Increase(p, to)
    /\ UNCHANGED folded
    /\ SameStreet
    /\ FinishOrAdvance(p)

Raise(p, to) ==
    /\ InTurn(p)
    /\ currentBet # 0 /\ CanIncrease(p)
    /\ Increase(p, to)
    /\ UNCHANGED folded
    /\ SameStreet
    /\ FinishOrAdvance(p)

AllIn(p) ==
    /\ InTurn(p)
    /\ IF AllInTarget(p) <= currentBet
       THEN /\ PayTo(p, AllInTarget(p))
            /\ acted' = acted \cup {p}
            /\ SameBet
       ELSE Increase(p, AllInTarget(p))
    /\ UNCHANGED folded
    /\ SameStreet
    /\ FinishOrAdvance(p)

----------------------------------------------------------------------------
(* The deal *)

DealStreet ==
    /\ status = "AWAITING_DEAL"
    /\ phase' = NextStreet(phase)
    /\ boardSize' = boardSize + (IF phase = "PREFLOP" THEN 3 ELSE 1)
    /\ currentBet' = 0
    /\ lastFullRaiseSize' = BigBlind
    /\ acted' = {}
    /\ streetContribution' = [p \in Seats |-> 0]
    /\ actionSeat' = NextSeat(button, CanAct)
    /\ status' = IF CanAct # {} THEN "BETTING"
                 ELSE IF phase' = "RIVER" THEN "SHOWDOWN" ELSE "AWAITING_RUNOUT"
    /\ UNCHANGED <<game, button, winner, stack, contributed, folded, bought>>

DealRemainingBoard ==
    /\ status = "AWAITING_RUNOUT"
    /\ boardSize' = 5
    /\ phase' = "RIVER"
    /\ status' = "SHOWDOWN"
    /\ actionSeat' = NoSeat
    /\ UNCHANGED <<game, button, currentBet, lastFullRaiseSize, acted, winner,
                   money, folded, bought>>

----------------------------------------------------------------------------
(* The start of a hand: createBettingState *)

HeadsUp == \E p, q \in Seats : Seats = {p, q}
SmallBlindSeat(b) == IF HeadsUp THEN b ELSE NextSeat(b, Seats)
BigBlindSeat(b) == NextSeat(SmallBlindSeat(b), Seats)
StraddleSeat(b) == NextSeat(BigBlindSeat(b), Seats)

\* mutant: the ante is charged twice
AntePaidTwice(chips, ante) == Least(chips, 2 * ante)
AntePaid(chips, ante) == Least(chips, ante)

\* What each seat posts after the ante; a short stack posts what it has.
Posted(b, behind, straddle) ==
    [p \in Seats |->
        CASE p = BigBlindSeat(b) -> Least(behind[p], BigBlind)
          [] p = SmallBlindSeat(b) /\ p # BigBlindSeat(b) -> Least(behind[p], SmallBlind)
          [] p = StraddleSeat(b) /\ ~HeadsUp -> straddle
          [] OTHER -> 0]

\* mutant: a player who is all-in on its blind may be asked to act
FirstActorLive ==
    LET last == IF currentBet > BigBlind THEN StraddleSeat(button) ELSE BigBlindSeat(button)
    IN  IF HeadsUp THEN SmallBlindSeat(button) ELSE NextSeat(last, Live)
FirstActor ==
    LET sb == SmallBlindSeat(button)
        bb == BigBlindSeat(button)
        last == IF currentBet > BigBlind THEN StraddleSeat(button) ELSE bb
    IN  IF HeadsUp /\ sb \in CanAct THEN sb ELSE NextSeat(last, CanAct)

Init ==
    /\ game \in Games
    /\ \E S \in Tables : bought \in [S -> Stacks]
    /\ button \in Seats
    /\ \E ante \in Antes, straddle \in Straddles :
        LET paid == [p \in Seats |-> AntePaid(bought[p], ante)]
            behind == [p \in Seats |-> bought[p] - paid[p]]
        IN  /\ straddle > 0 =>
                 ~HeadsUp /\ behind[StraddleSeat(button)] >= straddle
            /\ streetContribution = Posted(button, behind, straddle)
            /\ stack = [p \in Seats |-> behind[p] - streetContribution[p]]
            /\ contributed = [p \in Seats |-> paid[p] + streetContribution[p]]
            /\ currentBet = IF straddle > 0 THEN straddle ELSE BigBlind
            /\ lastFullRaiseSize = IF straddle > 0 THEN straddle - BigBlind ELSE BigBlind
    /\ phase = "PREFLOP"
    /\ boardSize = 0
    /\ acted = {}
    /\ folded = [p \in Seats |-> FALSE]
    /\ winner = NoSeat
    /\ actionSeat = FirstActor
    /\ status = IF actionSeat = NoSeat THEN RoundStatus ELSE "BETTING"

Play(p) ==
    \/ Fold(p) \/ Check(p) \/ Call(p) \/ AllIn(p)
    \/ \E to \in 1..AllInTarget(p) : Bet(p, to) \/ Raise(p, to)

Next ==
    \/ \E p \in Seats : Play(p) \/ Timeout(p)
    \/ DealStreet
    \/ DealRemainingBoard

Spec == Init /\ [][Next]_vars

\* The clock runs out on every turn that is not taken, and the dealer deals
\* whenever the hand waits for cards.
Fairness ==
    /\ WF_vars(\E p \in Seats : Timeout(p))
    /\ WF_vars(DealStreet)
    /\ WF_vars(DealRemainingBoard)
FairSpec == Spec /\ Fairness

----------------------------------------------------------------------------
(* Properties *)

TypeOK ==
    /\ game \in Games
    /\ button \in Seats
    /\ phase \in Streets
    /\ status \in Statuses
    /\ currentBet \in Nat
    /\ lastFullRaiseSize \in Nat
    /\ acted \subseteq Seats
    /\ actionSeat \in Seats \cup {NoSeat}
    /\ boardSize \in Nat
    /\ winner \in Seats \cup {NoSeat}
    /\ stack \in [Seats -> Nat]
    /\ streetContribution \in [Seats -> Nat]
    /\ contributed \in [Seats -> Nat]
    /\ folded \in [Seats -> BOOLEAN]
    /\ \E S \in Tables : bought \in [S -> Stacks]

\* No chip is made or lost while a hand is played: what a seat has behind and
\* what it put in is what it brought, and nobody is in for more than the bet.
ChipsConserved ==
    \A p \in Seats :
        /\ stack[p] + contributed[p] = bought[p]
        /\ streetContribution[p] <= contributed[p]
        /\ streetContribution[p] <= currentBet

\* The assertion "Betting round has no valid next actor" never fires, and the
\* turn is never given to a seat that is folded, all-in or already done: a
\* hand that is waiting for a player waits for one who has something to decide.
NextActorExists == status = "BETTING" => actionSeat \in Pending

\* A street ends for every player alike: each one who can still bet is in for as
\* much as anybody left in the hand, so that the pots can be cut; a showdown has a
\* complete board and at least two players, and cards are never waited for with a
\* complete board while somebody can still bet.
StreetsEndRight ==
    /\ status \in {"AWAITING_DEAL", "AWAITING_RUNOUT", "SHOWDOWN"} =>
          \A p \in CanAct, q \in Live : contributed[p] >= contributed[q]
    /\ status = "SHOWDOWN" => boardSize = 5 /\ \A w \in Seats : Live # {w}
    /\ status = "AWAITING_DEAL" => boardSize < 5 /\ \E p, q \in CanAct : p # q

\* The player who is told that it may bet or raise has an amount it may bet or
\* raise to: the cap of pot-limit never falls under the minimum raise.
IncreaseIsPossible ==
    \A p \in Seats :
        InTurn(p) /\ CanIncrease(p) =>
            \E to \in 1..AllInTarget(p) : LegalTarget(p, to)

\* Within a street the right to raise comes back to a player who has acted only
\* with a raise at least as large as the last full one: a short all-in leaves it
\* a call or a fold.
ShortAllInDoesNotReopen ==
    [][phase' = phase =>
        /\ ~(acted \subseteq acted') => currentBet' >= currentBet + lastFullRaiseSize
        /\ actionSeat \in acted => currentBet' = currentBet]_vars

\* Whatever the players do, the clock and the dealer bring the hand to its end.
HandEnds == <>HandOver
============================================================================
