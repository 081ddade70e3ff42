-------------------------------- MODULE Table --------------------------------
(***************************************************************************)
(* The life of a table, hand after hand: the commands of                   *)
(* server/table-coordinator.js that seat players, let them sit out, return *)
(* and leave, start a hand, play it with the betting engine (Betting) and  *)
(* finish it with the settlement (Pots); each is one event of the log and  *)
(* its reduction by reduceTable, and is atomic because TableLog is.        *)
(*                                                                         *)
(* A player is identified with the seat it takes.  The versions, keys and  *)
(* hashes of a command belong to TableLog, clocks and time banks to the    *)
(* turn, and the proofs of the cards to the dealer.                        *)
(***************************************************************************)
EXTENDS Pots

CONSTANTS
    SeatNumbers,
    BuyIns,              \* the stacks a player may sit down with
    SmallBlind, BigBlind, Ante,
    Rake,                \* [bps, cap]
    Game,                \* "NLH", "PLO4" or "ROE", which alternates them
    RoeHandsPerGame,
    MaxHands,            \* bound on the hands
    MaxSeated,           \* bound on the number of times somebody sits down
    MaxRequests          \* bound on the requests to sit out, return and leave

ASSUME RulesAssumption ==
    /\ SeatNumbers \subseteq 0..8
    /\ BuyIns \subseteq Nat \ {0}
    /\ SmallBlind \in Nat \ {0}
    /\ BigBlind \in Nat /\ BigBlind >= SmallBlind
    /\ Ante \in Nat
    /\ Rake \in [bps : 0..10000, cap : Nat]
    /\ Game \in {"NLH", "PLO4", "ROE"}
    /\ RoeHandsPerGame \in 1..20
ASSUME BoundsAssumption ==
    /\ MaxHands \in Nat /\ MaxSeated \in Nat /\ MaxRequests \in Nat

VARIABLES
    tableStatus,     \* WAITING or HAND_ACTIVE
    seats,           \* the seated players
    handNumber,
    totalRake,
    \* the hand in progress, as Betting has it; button outlives the hand
    game, button, phase, status, currentBet, lastFullRaiseSize, acted,
    actionSeat, boardSize, winner, stack, streetContribution, contributed,
    folded, bought,
    \* history
    wish,            \* what the player of each seat last asked for
    seatings, requests, broughtIn, takenOut

hand == <<game, button, phase, status, currentBet, lastFullRaiseSize, acted,
          actionSeat, boardSize, winner, stack, streetContribution, contributed,
          folded, bought>>
counts == <<seatings, requests>>
history == <<wish, counts, broughtIn, takenOut>>

table == <<tableStatus, seats, handNumber, totalRake>>
vars == <<table, hand, history>>

H == INSTANCE Betting WITH
        Tables <- {S \in SUBSET SeatNumbers : Cardinality(S) >= 2},
        Stacks <- Nat \ {0},
        Antes <- {Ante},
        Straddles <- {0},
        Games <- {"NLH", "PLO4"}

Occupied == DOMAIN seats
DealtIn == DOMAIN bought
InHand(s) == tableStatus = "HAND_ACTIVE" /\ s \in DealtIn

NoFunction == [s \in {} |-> 0]

----------------------------------------------------------------------------
(* Seats *)

SeatPlayer(s, buyIn) ==
    /\ tableStatus = "WAITING"
    /\ s \notin Occupied
    /\ seatings < MaxSeated
    /\ seats' = [p \in Occupied \cup {s} |->
                    IF p = s
                    THEN [stack |-> buyIn, status |-> "SEATED",
                          sitOutNextHand |-> FALSE, leaving |-> FALSE]
                    ELSE seats[p]]
    /\ wish' = [wish EXCEPT ![s] = "play"]
    /\ seatings' = seatings + 1
    /\ broughtIn' = broughtIn + buyIn
    /\ UNCHANGED <<tableStatus, handNumber, totalRake, hand, requests, takenOut>>

\* What the player asks for; nothing takes the wish to leave back.
Request(s, what) ==
    /\ requests < MaxRequests
    /\ requests' = requests + 1
    /\ wish' = [wish EXCEPT ![s] = IF @ = "leave" THEN @ ELSE what]
    /\ UNCHANGED seatings

\* A player of the hand in progress sits out after it, any other at once.
SitOut(s) ==
    /\ s \in Occupied
    /\ seats[s].status # "SITTING_OUT" /\ ~seats[s].sitOutNextHand
    /\ seats' = IF InHand(s)
                THEN [seats EXCEPT ![s].sitOutNextHand = TRUE]
                ELSE [seats EXCEPT ![s].status = "SITTING_OUT"]
    /\ Request(s, "sit out")
    /\ UNCHANGED <<tableStatus, handNumber, totalRake, hand, broughtIn, takenOut>>

ReturnPlayer(s) ==
    /\ s \in Occupied
    /\ seats[s].stack > 0
    /\ seats[s].status = "SITTING_OUT" \/ seats[s].sitOutNextHand
    /\ seats' = [seats EXCEPT ![s].sitOutNextHand = FALSE,
                              ![s].status = IF InHand(s) THEN "PLAYING" ELSE "SEATED"]
    /\ Request(s, "play")
    /\ UNCHANGED <<tableStatus, handNumber, totalRake, hand, broughtIn, takenOut>>

\* mutant: a player in a hand leaves at once
LeaveAtOnce(s) ==
    /\ s \in Occupied
    /\ seats' = Restrict(seats, Occupied \ {s})
    /\ takenOut' = takenOut + seats[s].stack
    /\ Request(s, "leave")
    /\ UNCHANGED <<tableStatus, handNumber, totalRake, hand, broughtIn>>
\* A player of the hand in progress leaves after it, any other at once.
Leave(s) ==
    /\ s \in Occupied
    /\ IF InHand(s)
       THEN /\ seats' = [seats EXCEPT ![s].leaving = TRUE]
            /\ UNCHANGED takenOut
       ELSE /\ seats' = Restrict(seats, Occupied \ {s})
            /\ takenOut' = takenOut + seats[s].stack
    /\ Request(s, "leave")
    /\ UNCHANGED <<tableStatus, handNumber, totalRake, hand, broughtIn>>

----------------------------------------------------------------------------
(* The start of a hand: nextHandSetup, createBettingState *)

Ready ==
    {s \in Occupied : seats[s].status = "SEATED" /\ seats[s].stack > 0 /\ ~seats[s].leaving}

NextButton == IF button \in Ready THEN H!NextSeat(button, Ready) ELSE H!Lowest(Ready)

NextGame ==
    IF Game # "ROE" THEN Game
    ELSE IF (handNumber \div RoeHandsPerGame) % 2 = 0 THEN "NLH" ELSE "PLO4"

StartHand ==
    /\ tableStatus = "WAITING"
    /\ Cardinality(Ready) >= 2
    /\ handNumber < MaxHands
    /\ tableStatus' = "HAND_ACTIVE"
    /\ handNumber' = handNumber + 1
    /\ game' = NextGame
    /\ \E b \in {NextButton}, chips \in {[s \in Ready |-> seats[s].stack]} :
           LET paid == [p \in DOMAIN chips |-> H!AntePaid(chips[p], Ante)]
               behind == [p \in DOMAIN chips |-> chips[p] - paid[p]]
           IN  /\ bought' = chips
               /\ button' = b
               /\ streetContribution' = H!Posted(b, behind, 0)'
               /\ stack' = [p \in DOMAIN chips |-> behind[p] - streetContribution'[p]]
               /\ contributed' = [p \in DOMAIN chips |-> paid[p] + streetContribution'[p]]
               /\ folded' = [p \in DOMAIN chips |-> FALSE]
    /\ currentBet' = BigBlind
    /\ lastFullRaiseSize' = BigBlind
    /\ phase' = "PREFLOP"
    /\ boardSize' = 0
    /\ acted' = {}
    /\ winner' = H!NoSeat
    /\ actionSeat' = H!FirstActor'
    /\ status' = IF actionSeat' = H!NoSeat THEN H!RoundStatus' ELSE "BETTING"
    /\ seats' = [s \in Occupied |->
                    IF s \in Ready THEN [seats[s] EXCEPT !.status = "PLAYING"] ELSE seats[s]]
    /\ UNCHANGED <<totalRake, history>>

----------------------------------------------------------------------------
(* The hand *)

Act(s) == InHand(s) /\ H!Play(s) /\ UNCHANGED <<table, history>>

Timeout(s) == InHand(s) /\ H!Timeout(s) /\ UNCHANGED <<table, history>>

DealStreet ==
    tableStatus = "HAND_ACTIVE" /\ H!DealStreet /\ UNCHANGED <<table, history>>

DealRunout ==
    tableStatus = "HAND_ACTIVE" /\ H!DealRemainingBoard /\ UNCHANGED <<table, history>>

----------------------------------------------------------------------------
(* The end of a hand: finishHand and its reduction *)

\* mutant: the wish to sit out is dropped with the hand
StatusForgotten(chips, player) == IF chips = 0 THEN "BUSTED" ELSE "SEATED"
StatusAfter(chips, player) ==
    IF chips = 0 THEN "BUSTED"
    ELSE IF player.sitOutNextHand THEN "SITTING_OUT" ELSE "SEATED"

\* The seats once the hand is over, the leaving players still there.
Settled(payouts) ==
    [s \in Occupied |->
        IF s \notin DealtIn THEN seats[s]
        ELSE LET chips == stack[s] + payouts[s]
             IN  [seats[s] EXCEPT !.stack = chips,
                                  !.status = StatusAfter(chips, seats[s]),
                                  !.sitOutNextHand = FALSE]]

\* What the players of some seats have.
Chips(seated) == [s \in DOMAIN seated |-> seated[s].stack]

\* mutant: the seats of the leaving players are not freed
NobodyGone == {}
Gone == {s \in Occupied : seats[s].leaving}

\* mutant: the check forgets the rake
ConservedWithoutRake(settlement) ==
    SumFunction(contributed) = SumFunction(settlement.payouts)
\* "Finished hand failed table-stack conservation" is thrown otherwise.
Conserved(settlement) ==
    SumFunction(contributed) = SumFunction(settlement.payouts) + settlement.rake

NoHand ==
    /\ game' = "NLH" /\ phase' = "PREFLOP" /\ status' = "COMPLETE"
    /\ currentBet' = 0 /\ lastFullRaiseSize' = 0
    /\ acted' = {} /\ actionSeat' = H!NoSeat /\ boardSize' = 0 /\ winner' = H!NoSeat
    /\ stack' = NoFunction /\ streetContribution' = NoFunction
    /\ contributed' = NoFunction /\ folded' = NoFunction /\ bought' = NoFunction

Rankings == [DealtIn -> 1..Cardinality(DealtIn)]
Settlement(rank) == Settle(contributed, folded, <<rank>>, button, Rake, boardSize >= 3)

\* The cards decide: any ranking of the hands.
FinishHand ==
    /\ tableStatus = "HAND_ACTIVE"
    /\ status \in {"SHOWDOWN", "COMPLETE"}
    /\ Buildable(contributed, folded)
    /\ \E settlement \in {Settlement(rank) : rank \in Rankings} :
           LET settled == Settled(settlement.payouts)
           IN  /\ Conserved(settlement)
               /\ seats' = Restrict(settled, Occupied \ Gone)
               /\ totalRake' = totalRake + settlement.rake
               /\ takenOut' = takenOut + SumFunctionOnSet(Chips(settled), Gone)
    /\ tableStatus' = "WAITING"
    /\ UNCHANGED <<handNumber, button, wish, counts, broughtIn>>
    /\ NoHand

----------------------------------------------------------------------------

Init ==
    /\ tableStatus = "WAITING"
    /\ seats = NoFunction
    /\ handNumber = 0
    /\ totalRake = 0
    /\ button = H!NoSeat
    /\ game = "NLH" /\ phase = "PREFLOP" /\ status = "COMPLETE"
    /\ currentBet = 0 /\ lastFullRaiseSize = 0
    /\ acted = {} /\ actionSeat = H!NoSeat /\ boardSize = 0 /\ winner = H!NoSeat
    /\ stack = NoFunction /\ streetContribution = NoFunction
    /\ contributed = NoFunction /\ folded = NoFunction /\ bought = NoFunction
    /\ wish = [s \in SeatNumbers |-> "leave"]
    /\ seatings = 0 /\ requests = 0 /\ broughtIn = 0 /\ takenOut = 0

Command(s) ==
    \/ \E buyIn \in BuyIns : SeatPlayer(s, buyIn)
    \/ SitOut(s) \/ ReturnPlayer(s) \/ Leave(s)
    \/ Act(s) \/ Timeout(s)

Next ==
    \/ \E s \in SeatNumbers : Command(s)
    \/ StartHand \/ DealStreet \/ DealRunout \/ FinishHand

Spec == Init /\ [][Next]_vars

----------------------------------------------------------------------------
(* Properties *)

\* Every chip ever brought to the table is on a seat, taken away or raked, and
\* the players of a hand keep their seat and the stack they play with until
\* the hand is settled, whatever they ask for in the meantime.
ChipsAccounted ==
    /\ SumFunction(Chips(seats)) + totalRake + takenOut = broughtIn
    /\ \A s \in DealtIn : s \in Occupied /\ seats[s].stack = bought[s]

\* A hand is dealt to exactly the seated players with chips whose last request,
\* made in whatever hand or pause, was to play.
DealtAsWished ==
    [][tableStatus = "WAITING" /\ tableStatus' = "HAND_ACTIVE" =>
        DOMAIN bought' = {s \in Occupied : wish[s] = "play" /\ seats[s].stack > 0}]_vars

\* A player who asked to leave is gone when its hand is over, with everything
\* it won: no chips are held for somebody who left, no seat is kept.
LeaversGone ==
    tableStatus = "WAITING" => Occupied = {s \in SeatNumbers : wish[s] # "leave"}

\* A hand never depends on a player to go on, and no assertion of the settlement
\* stops it: the seat to act is there to be timed out, or the dealer has a card
\* to turn, or the chips put in can be settled however the cards fall.
HandCanGoOn ==
    tableStatus = "HAND_ACTIVE" =>
        \/ status = "BETTING" /\ actionSeat \in Occupied /\ seats[actionSeat].status = "PLAYING"
        \/ status = "AWAITING_DEAL" /\ phase # "RIVER"
        \/ status = "AWAITING_RUNOUT"
        \/ /\ status \in {"SHOWDOWN", "COMPLETE"}
           /\ Buildable(contributed, folded)
           /\ \A rank \in Rankings : Conserved(Settlement(rank))
============================================================================
