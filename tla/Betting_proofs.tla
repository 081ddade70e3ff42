--------------------------- MODULE Betting_proofs ---------------------------
(***************************************************************************)
(* A hand of any number of seats, stacks, blinds, antes and straddles:     *)
(* types, conservation of the chips, and the existence of a next actor     *)
(* whenever the hand waits for one, the assertion of finishOrAdvance; that *)
(* streets end with the bets matched, that the bet can be raised by what   *)
(* the engine says, that a short all-in reopens nothing, and that the hand *)
(* leaves pots that can be settled.                                        *)
(***************************************************************************)
EXTENDS MCBetting, Sums, TLAPS

USE ChipsAssumption, GamesAssumption

----------------------------------------------------------------------------
(* Seats *)

LEMMA LowestExists ==
  ASSUME NEW S, S \subseteq 0..8, S # {}
  PROVE  \E s \in S : \A t \in S : s <= t
<1>0. \A x \in S : x = 0 \/ x = 1 \/ x = 2 \/ x = 3 \/ x = 4 \/ x = 5 \/ x = 6 \/ x = 7 \/ x = 8
  OBVIOUS
<1>1. CASE 0 \in S
  BY <1>0, <1>1
<1>2. CASE 0 \notin S /\ 1 \in S
  BY <1>0, <1>2
<1>3. CASE 0 \notin S /\ 1 \notin S /\ 2 \in S
  BY <1>0, <1>3
<1>4. CASE 0 \notin S /\ 1 \notin S /\ 2 \notin S /\ 3 \in S
  BY <1>0, <1>4
<1>5. CASE 0 \notin S /\ 1 \notin S /\ 2 \notin S /\ 3 \notin S /\ 4 \in S
  BY <1>0, <1>5
<1>6. CASE 0 \notin S /\ 1 \notin S /\ 2 \notin S /\ 3 \notin S /\ 4 \notin S /\ 5 \in S
  BY <1>0, <1>6
<1>7. CASE {0, 1, 2, 3, 4, 5} \cap S = {} /\ 6 \in S
  BY <1>0, <1>7
<1>8. CASE {0, 1, 2, 3, 4, 5, 6} \cap S = {} /\ 7 \in S
  BY <1>0, <1>8
<1>9. CASE {0, 1, 2, 3, 4, 5, 6, 7} \cap S = {} /\ 8 \in S
  BY <1>0, <1>9
<1> QED
  BY <1>0, <1>1, <1>2, <1>3, <1>4, <1>5, <1>6, <1>7, <1>8, <1>9

LEMMA LowestIn ==
  ASSUME NEW S, S \subseteq 0..8, S # {} PROVE Lowest(S) \in S
BY LowestExists DEF Lowest

\* nextSeat finds a seat of the set, and says null for an empty set only.
LEMMA NextSeatIn ==
  ASSUME NEW S, S \subseteq 0..8, NEW after \in Int
  PROVE  IF S = {} THEN NextSeat(after, S) = NoSeat ELSE NextSeat(after, S) \in S
<1> DEFINE higher == {s \in S : s > after}
<1>1. CASE S = {}
  BY <1>1 DEF NextSeat
<1>2. CASE S # {} /\ higher # {}
  <2>1. Lowest(higher) \in higher
    BY <1>2, LowestIn
  <2>2. NextSeat(after, S) = Lowest(higher)
    BY <1>2 DEF NextSeat
  <2> QED
    BY <1>2, <2>1, <2>2
<1>3. CASE S # {} /\ higher = {}
  BY <1>3, LowestIn DEF NextSeat
<1> QED
  BY <1>1, <1>2, <1>3

Dealt == \E S \in Tables : bought \in [S -> Stacks]

LEMMA SeatsAreNumbers ==
  ASSUME Dealt
  PROVE  /\ Seats \subseteq 0..8 /\ Seats # {} /\ NoSeat \notin Seats
         /\ \A p \in Seats : p \in Int /\ bought[p] \in Nat
<1>1. PICK S \in Tables : bought \in [S -> Stacks]
  BY DEF Dealt
<1>2. Seats = S
  BY <1>1 DEF Seats
<1>3. S \subseteq 0..8 /\ S # {}
  BY SeatsAssumption
<1>4. \A p \in S : bought[p] \in Stacks
  BY <1>1
<1>5. \A p \in S : p \in 0..8 /\ bought[p] \in Nat
  BY <1>3, <1>4
<1>6. -1 \notin S /\ \A p \in S : p \in Int
  BY <1>3
<1> QED
  BY <1>2, <1>3, <1>5, <1>6 DEF NoSeat

LEMMA SeatsSame ==
  ASSUME bought' = bought PROVE Seats' = Seats /\ (Dealt <=> Dealt')
BY DEF Seats, Dealt

----------------------------------------------------------------------------
(* The invariant *)

\* The types but for the fields that finishOrAdvance decides.
Typed ==
    /\ game \in Games
    /\ button \in Seats
    /\ phase \in Streets
    /\ currentBet \in Nat
    /\ lastFullRaiseSize \in Nat
    /\ acted \subseteq Seats
    /\ boardSize \in Nat
    /\ stack \in [Seats -> Nat]
    /\ streetContribution \in [Seats -> Nat]
    /\ contributed \in [Seats -> Nat]
    /\ folded \in [Seats -> BOOLEAN]
    /\ Dealt

Decided ==
    /\ status \in Statuses
    /\ actionSeat \in Seats \cup {NoSeat}
    /\ winner \in Seats \cup {NoSeat}

Inv == Typed /\ Decided /\ ChipsConserved /\ NextActorExists

LEMMA SeatFacts ==
  ASSUME Typed
  PROVE  /\ Seats \subseteq 0..8 /\ Seats # {} /\ NoSeat \notin Seats
         /\ \A p \in Seats : p \in Int /\ bought[p] \in Nat
         /\ stack \in [Seats -> Nat] /\ streetContribution \in [Seats -> Nat]
         /\ contributed \in [Seats -> Nat] /\ acted \subseteq Seats
         /\ button \in Seats /\ currentBet \in Nat
BY SeatsAreNumbers DEF Typed

LEMMA TypesSplit == TypeOK <=> Typed /\ Decided
BY DEF TypeOK, Typed, Decided, Dealt

\* An unfinished round has a seat that still has to act: its bet is not
\* matched, and since nobody is in for more than the bet, it is in for less.
LEMMA FinishKeeps ==
  ASSUME Typed, Typed', Decided, bought' = bought, NEW actor \in Seats,
         \A p \in Seats : streetContribution'[p] <= currentBet',
         FinishOrAdvance(actor)
  PROVE  Decided' /\ NextActorExists'
<1>0. /\ Seats' = Seats /\ Seats \subseteq 0..8 /\ Seats # {}
      /\ streetContribution' \in [Seats -> Nat] /\ currentBet' \in Nat
  BY SeatsSame, SeatFacts DEF Typed
<1>1. RoundStatus' \in Statuses
  BY DEF RoundStatus, Statuses
<1>2. Pending' \subseteq Seats
  BY <1>0 DEF Pending, CanAct, Live
<1>3. status' = "BETTING" => Pending' # {}
  <2> SUFFICES ASSUME status' = "BETTING" PROVE Pending' # {}
    OBVIOUS
  <2>1. ~RoundComplete'
    BY DEF FinishOrAdvance, RoundStatus
  <2>2. PICK p \in CanAct' : streetContribution'[p] # currentBet' \/ p \notin acted'
    BY <2>1 DEF RoundComplete
  <2>3. p \in Seats
    BY <1>0 DEF CanAct, Live
  <2>4. streetContribution'[p] < currentBet' \/ p \notin acted'
    BY <1>0, <2>2, <2>3
  <2> QED
    BY <2>2, <2>4 DEF Pending
<1>4. status' = "BETTING" => actionSeat' \in Pending'
  <2>1. actor \in Int /\ Pending' \subseteq 0..8
    BY <1>0, <1>2
  <2> QED
    BY <1>3, <2>1, NextSeatIn DEF FinishOrAdvance
<1>5. status' # "BETTING" => actionSeat' = NoSeat
  BY DEF FinishOrAdvance
<1>6. winner' \in Seats \cup {NoSeat}
  <2>1. CASE status' = "COMPLETE"
    <3>1. \E w \in Seats : Live' = {w}
      BY <1>0, <2>1 DEF FinishOrAdvance, RoundStatus
    <3> QED
      BY <2>1, <3>1 DEF FinishOrAdvance
  <2>2. CASE status' # "COMPLETE"
    BY <2>2 DEF FinishOrAdvance, Decided
  <2> QED
    BY <2>1, <2>2
<1> QED
  BY <1>0, <1>1, <1>2, <1>4, <1>5, <1>6 DEF Decided, NextActorExists, FinishOrAdvance

----------------------------------------------------------------------------
(* The actions of a player *)

LEMMA PayToKeeps ==
  ASSUME Typed, ChipsConserved, NEW p \in Seats, NEW target \in Int, PayTo(p, target)
  PROVE  /\ stack' \in [Seats -> Nat]
         /\ streetContribution' \in [Seats -> Nat]
         /\ contributed' \in [Seats -> Nat]
         /\ streetContribution'[p] = target
         /\ \A q \in Seats \ {p} : streetContribution'[q] = streetContribution[q]
         /\ \A q \in Seats : /\ stack'[q] + contributed'[q] = bought[q]
                             /\ streetContribution'[q] <= contributed'[q]
<1> DEFINE amount == target - streetContribution[p]
<1>1. /\ amount \in Nat /\ amount <= stack[p]
      /\ stack' = [stack EXCEPT ![p] = @ - amount]
      /\ streetContribution' = [streetContribution EXCEPT ![p] = target]
      /\ contributed' = [contributed EXCEPT ![p] = @ + amount]
  BY DEF PayTo, Typed
<1>2. target \in Nat /\ target = streetContribution[p] + amount
  BY <1>1 DEF Typed
<1> HIDE DEF amount
<1>3. stack[p] - amount \in Nat /\ contributed[p] + amount \in Nat
  BY <1>1 DEF Typed
<1>4. bought[p] \in Nat
  BY SeatFacts
<1> QED
  BY <1>1, <1>2, <1>3, <1>4 DEF Typed, ChipsConserved

LEMMA IncreaseKeeps ==
  ASSUME Typed, ChipsConserved, NEW p \in Seats, NEW to \in Int, Increase(p, to),
         UNCHANGED folded, SameStreet
  PROVE  Typed' /\ ChipsConserved'
<1>1. /\ to > currentBet /\ PayTo(p, to) /\ currentBet' = to
      /\ lastFullRaiseSize' \in {lastFullRaiseSize, to - currentBet}
      /\ acted' \in {{p}, acted \cup {p}}
  BY DEF Increase, LegalTarget
<1>0. Seats' = Seats /\ Dealt'
  BY SeatsSame DEF SameStreet, Typed
<1>2. Typed'
  BY <1>0, <1>1, PayToKeeps DEF Typed, SameStreet
<1>3. \A q \in Seats : streetContribution'[q] <= currentBet'
  <2>1. /\ streetContribution'[p] = to
        /\ \A q \in Seats \ {p} : streetContribution'[q] = streetContribution[q]
    BY <1>1, PayToKeeps
  <2>2. \A q \in Seats : streetContribution[q] \in Nat /\ streetContribution[q] <= currentBet
    BY DEF Typed, ChipsConserved
  <2>3. currentBet \in Nat /\ currentBet' = to /\ to > currentBet
    BY <1>1 DEF Typed
  <2> SUFFICES ASSUME NEW q \in Seats PROVE streetContribution'[q] <= currentBet'
    OBVIOUS
  <2>4. CASE q = p
    BY <2>1, <2>3, <2>4
  <2>5. CASE q # p
    <3>1. streetContribution'[q] = streetContribution[q]
      BY <2>1, <2>5
    <3>2. streetContribution[q] \in Nat /\ streetContribution[q] <= currentBet
      BY <2>2
    <3> QED
      BY <2>3, <3>1, <3>2
  <2> QED
    BY <2>4, <2>5
<1> QED
  BY <1>0, <1>1, <1>2, <1>3, PayToKeeps DEF ChipsConserved, SameStreet

LEMMA MatchKeeps ==
  ASSUME Typed, ChipsConserved, NEW p \in Seats, NEW target \in Int, PayTo(p, target),
         target <= currentBet, acted' = acted \cup {p}, UNCHANGED folded, SameBet, SameStreet
  PROVE  Typed' /\ ChipsConserved'
<1>0. Seats' = Seats /\ Dealt'
  BY SeatsSame DEF SameStreet, Typed
<1>1. Typed'
  BY <1>0, PayToKeeps DEF Typed, SameStreet, SameBet
<1>2. \A q \in Seats : streetContribution'[q] <= currentBet'
  <2>1. /\ streetContribution'[p] = target
        /\ \A q \in Seats \ {p} : streetContribution'[q] = streetContribution[q]
    BY PayToKeeps
  <2> QED
    BY <2>1 DEF ChipsConserved, SameBet
<1> QED
  BY <1>0, <1>1, <1>2, PayToKeeps DEF ChipsConserved, SameStreet

LEMMA FoldHandKeeps ==
  ASSUME Inv, NEW p \in Seats, FoldHand(p) PROVE Inv'
<1>0. Seats' = Seats /\ Dealt' /\ bought' = bought
  BY SeatsSame DEF FoldHand, SameStreet, Inv, Typed
<1>1. Typed' /\ ChipsConserved' /\ FinishOrAdvance(p)
  BY <1>0 DEF FoldHand, Inv, Typed, ChipsConserved, money, SameBet, SameStreet
<1> QED
  BY <1>0, <1>1, FinishKeeps DEF Inv, ChipsConserved

LEMMA CheckHandKeeps ==
  ASSUME Inv, NEW p \in Seats, CheckHand(p) PROVE Inv'
<1>0. Seats' = Seats /\ Dealt' /\ bought' = bought
  BY SeatsSame DEF CheckHand, SameStreet, Inv, Typed
<1>1. Typed' /\ ChipsConserved' /\ FinishOrAdvance(p)
  BY <1>0 DEF CheckHand, Inv, Typed, ChipsConserved, money, SameBet, SameStreet
<1> QED
  BY <1>0, <1>1, FinishKeeps DEF Inv, ChipsConserved

LEMMA CallKeeps ==
  ASSUME Inv, NEW p \in Seats, Call(p) PROVE Inv'
<1> DEFINE target == streetContribution[p] + CallAmount(p)
<1>0. Seats' = Seats /\ bought' = bought
  BY SeatsSame DEF Call, SameStreet
<1>1. target \in Int /\ target <= currentBet
  BY DEF Inv, Typed, ChipsConserved, CallAmount, ToCall, Least
<1>2. Typed' /\ ChipsConserved' /\ FinishOrAdvance(p)
  BY <1>1, MatchKeeps DEF Call, Inv
<1> QED
  BY <1>0, <1>2, FinishKeeps DEF Inv, ChipsConserved

LEMMA BetKeeps ==
  ASSUME Inv, NEW p \in Seats, NEW to \in Int, Bet(p, to) \/ Raise(p, to) PROVE Inv'
<1>0. Seats' = Seats /\ bought' = bought
  BY SeatsSame DEF Bet, Raise, SameStreet
<1>1. Typed' /\ ChipsConserved' /\ FinishOrAdvance(p)
  BY IncreaseKeeps DEF Bet, Raise, Inv
<1> QED
  BY <1>0, <1>1, FinishKeeps DEF Inv, ChipsConserved

LEMMA AllInKeeps ==
  ASSUME Inv, NEW p \in Seats, AllIn(p) PROVE Inv'
<1> DEFINE target == AllInTarget(p)
<1>0. Seats' = Seats /\ bought' = bought
  BY SeatsSame DEF AllIn, SameStreet
<1>1. target \in Nat
  BY DEF Inv, Typed, AllInTarget
<1>2. CASE target <= currentBet
  BY <1>0, <1>1, <1>2, MatchKeeps, FinishKeeps DEF AllIn, Inv, ChipsConserved
<1>3. CASE ~(target <= currentBet)
  BY <1>0, <1>1, <1>3, IncreaseKeeps, FinishKeeps DEF AllIn, Inv, ChipsConserved
<1> QED
  BY <1>2, <1>3

----------------------------------------------------------------------------
(* The dealer *)

LEMMA DealStreetKeeps ==
  ASSUME Inv, DealStreet PROVE Inv'
<1>0. Seats' = Seats /\ Dealt'
  BY SeatsSame DEF DealStreet, Inv, Typed
<1>1. Typed'
  BY <1>0 DEF DealStreet, Inv, Typed, NextStreet, Streets
<1>2. ChipsConserved'
  <2>1. \A p \in Seats : streetContribution'[p] = 0 /\ contributed[p] \in Nat
    BY DEF DealStreet, Inv, Typed
  <2>2. currentBet' = 0 /\ UNCHANGED <<stack, contributed, bought>>
    BY DEF DealStreet
  <2>3. \A p \in Seats : stack[p] + contributed[p] = bought[p]
    BY DEF Inv, ChipsConserved
  <2> SUFFICES ASSUME NEW p \in Seats
               PROVE  /\ stack'[p] + contributed'[p] = bought'[p]
                      /\ streetContribution'[p] <= contributed'[p]
                      /\ streetContribution'[p] <= currentBet'
    BY <1>0 DEF ChipsConserved
  <2>4. stack'[p] + contributed'[p] = bought'[p]
    BY <2>2, <2>3
  <2>5. streetContribution'[p] = 0 /\ contributed'[p] \in Nat
    BY <2>1, <2>2
  <2> QED
    BY <2>2, <2>4, <2>5
<1>3. /\ CanAct \subseteq Seats /\ CanAct \subseteq 0..8 /\ button \in Int
      /\ NoSeat \notin Seats
  BY SeatFacts DEF CanAct, Live, Inv
<1>4. Decided'
  BY <1>0, <1>3, NextSeatIn DEF DealStreet, Inv, Decided, Statuses
<1>5. NextActorExists'
  <2>1. Pending' = CanAct
    BY <1>0, <1>3 DEF DealStreet, Pending, CanAct, Live, Inv, Typed
  <2>2. status' = "BETTING" => CanAct # {}
    BY DEF DealStreet
  <2> QED
    BY <1>3, <2>1, <2>2, NextSeatIn DEF DealStreet, NextActorExists
<1> QED
  BY <1>1, <1>2, <1>4, <1>5 DEF Inv

LEMMA DealRemainingBoardKeeps ==
  ASSUME Inv, DealRemainingBoard PROVE Inv'
<1>0. Seats' = Seats /\ Dealt'
  BY SeatsSame DEF DealRemainingBoard, Inv, Typed
<1> QED
  BY <1>0 DEF DealRemainingBoard, Inv, Typed, Decided, ChipsConserved, NextActorExists, Streets,
       Statuses, money

----------------------------------------------------------------------------
(* The start of a hand *)

LEMMA InitKeeps == Init => Inv
<1> SUFFICES ASSUME Init PROVE Inv
  OBVIOUS
<1>1. PICK ante \in Antes, straddle \in Straddles :
        LET paid == [p \in Seats |-> AntePaid(bought[p], ante)]
            behind == [p \in Seats |-> bought[p] - paid[p]]
        IN  /\ straddle > 0 =>
                 ~HeadsUp /\ behind[StraddleSeat(button)] >= straddle
            /\ streetContribution = Posted(button, behind, straddle)
            /\ stack = [p \in Seats |-> behind[p] - streetContribution[p]]
            /\ contributed = [p \in Seats |-> paid[p] + streetContribution[p]]
            /\ currentBet = IF straddle > 0 THEN straddle ELSE BigBlind
            /\ lastFullRaiseSize = IF straddle > 0 THEN straddle - BigBlind ELSE BigBlind
  BY DEF Init
<1>0. /\ Dealt /\ Seats \subseteq 0..8 /\ Seats # {} /\ NoSeat \notin Seats
      /\ \A p \in Seats : p \in Int /\ bought[p] \in Nat
  <2>1. Dealt
    BY DEF Init, Dealt
  <2> QED
    BY <2>1, SeatsAreNumbers
<1> DEFINE paid == [p \in Seats |-> AntePaid(bought[p], ante)]
           behind == [p \in Seats |-> bought[p] - paid[p]]
<1>2. ante \in Nat /\ straddle \in Nat /\ \A p \in Seats : bought[p] \in Nat
  <2>1. ante \in Nat
    BY ChipsAssumption
  <2>2. straddle \in Nat
    BY ChipsAssumption
  <2> QED
    BY <1>0, <2>1, <2>2
<1>3. \A p \in Seats : paid[p] \in Nat /\ behind[p] \in Nat /\ paid[p] + behind[p] = bought[p]
  <2> SUFFICES ASSUME NEW p \in Seats
               PROVE  paid[p] \in Nat /\ behind[p] \in Nat /\ paid[p] + behind[p] = bought[p]
    OBVIOUS
  <2>1. paid[p] = AntePaid(bought[p], ante) /\ behind[p] = bought[p] - paid[p]
    OBVIOUS
  <2> QED
    BY <1>2, <2>1 DEF AntePaid, Least
<1>4. /\ currentBet \in Nat /\ lastFullRaiseSize \in Nat /\ currentBet >= BigBlind
      /\ currentBet >= straddle
  BY <1>1, <1>2
<1>5. \A p \in Seats : /\ streetContribution[p] \in Nat
                       /\ streetContribution[p] <= behind[p]
                       /\ streetContribution[p] <= currentBet
  <2> SUFFICES ASSUME NEW p \in Seats
               PROVE  /\ streetContribution[p] \in Nat
                      /\ streetContribution[p] <= behind[p]
                      /\ streetContribution[p] <= currentBet
    OBVIOUS
  <2>1. behind[p] \in Nat
    BY <1>3
  <2> HIDE DEF behind
  <2>2. streetContribution[p] \in {Least(behind[p], BigBlind), Least(behind[p], SmallBlind), 0}
        \/ (streetContribution[p] = straddle /\ p = StraddleSeat(button))
    BY <1>1 DEF Posted, behind
  <2>3. straddle > 0 => behind[StraddleSeat(button)] >= straddle
    BY <1>1 DEF behind
  <2> QED
    BY <1>2, <1>4, <2>1, <2>2, <2>3 DEF Least
<1>6. /\ \A p \in Seats : stack[p] = behind[p] - streetContribution[p]
      /\ \A p \in Seats : contributed[p] = paid[p] + streetContribution[p]
      /\ DOMAIN stack = Seats /\ DOMAIN contributed = Seats /\ DOMAIN streetContribution = Seats
  BY <1>1 DEF Posted
<1> HIDE DEF paid, behind
<1>7. /\ stack \in [Seats -> Nat] /\ contributed \in [Seats -> Nat]
      /\ streetContribution \in [Seats -> Nat]
  BY <1>1, <1>3, <1>5, <1>6 DEF Posted
<1>8. Typed
  BY <1>0, <1>4, <1>7 DEF Init, Typed, Streets
<1>9. ChipsConserved
  <2> SUFFICES ASSUME NEW p \in Seats
               PROVE  /\ stack[p] + contributed[p] = bought[p]
                      /\ streetContribution[p] <= contributed[p]
                      /\ streetContribution[p] <= currentBet
    BY DEF ChipsConserved
  <2>1. /\ stack[p] = behind[p] - streetContribution[p]
        /\ contributed[p] = paid[p] + streetContribution[p]
    BY <1>6
  <2>2. /\ paid[p] \in Nat /\ behind[p] \in Nat /\ paid[p] + behind[p] = bought[p]
        /\ streetContribution[p] \in Nat /\ streetContribution[p] <= currentBet
    BY <1>3, <1>5
  <2> QED
    BY <2>1, <2>2
<1>10. CanAct \subseteq Seats /\ Pending = CanAct
  BY DEF CanAct, Live, Pending, Init
<1>11. IF CanAct = {} THEN actionSeat = NoSeat ELSE actionSeat \in CanAct
  <2> DEFINE last == IF currentBet > BigBlind THEN StraddleSeat(button) ELSE BigBlindSeat(button)
  <2>1. last \in Int
    <3>1. \A b \in Seats : NextSeat(b, Seats) \in Seats
      BY <1>0, NextSeatIn
    <3>2. SmallBlindSeat(button) \in Seats
      BY <1>8, <3>1 DEF Typed, SmallBlindSeat
    <3>3. BigBlindSeat(button) \in Seats
      BY <3>1, <3>2 DEF BigBlindSeat
    <3>4. StraddleSeat(button) \in Seats
      BY <3>1, <3>3 DEF StraddleSeat
    <3>5. last = StraddleSeat(button) \/ last = BigBlindSeat(button)
      OBVIOUS
    <3>6. Seats \subseteq Int
      BY <1>0
    <3> HIDE DEF last
    <3> QED
      BY <3>3, <3>4, <3>5, <3>6
  <2>2. IF CanAct = {} THEN NextSeat(last, CanAct) = NoSeat ELSE NextSeat(last, CanAct) \in CanAct
    BY <1>0, <1>10, <2>1, NextSeatIn
  <2> QED
    BY <2>2 DEF Init, FirstActor
<1>12. actionSeat = NoSeat => CanAct = {}
  BY <1>0, <1>10, <1>11
<1>13. Decided
  BY <1>10, <1>11 DEF Init, Decided, Statuses, RoundStatus
<1>14. NextActorExists
  BY <1>0, <1>10, <1>11, <1>12 DEF Init, NextActorExists, RoundStatus
<1> QED
  BY <1>8, <1>9, <1>13, <1>14 DEF Inv

LEMMA NextKeeps == Inv /\ [Next]_vars => Inv'
<1> SUFFICES ASSUME Inv, [Next]_vars PROVE Inv'
  OBVIOUS
<1>1. ASSUME NEW p \in Seats, Play(p) PROVE Inv'
  <2>1. 1..AllInTarget(p) \subseteq Int
    OBVIOUS
  <2> QED
    BY <1>1, <2>1, FoldHandKeeps, CheckHandKeeps, CallKeeps, AllInKeeps, BetKeeps
       DEF Play, Fold, Check
<1>2. ASSUME NEW p \in Seats, Timeout(p) PROVE Inv'
  BY <1>2, FoldHandKeeps, CheckHandKeeps DEF Timeout
<1>3. CASE UNCHANGED vars
  <2>1. Seats' = Seats /\ Dealt'
    BY <1>3, SeatsSame DEF vars, Inv, Typed
  <2> QED
    BY <1>3, <2>1 DEF vars, money, Inv, Typed, Decided, ChipsConserved, NextActorExists, Pending,
                CanAct, Live
<1> QED
  BY <1>1, <1>2, <1>3, DealStreetKeeps, DealRemainingBoardKeeps DEF Next

LEMMA InductiveInv == Spec => []Inv
BY InitKeeps, NextKeeps, PTL DEF Spec

----------------------------------------------------------------------------
(* What a street owes *)

\* What a seat put in before this street.
Carried(p) == contributed[p] - streetContribution[p]

BoardOf(street) ==
    CASE street = "PREFLOP" -> 0 [] street = "FLOP" -> 3 [] street = "TURN" -> 4 [] OTHER -> 5

\* Who can still bet put in on the streets before as much as anybody.
LevelKept == \A p \in CanAct, q \in Seats : Carried(p) >= Carried(q)

StreetOver ==
    /\ status \in {"AWAITING_DEAL", "AWAITING_RUNOUT", "SHOWDOWN"} =>
          \A p \in CanAct : streetContribution[p] = currentBet
    /\ status = "AWAITING_DEAL" => phase # "RIVER" /\ \E p, q \in CanAct : p # q
    /\ status = "SHOWDOWN" => phase = "RIVER"
    /\ status # "COMPLETE" => \A w \in Seats : Live # {w}

\* The minimum raise is not above what a pot-limit raise may be.
BetsCovered ==
    /\ lastFullRaiseSize <= currentBet \/ lastFullRaiseSize <= BigBlind
    /\ phase = "PREFLOP" => currentBet >= BigBlind
    /\ phase # "PREFLOP" => \A p \in CanAct : contributed[p] >= BigBlind

StreetInv == boardSize = BoardOf(phase) /\ LevelKept /\ StreetOver /\ BetsCovered

\* What an action of a player does, whichever it is: it folds to a bet, or it
\* matches or raises the bet, or it is all-in for less.
Moves(p) ==
    /\ p \in CanAct /\ FinishOrAdvance(p) /\ SameStreet
    /\ \A q \in Seats :
          /\ Carried(q)' = Carried(q) /\ contributed'[q] >= contributed[q]
          /\ q # p => /\ stack'[q] = stack[q] /\ streetContribution'[q] = streetContribution[q]
                      /\ folded'[q] = folded[q]
    /\ lastFullRaiseSize' = lastFullRaiseSize \/ lastFullRaiseSize' <= currentBet'
    /\ currentBet' >= currentBet
    /\ \/ streetContribution[p] < currentBet /\ UNCHANGED money /\ SameBet
       \/ folded' = folded /\ streetContribution'[p] = currentBet'
       \/ folded' = folded /\ stack'[p] = 0 /\ SameBet

LEMMA FoldMoves ==
  ASSUME Inv, NEW p \in Seats, InTurn(p), ToCall(p) > 0, FoldHand(p) PROVE Moves(p)
<1>1. p \in CanAct
  BY DEF InTurn, Inv, NextActorExists, Pending
<1>2. streetContribution[p] < currentBet
  BY DEF ToCall, Inv, Typed
<1>3. /\ FinishOrAdvance(p) /\ SameStreet /\ UNCHANGED money /\ SameBet
      /\ \A q \in Seats : q # p => folded'[q] = folded[q]
  BY DEF FoldHand, Inv, Typed
<1>4. \A q \in Seats : Carried(q)' = Carried(q) /\ contributed'[q] >= contributed[q]
  BY <1>3 DEF Carried, money, Inv, Typed
<1> QED
  BY <1>1, <1>2, <1>3, <1>4 DEF Moves, money, SameBet, Inv, Typed

LEMMA CheckMoves ==
  ASSUME Inv, NEW p \in Seats, InTurn(p), ToCall(p) = 0, CheckHand(p) PROVE Moves(p)
<1>1. p \in CanAct
  BY DEF InTurn, Inv, NextActorExists, Pending
<1>2. streetContribution[p] = currentBet
  BY DEF ToCall, Inv, Typed, ChipsConserved
<1>3. FinishOrAdvance(p) /\ SameStreet /\ UNCHANGED <<money, folded>> /\ SameBet
  BY DEF CheckHand
<1>4. \A q \in Seats : Carried(q)' = Carried(q) /\ contributed'[q] >= contributed[q]
  BY <1>3 DEF Carried, money, Inv, Typed
<1> QED
  BY <1>1, <1>2, <1>3, <1>4 DEF Moves, money, SameBet, Inv, Typed

LEMMA PayToMoves ==
  ASSUME Typed, NEW p \in Seats, NEW target \in Int, PayTo(p, target)
  PROVE  /\ \A q \in Seats :
               /\ Carried(q)' = Carried(q) /\ contributed'[q] >= contributed[q]
               /\ q # p => stack'[q] = stack[q] /\ streetContribution'[q] = streetContribution[q]
         /\ streetContribution'[p] = target /\ stack'[p] = AllInTarget(p) - target
<1> DEFINE amount == target - streetContribution[p]
<1>1. /\ amount \in Nat
      /\ stack' = [stack EXCEPT ![p] = @ - amount]
      /\ streetContribution' = [streetContribution EXCEPT ![p] = target]
      /\ contributed' = [contributed EXCEPT ![p] = @ + amount]
  BY DEF PayTo, Typed
<1>2. target = streetContribution[p] + amount /\ streetContribution[p] \in Nat /\ stack[p] \in Nat
  BY DEF Typed
<1> HIDE DEF amount
<1>3. \A q \in Seats : Carried(q)' = Carried(q) /\ contributed'[q] >= contributed[q]
  <2> TAKE q \in Seats
  <2>0. contributed[q] \in Nat /\ streetContribution[q] \in Nat
    BY DEF Typed
  <2>1. CASE q = p
    <3>1. contributed'[p] = contributed[p] + amount /\ streetContribution'[p] = target
      BY <1>1 DEF Typed
    <3> QED
      BY <1>1, <1>2, <2>0, <2>1, <3>1 DEF Carried
  <2>2. CASE q # p
    <3>1. contributed'[q] = contributed[q] /\ streetContribution'[q] = streetContribution[q]
      BY <1>1, <2>2 DEF Typed
    <3> QED
      BY <2>0, <3>1 DEF Carried
  <2> QED
    BY <2>1, <2>2
<1>4. /\ \A q \in Seats : q # p => stack'[q] = stack[q] /\ streetContribution'[q] = streetContribution[q]
      /\ streetContribution'[p] = target /\ stack'[p] = stack[p] - amount
  BY <1>1 DEF Typed
<1>5. stack[p] - amount = AllInTarget(p) - target
  BY <1>1, <1>2 DEF AllInTarget
<1> QED
  BY <1>3, <1>4, <1>5

LEMMA CallMoves ==
  ASSUME Inv, NEW p \in Seats, Call(p) PROVE Moves(p)
<1> DEFINE target == streetContribution[p] + CallAmount(p)
<1>1. p \in CanAct
  BY DEF Call, InTurn, Inv, NextActorExists, Pending
<1>2. /\ target \in Int /\ PayTo(p, target) /\ FinishOrAdvance(p) /\ SameStreet /\ SameBet
      /\ folded' = folded
      /\ target = currentBet \/ target = AllInTarget(p)
  BY DEF Call, Inv, Typed, CallAmount, ToCall, Least, AllInTarget
<1> HIDE DEF target
<1>3. AllInTarget(p) - AllInTarget(p) = 0
  BY DEF AllInTarget, Inv, Typed
<1> QED
  BY <1>1, <1>2, <1>3, PayToMoves DEF Moves, Inv, SameBet, Typed

LEMMA IncreaseMoves ==
  ASSUME Inv, NEW p \in Seats, NEW to \in Int, InTurn(p), Increase(p, to), UNCHANGED folded,
         SameStreet, FinishOrAdvance(p)
  PROVE  Moves(p)
<1>1. p \in CanAct
  BY DEF InTurn, Inv, NextActorExists, Pending
<1>2. PayTo(p, to) /\ currentBet' = to /\ to > currentBet /\ currentBet \in Nat
  BY DEF Increase, LegalTarget, Inv, Typed
<1>3. lastFullRaiseSize' = lastFullRaiseSize \/ lastFullRaiseSize' <= currentBet'
  <2>1. to - currentBet <= to
    BY <1>2
  <2> QED
    BY <1>2, <2>1 DEF Increase
<1> QED
  BY <1>1, <1>2, <1>3, PayToMoves DEF Moves, Inv

LEMMA AllInMoves ==
  ASSUME Inv, NEW p \in Seats, AllIn(p) PROVE Moves(p)
<1>0. AllInTarget(p) \in Int /\ AllInTarget(p) - AllInTarget(p) = 0 /\ currentBet \in Nat
  BY DEF AllInTarget, Inv, Typed
<1>1. CASE AllInTarget(p) <= currentBet
  <2>1. p \in CanAct
    BY DEF AllIn, InTurn, Inv, NextActorExists, Pending
  <2>2. PayTo(p, AllInTarget(p)) /\ SameBet /\ folded' = folded /\ SameStreet /\ FinishOrAdvance(p)
    BY <1>1 DEF AllIn
  <2> QED
    BY <1>0, <2>1, <2>2, PayToMoves DEF Moves, Inv, SameBet
<1>2. CASE ~(AllInTarget(p) <= currentBet)
  BY <1>0, <1>2, IncreaseMoves DEF AllIn
<1> QED
  BY <1>1, <1>2

LEMMA PlayMoves ==
  ASSUME Inv, NEW p \in Seats, Play(p) \/ Timeout(p) PROVE Moves(p)
<1>1. 1..AllInTarget(p) \subseteq Int
  OBVIOUS
<1>2. ASSUME NEW to \in Int, Bet(p, to) \/ Raise(p, to) PROVE Moves(p)
  BY <1>2, IncreaseMoves DEF Bet, Raise
<1>3. ASSUME Fold(p) \/ Check(p) \/ Timeout(p) PROVE Moves(p)
  <2>1. ToCall(p) = 0 \/ ToCall(p) > 0
    BY DEF ToCall, Inv, Typed
  <2> QED
    BY <1>3, <2>1, FoldMoves, CheckMoves DEF Fold, Check, Timeout
<1>4. ASSUME Call(p) \/ AllIn(p) PROVE Moves(p)
  BY <1>4, CallMoves, AllInMoves
<1>5. ASSUME NEW to \in 1..AllInTarget(p), Bet(p, to) \/ Raise(p, to) PROVE Moves(p)
  BY <1>1, <1>2, <1>5
<1> QED
  BY <1>3, <1>4, <1>5 DEF Play
\* The seats of the hand, and what is common to the cases below.
LEMMA HandFacts ==
  ASSUME Inv
  PROVE  /\ Seats \subseteq 0..8 /\ CanAct \subseteq Live /\ Live \subseteq Seats
         /\ \A p \in Seats : /\ stack[p] \in Nat /\ streetContribution[p] \in Nat /\ contributed[p] \in Nat
                             /\ streetContribution[p] <= contributed[p]
                             /\ streetContribution[p] <= currentBet /\ Carried(p) \in Nat
         /\ currentBet \in Nat /\ lastFullRaiseSize \in Nat
<1>1. \A p \in Seats : /\ stack[p] \in Nat /\ streetContribution[p] \in Nat /\ contributed[p] \in Nat
                       /\ streetContribution[p] <= contributed[p]
                       /\ streetContribution[p] <= currentBet
  BY DEF Inv, Typed, ChipsConserved
<1>2. \A p \in Seats : Carried(p) \in Nat
  BY <1>1 DEF Carried
<1> QED
  BY <1>1, <1>2, SeatFacts DEF Inv, Typed, CanAct, Live

\* Nobody who could not act can act later.
LEMMA MovesCanAct ==
  ASSUME Inv, NEW p \in Seats, Moves(p)
  PROVE  CanAct' \subseteq CanAct /\ Live' \subseteq Live /\ Seats' = Seats
<1>1. Seats' = Seats /\ p \in CanAct
  BY SeatsSame DEF Moves, SameStreet
<1>2. \A q \in Seats : q # p => stack'[q] = stack[q] /\ folded'[q] = folded[q]
  BY DEF Moves
<1> QED
  BY <1>1, <1>2, HandFacts DEF CanAct, Live

LEMMA FinishEndsStreet ==
  ASSUME NEW actor, FinishOrAdvance(actor) PROVE StreetOver'
<1>1. status' = RoundStatus'
  BY DEF FinishOrAdvance
<1>2. ASSUME status' \in {"AWAITING_DEAL", "AWAITING_RUNOUT", "SHOWDOWN"}
      PROVE  \A p \in CanAct' : streetContribution'[p] = currentBet'
  BY <1>1, <1>2 DEF RoundStatus, OneLeftMatched, RoundComplete
<1>3. ASSUME status' = "AWAITING_DEAL" PROVE phase' # "RIVER" /\ \E p, q \in CanAct' : p # q
  <2>1. phase' # "RIVER" /\ CanAct' # {} /\ ~OneLeftMatched' /\ RoundComplete'
    BY <1>1, <1>3 DEF RoundStatus
  <2>2. PICK p \in CanAct' : streetContribution'[p] = currentBet'
    BY <2>1 DEF RoundComplete
  <2>3. CanAct' # {p}
    BY <2>1, <2>2 DEF OneLeftMatched
  <2> QED
    BY <2>1, <2>2, <2>3
<1>4. status' = "SHOWDOWN" => phase' = "RIVER"
  BY <1>1 DEF RoundStatus
<1>5. status' # "COMPLETE" => \A w \in Seats' : Live' # {w}
  BY <1>1 DEF RoundStatus
<1> QED
  BY <1>2, <1>3, <1>4, <1>5 DEF StreetOver

LEMMA MovesKeepStreet ==
  ASSUME Inv, Inv', StreetInv, NEW p \in Seats, Moves(p) PROVE StreetInv'
<1>1. CanAct' \subseteq CanAct /\ Seats' = Seats /\ CanAct \subseteq Seats
  BY MovesCanAct, HandFacts
<1>2. StreetOver'
  BY FinishEndsStreet DEF Moves
<1>3. LevelKept'
  BY <1>1 DEF LevelKept, StreetInv, Moves
<1>4. boardSize' = BoardOf(phase)' /\ phase' = phase
  BY DEF StreetInv, Moves, SameStreet, BoardOf
<1>5. BetsCovered'
  <2>1. /\ currentBet \in Nat /\ currentBet' >= currentBet /\ lastFullRaiseSize \in Nat
        /\ currentBet' \in Nat /\ BigBlind \in Nat
    BY HandFacts DEF Moves, Inv, Typed
  <2>2. lastFullRaiseSize' <= currentBet' \/ lastFullRaiseSize' <= BigBlind
    BY <2>1 DEF StreetInv, BetsCovered, Moves
  <2>3. \A q \in CanAct' : contributed[q] >= BigBlind => contributed'[q] >= BigBlind
    <3> SUFFICES ASSUME NEW q \in CanAct', contributed[q] >= BigBlind
                 PROVE  contributed'[q] >= BigBlind
      OBVIOUS
    <3>1. q \in Seats /\ q \in Seats'
      BY <1>1
    <3>2. contributed[q] \in Nat /\ contributed'[q] \in Nat /\ contributed'[q] >= contributed[q]
      BY <3>1 DEF Moves, Inv, Typed
    <3> QED
      BY <2>1, <3>2
  <2> QED
    BY <1>1, <1>4, <2>1, <2>2, <2>3 DEF BetsCovered, StreetInv
<1> QED
  BY <1>2, <1>3, <1>4, <1>5 DEF StreetInv

LEMMA DealKeepsStreet ==
  ASSUME Inv, StreetInv, DealStreet PROVE StreetInv'
<1>0. /\ Seats' = Seats /\ UNCHANGED <<stack, contributed, folded>> /\ status = "AWAITING_DEAL"
      /\ phase' = NextStreet(phase) /\ lastFullRaiseSize' = BigBlind /\ currentBet' = 0
      /\ \A q \in Seats : streetContribution'[q] = 0
  BY SeatsSame DEF DealStreet
<1>1. CanAct' = CanAct /\ Live' = Live
  BY <1>0 DEF CanAct, Live
<1>2. \A p \in CanAct : streetContribution[p] = currentBet
  BY <1>0 DEF StreetInv, StreetOver
<1>3. LevelKept'
  <2> SUFFICES ASSUME NEW p \in CanAct, NEW q \in Seats PROVE Carried(p)' >= Carried(q)'
    BY <1>0, <1>1 DEF LevelKept
  <2>1. p \in Seats /\ Carried(p) >= Carried(q) /\ streetContribution[p] = currentBet
    BY <1>2, HandFacts DEF StreetInv, LevelKept
  <2>2. Carried(p)' = contributed[p] /\ Carried(q)' = contributed[q]
    BY <1>0, <2>1, HandFacts DEF Carried
  <2> QED
    BY <2>1, <2>2, HandFacts DEF Carried
<1>4. PICK x, y \in CanAct : x # y
  BY <1>0 DEF StreetInv, StreetOver
<1>5. StreetOver'
  <2>1. \A w \in Seats : Live # {w}
    BY <1>0 DEF StreetInv, StreetOver
  <2> QED
    BY <1>0, <1>1, <1>4, <2>1 DEF DealStreet, StreetOver
<1>6. boardSize' = BoardOf(phase)'
  <2>1. phase \in {"PREFLOP", "FLOP", "TURN"} /\ boardSize = BoardOf(phase)
    BY <1>0 DEF StreetInv, StreetOver, Inv, Typed, Streets
  <2> QED
    BY <2>1 DEF DealStreet, NextStreet, BoardOf
<1>7. BetsCovered'
  <2>1. phase' # "PREFLOP" /\ BigBlind \in Nat
    BY <1>0 DEF NextStreet
  <2>2. \A p \in CanAct : contributed[p] >= BigBlind
    BY <1>2, <2>1, HandFacts DEF StreetInv, BetsCovered
  <2> QED
    BY <1>0, <1>1, <2>1, <2>2 DEF BetsCovered
<1> QED
  BY <1>3, <1>5, <1>6, <1>7 DEF StreetInv

LEMMA RunoutKeepsStreet ==
  ASSUME Inv, StreetInv, DealRemainingBoard PROVE StreetInv'
<1>0. /\ Seats' = Seats /\ UNCHANGED <<money, currentBet, lastFullRaiseSize, folded>>
      /\ status = "AWAITING_RUNOUT" /\ phase' = "RIVER" /\ status' = "SHOWDOWN" /\ boardSize' = 5
  BY SeatsSame DEF DealRemainingBoard
<1>1. CanAct' = CanAct /\ Live' = Live
  BY <1>0 DEF CanAct, Live, money
<1>2. \A p \in CanAct : streetContribution[p] = currentBet
  BY <1>0 DEF StreetInv, StreetOver
<1>3. LevelKept' /\ StreetOver'
  BY <1>0, <1>1 DEF StreetInv, LevelKept, StreetOver, Carried, money
<1>4. \A p \in CanAct : contributed[p] >= BigBlind
  <2>1. BigBlind \in Nat
    OBVIOUS
  <2> QED
    BY <1>2, <2>1, HandFacts DEF StreetInv, BetsCovered
<1> QED
  BY <1>0, <1>1, <1>3, <1>4 DEF StreetInv, BetsCovered, BoardOf, money


\* What was put in before the first street is the ante, in full or all there is.
LEMMA InitCarried ==
  ASSUME Init PROVE \E ante \in Antes : \A p \in Seats : Carried(p) = AntePaid(bought[p], ante)
<1>1. PICK ante \in Antes, straddle \in Straddles :
        LET paid == [p \in Seats |-> AntePaid(bought[p], ante)]
            behind == [p \in Seats |-> bought[p] - paid[p]]
        IN  /\ straddle > 0 =>
                 ~HeadsUp /\ behind[StraddleSeat(button)] >= straddle
            /\ streetContribution = Posted(button, behind, straddle)
            /\ stack = [p \in Seats |-> behind[p] - streetContribution[p]]
            /\ contributed = [p \in Seats |-> paid[p] + streetContribution[p]]
            /\ currentBet = IF straddle > 0 THEN straddle ELSE BigBlind
            /\ lastFullRaiseSize = IF straddle > 0 THEN straddle - BigBlind ELSE BigBlind
  BY DEF Init
<1>2. \A p \in Seats : contributed[p] = AntePaid(bought[p], ante) + streetContribution[p]
  BY <1>1
<1>3. \A p \in Seats : AntePaid(bought[p], ante) \in Nat /\ streetContribution[p] \in Nat
  <2>1. Inv
    BY InitKeeps
  <2>2. ante \in Nat
    OBVIOUS
  <2> QED
    BY <2>1, <2>2, SeatFacts DEF Inv, AntePaid, Least
<1>4. \A p \in Seats : Carried(p) = AntePaid(bought[p], ante)
  BY <1>2, <1>3 DEF Carried
<1> QED
  BY <1>4

LEMMA InitBets ==
  ASSUME Init
  PROVE  /\ Live = Seats /\ \A w \in Seats : Live # {w}
         /\ currentBet >= BigBlind /\ lastFullRaiseSize <= currentBet
<1>1. Live = Seats
  BY DEF Live, Init
<1>2. \A w \in Seats : Seats # {w}
  <2>1. PICK S \in Tables : bought \in [S -> Stacks]
    BY DEF Init
  <2>2. Seats = S /\ \E p, q \in S : p # q
    BY <2>1, SeatsAssumption DEF Seats
  <2> QED
    BY <2>2
<1>3. PICK straddle \in Straddles :
        /\ currentBet = IF straddle > 0 THEN straddle ELSE BigBlind
        /\ lastFullRaiseSize = IF straddle > 0 THEN straddle - BigBlind ELSE BigBlind
  BY DEF Init
<1>4. currentBet >= BigBlind /\ lastFullRaiseSize <= currentBet
  <2>1. straddle = 0 \/ (straddle \in Nat /\ straddle >= 2 * BigBlind)
    OBVIOUS
  <2>2. BigBlind \in Nat
    OBVIOUS
  <2> QED
    BY <1>3, <2>1, <2>2
<1> QED
  BY <1>1, <1>2, <1>4

LEMMA InitStreet ==
  ASSUME Init PROVE StreetInv
<1>0. Inv /\ phase = "PREFLOP" /\ boardSize = 0 /\ CanAct \subseteq Seats
  BY InitKeeps DEF Init, CanAct, Live
<1>1. LevelKept
  <2>1. PICK ante \in Antes : \A p \in Seats : Carried(p) = AntePaid(bought[p], ante)
    BY InitCarried
  <2>2. ante \in Nat
    OBVIOUS
  <2> SUFFICES ASSUME NEW p \in CanAct, NEW q \in Seats PROVE Carried(p) >= Carried(q)
    BY DEF LevelKept
  <2>3. /\ bought[p] \in Nat /\ bought[q] \in Nat
        /\ stack[p] \in Nat /\ stack[p] # 0 /\ stack[p] + contributed[p] = bought[p]
        /\ contributed[p] \in Nat /\ Carried(p) <= contributed[p]
    BY <1>0, HandFacts, SeatFacts DEF CanAct, Inv, ChipsConserved, Carried
  <2>4. p \in Seats /\ Carried(p) \in Nat
    BY <1>0, HandFacts
  <2>5. Carried(p) = ante
    BY <2>1, <2>2, <2>3, <2>4 DEF AntePaid, Least
  <2>6. Carried(q) <= ante
    BY <2>1, <2>2, <2>3 DEF AntePaid, Least
  <2> QED
    BY <2>2, <2>5, <2>6, <1>0, HandFacts
<1>2. StreetOver
  <2>1. status = "BETTING" \/ status = RoundStatus
    BY DEF Init
  <2>2. status \in {"BETTING", "AWAITING_RUNOUT"} /\ (status = "AWAITING_RUNOUT" =>
           CanAct = {} \/ OneLeftMatched)
    BY <1>0, <2>1, InitBets DEF RoundStatus, RoundComplete, Init
  <2> QED
    BY <2>2, InitBets DEF StreetOver, OneLeftMatched
<1>3. BetsCovered
  BY <1>0, InitBets DEF BetsCovered
<1> QED
  BY <1>0, <1>1, <1>2, <1>3 DEF StreetInv, BoardOf

LEMMA NextKeepsStreet ==
  ASSUME Inv, StreetInv, [Next]_vars PROVE StreetInv'
<1>1. CASE UNCHANGED vars
  <2>1. Seats' = Seats /\ CanAct' = CanAct /\ Live' = Live
    BY <1>1 DEF vars, Seats, CanAct, Live, money
  <2>2. BoardOf(phase)' = BoardOf(phase)
    BY <1>1 DEF vars, BoardOf
  <2> QED
    BY <1>1, <2>1, <2>2 DEF vars, money, StreetInv, LevelKept, StreetOver, BetsCovered, Carried
<1> QED
  BY <1>1, NextKeeps, PlayMoves, MovesKeepStreet, DealKeepsStreet, RunoutKeepsStreet DEF Next

LEMMA InductiveStreet == Spec => [](Inv /\ StreetInv)
<1>1. Init => Inv /\ StreetInv
  BY InitKeeps, InitStreet
<1>2. Inv /\ StreetInv /\ [Next]_vars => (Inv /\ StreetInv)'
  BY NextKeeps, NextKeepsStreet
<1> QED
  BY <1>1, <1>2, PTL DEF Spec

LEMMA StreetEnds ==
  ASSUME Inv, StreetInv PROVE StreetsEndRight
<1>1. ASSUME status \in {"AWAITING_DEAL", "AWAITING_RUNOUT", "SHOWDOWN"},
             NEW p \in CanAct, NEW q \in Live
      PROVE  contributed[p] >= contributed[q]
  <2>1. p \in Seats /\ q \in Seats /\ streetContribution[p] = currentBet
    BY <1>1, HandFacts DEF StreetInv, StreetOver
  <2>2. Carried(p) >= Carried(q)
    BY <2>1 DEF StreetInv, LevelKept
  <2> QED
    BY <2>1, <2>2, HandFacts DEF Carried
<1>2. status = "SHOWDOWN" => boardSize = 5 /\ \A w \in Seats : Live # {w}
  BY DEF StreetInv, StreetOver, BoardOf
<1>3. status = "AWAITING_DEAL" => boardSize < 5 /\ \E p, q \in CanAct : p # q
  BY DEF StreetInv, StreetOver, BoardOf, Inv, Typed, Streets
<1> QED
  BY <1>1, <1>2, <1>3 DEF StreetsEndRight

----------------------------------------------------------------------------
(* Bets and raises *)

LEMMA SeatsFinite ==
  ASSUME Inv PROVE IsFiniteSet(Seats)
<1>1. \A a, b \in Int : IsFiniteSet(a..b)
  BY FS_Interval
<1>2. 0 \in Int /\ 8 \in Int
  OBVIOUS
<1>3. IsFiniteSet(0..8)
  BY <1>1, <1>2, Zenon
<1> QED
  BY <1>3, HandFacts, FS_Subset

LEMMA PotHoldsPart ==
  ASSUME Inv, NEW p \in Seats PROVE Pot \in Nat /\ Pot >= contributed[p]
<1>1. IsFiniteSet(Seats)
  BY SeatsFinite
<1>2. DOMAIN contributed = Seats /\ \A x \in Seats : contributed[x] \in Nat
  BY DEF Inv, Typed
<1>3. Pot = SumFunctionOnSet(contributed, Seats)
  BY <1>2 DEF Pot, SumFunction
<1>4. /\ Pot = contributed[p] + SumFunctionOnSet(contributed, Seats \ {p})
      /\ SumFunctionOnSet(contributed, Seats \ {p}) \in Nat
  <2>1. IsFiniteSet(Seats \ {p})
    BY <1>1, FS_Subset
  <2> QED
    BY <1>1, <1>2, <1>3, <2>1, SumRemove, SumNatural
<1> QED
  BY <1>2, <1>4

\* In pot-limit a player who may raise covers the minimum raise with its stack or with
\* the pot it is allowed to bet.
LEMMA RaiseFits ==
  ASSUME Inv, StreetInv, NEW p \in Seats, InTurn(p), CanIncrease(p)
  PROVE  \E to \in 1..AllInTarget(p) : LegalTarget(p, to)
<1>1. /\ p \in CanAct /\ p \notin acted
      /\ AllInTarget(p) > currentBet /\ MaximumTarget(p) > currentBet
  BY DEF InTurn, CanIncrease, Inv, NextActorExists, Pending
<1>2. /\ stack[p] \in Nat /\ streetContribution[p] \in Nat /\ contributed[p] \in Nat
      /\ streetContribution[p] <= contributed[p] /\ streetContribution[p] <= currentBet
      /\ currentBet \in Nat /\ lastFullRaiseSize \in Nat /\ AllInTarget(p) \in Nat
      /\ Pot \in Nat /\ Pot >= contributed[p] /\ BigBlind \in Nat
  BY HandFacts, PotHoldsPart DEF AllInTarget
<1>3. CASE MaximumTarget(p) = AllInTarget(p)
  <2>1. AllInTarget(p) \in 1..AllInTarget(p)
    BY <1>1, <1>2
  <2> QED
    BY <1>1, <1>2, <1>3, <2>1 DEF LegalTarget
<1>4. CASE MaximumTarget(p) # AllInTarget(p)
  <2>1. /\ MaximumTarget(p) = streetContribution[p] + 2 * CallAmount(p) + Pot
        /\ MaximumTarget(p) < AllInTarget(p)
    BY <1>2, <1>4 DEF MaximumTarget, Least, CallAmount, ToCall
  <2>2. CallAmount(p) = currentBet - streetContribution[p]
    BY <1>1, <1>2, <2>1 DEF CallAmount, ToCall, Least, AllInTarget
  <2>3. MaximumTarget(p) = currentBet + (currentBet - streetContribution[p]) + Pot
    BY <1>2, <2>1, <2>2
  <2>4. MinimumTarget(p) <= MaximumTarget(p)
    <3>1. lastFullRaiseSize <= currentBet \/ lastFullRaiseSize <= BigBlind
      BY DEF StreetInv, BetsCovered
    <3>2. contributed[p] >= BigBlind \/ currentBet >= BigBlind
      BY <1>1 DEF StreetInv, BetsCovered, CanAct
    <3> QED
      BY <1>2, <2>3, <3>1, <3>2 DEF MinimumTarget
  <2>5. MaximumTarget(p) \in 1..AllInTarget(p)
    BY <1>1, <1>2, <2>1, <2>3
  <2> QED
    BY <1>1, <1>2, <2>4, <2>5 DEF LegalTarget
<1> QED
  BY <1>3, <1>4

\* Only a full raise takes the seats that have acted off the list.
LEMMA ActedKept ==
  ASSUME Inv, StreetInv, Next, phase' = phase
  PROVE  /\ ~(acted \subseteq acted') => currentBet' >= currentBet + lastFullRaiseSize
         /\ actionSeat \in acted => currentBet' = currentBet
<1>1. ASSUME NEW p \in Seats, NEW to \in Int, InTurn(p), Increase(p, to)
      PROVE  /\ ~(acted \subseteq acted') => currentBet' >= currentBet + lastFullRaiseSize
             /\ actionSeat \notin acted
  <2>1. p \notin acted /\ actionSeat = p /\ currentBet' = to
    BY <1>1 DEF Increase, LegalTarget, InTurn
  <2>2. ASSUME FullRaise(to) PROVE currentBet' >= currentBet + lastFullRaiseSize
    <3>1. CASE currentBet = 0
      <4>1. lastFullRaiseSize <= BigBlind
        BY <3>1, HandFacts DEF StreetInv, BetsCovered
      <4> QED
        BY <2>1, <2>2, <3>1, <4>1, HandFacts DEF FullRaise
    <3>2. CASE currentBet # 0
      BY <2>1, <2>2, <3>2, HandFacts DEF FullRaise
    <3> QED
      BY <3>1, <3>2
  <2> QED
    BY <1>1, <2>1, <2>2 DEF Increase
<1>2. ASSUME NEW p \in Seats, Play(p) \/ Timeout(p)
      PROVE  /\ ~(acted \subseteq acted') => currentBet' >= currentBet + lastFullRaiseSize
             /\ actionSeat \in acted => currentBet' = currentBet
  <2>1. ASSUME Fold(p) \/ Check(p) \/ Timeout(p) \/ Call(p)
        PROVE  acted \subseteq acted' /\ currentBet' = currentBet
    BY <2>1 DEF Fold, Check, Timeout, Call, FoldHand, CheckHand, SameBet
  <2>2. CASE AllIn(p)
    <3>1. CASE AllInTarget(p) <= currentBet
      BY <2>2, <3>1 DEF AllIn, SameBet
    <3>2. CASE ~(AllInTarget(p) <= currentBet)
      <4>1. AllInTarget(p) \in Int
        BY HandFacts DEF AllInTarget
      <4> QED
        BY <1>1, <2>2, <3>2, <4>1 DEF AllIn
    <3> QED
      BY <3>1, <3>2
  <2>3. ASSUME NEW to \in 1..AllInTarget(p), Bet(p, to) \/ Raise(p, to)
        PROVE  /\ ~(acted \subseteq acted') => currentBet' >= currentBet + lastFullRaiseSize
               /\ actionSeat \in acted => currentBet' = currentBet
    BY <1>1, <2>3 DEF Bet, Raise
  <2> QED
    BY <1>2, <2>1, <2>2, <2>3 DEF Play
<1>3. ASSUME DealStreet PROVE FALSE
  <2>1. phase # "RIVER" /\ phase' = NextStreet(phase) /\ phase \in Streets
    BY <1>3 DEF DealStreet, StreetInv, StreetOver, Inv, Typed
  <2> QED
    BY SMTT(60), <2>1 DEF NextStreet, Streets
<1>4. ASSUME DealRemainingBoard PROVE acted' = acted /\ currentBet' = currentBet
  BY <1>4 DEF DealRemainingBoard
<1> QED
  BY <1>2, <1>3, <1>4 DEF Next

----------------------------------------------------------------------------
(* Who posts what *)

LEMMA NextSeatClockwise ==
  ASSUME NEW S, S \subseteq 0..8, S # {}, NEW a \in Int, NEW n, n = NextSeat(a, S)
  PROVE  /\ n \in S
         /\ \/ n > a /\ \A t \in S : t > a => n <= t
            \/ \A t \in S : t <= a /\ n <= t
<1> DEFINE higher == {s \in S : s > a}
<1>1. CASE higher # {}
  <2>1. n = Lowest(higher) /\ higher \subseteq 0..8
    BY <1>1 DEF NextSeat
  <2>2. n \in higher /\ \A t \in higher : n <= t
    BY <1>1, <2>1, LowestExists DEF Lowest
  <2> QED
    BY <2>2
<1>2. CASE higher = {}
  <2>1. n = Lowest(S)
    BY <1>2 DEF NextSeat
  <2>2. n \in S /\ \A t \in S : n <= t
    <3>1. \E s \in S : \A t \in S : s <= t
      BY LowestExists
    <3> QED
      BY <2>1, <3>1 DEF Lowest
  <2>3. \A t \in S : t <= a
    <3>1. \A t \in S : ~(t > a) /\ t \in Int
      BY <1>2
    <3> QED
      BY <3>1
  <2> QED
    BY <2>2, <2>3
<1> QED
  BY <1>1, <1>2

LEMMA NextSeatDiffers ==
  ASSUME NEW S, S \subseteq 0..8, NEW a \in S, NEW x \in S, x # a
  PROVE  NextSeat(a, S) # a
<1> DEFINE n == NextSeat(a, S)
<1>1. a \in Int /\ x \in Int /\ S # {}
  OBVIOUS
<1>2. \/ n > a /\ \A t \in S : t > a => n <= t
      \/ \A t \in S : t <= a /\ n <= t
  BY <1>1, NextSeatClockwise
<1> HIDE DEF n
<1>3. n > a \/ (x <= a /\ n <= x)
  BY <1>2
<1>4. n # a
  BY <1>1, <1>3
<1> QED
  BY <1>4 DEF n

LEMMA NextNextSeatDiffers ==
  ASSUME NEW S, S \subseteq 0..8, NEW a \in S, NEW b, b = NextSeat(a, S), NEW x \in S, x # a, x # b
  PROVE  NextSeat(b, S) # a
<1>1. a \in Int /\ x \in Int /\ S # {}
  OBVIOUS
<1>2. /\ b \in S
      /\ \/ b > a /\ \A t \in S : t > a => b <= t
         \/ \A t \in S : t <= a /\ b <= t
  BY <1>1, NextSeatClockwise
<1>3. b \in Int
  BY <1>2
<1> SUFFICES ASSUME a = NextSeat(b, S) PROVE FALSE
  OBVIOUS
<1>4. \/ a > b /\ \A t \in S : t > b => a <= t
      \/ \A t \in S : t <= b /\ a <= t
  BY <1>1, <1>3, NextSeatClockwise
<1>5. (b > a /\ (x > a => b <= x)) \/ (x <= a /\ b <= x)
  BY <1>2
<1>6. (a > b /\ (x > b => a <= x)) \/ (x <= b /\ a <= x)
  BY <1>4
<1> QED
  BY <1>1, <1>3, <1>5, <1>6

LEMMA BlindSeats ==
  ASSUME Inv
  PROVE  /\ SmallBlindSeat(button) \in Seats /\ BigBlindSeat(button) \in Seats
         /\ StraddleSeat(button) \in Seats
<1>1. \A b \in Seats : NextSeat(b, Seats) \in Seats
  BY SeatFacts, NextSeatIn DEF Inv
<1> QED
  BY <1>1, SeatFacts DEF Inv, SmallBlindSeat, BigBlindSeat, StraddleSeat

LEMMA StraddlesApart ==
  ASSUME Inv, \A w \in Seats : Seats # {w}
  PROVE  /\ StraddleSeat(button) # BigBlindSeat(button)
         /\ ~HeadsUp => StraddleSeat(button) # SmallBlindSeat(button)
<1>1. /\ Seats \subseteq 0..8 /\ BigBlindSeat(button) \in Seats /\ SmallBlindSeat(button) \in Seats
  BY SeatFacts, BlindSeats DEF Inv
<1>2. PICK x \in Seats : x # BigBlindSeat(button)
  BY <1>1
<1>3. StraddleSeat(button) # BigBlindSeat(button)
  BY <1>1, <1>2, NextSeatDiffers DEF StraddleSeat
<1>4. ASSUME ~HeadsUp PROVE StraddleSeat(button) # SmallBlindSeat(button)
  <2>1. PICK y \in Seats : y # SmallBlindSeat(button) /\ y # BigBlindSeat(button)
    <3> SUFFICES ASSUME \A y \in Seats : y = SmallBlindSeat(button) \/ y = BigBlindSeat(button)
                 PROVE  FALSE
      OBVIOUS
    <3>1. Seats = {SmallBlindSeat(button), BigBlindSeat(button)}
      BY <1>1
    <3> QED
      BY <1>1, <1>4, <3>1 DEF HeadsUp
  <2> QED
    BY <1>1, <2>1, NextNextSeatDiffers DEF StraddleSeat, BigBlindSeat
<1> QED
  BY <1>3, <1>4

----------------------------------------------------------------------------
(* Settling the hand *)

AntesCovered == \A ante \in Antes, chips \in Stacks : ante <= chips

\* Somebody in the hand is in for as much as anybody.
Stands ==
    \E q \in Live : /\ streetContribution[q] = currentBet
                    /\ \A r \in Seats : Carried(q) >= Carried(r)

\* Or nobody has met the big blind yet, which was posted short: one seat at most put
\* chips on the street that it may still fold.
Posts ==
    /\ \A q, r \in Seats : Carried(q) = Carried(r)
    /\ \E b \in Live : stack[b] = 0
    /\ \E s \in Seats : \A r \in Seats \ {s} :
          stack[r] # 0 \/ folded[r] => streetContribution[r] = 0

LEMMA InitPosts ==
  ASSUME AntesCovered, Init PROVE Stands \/ Posts
<1>1. PICK ante \in Antes, straddle \in Straddles :
        LET paid == [p \in Seats |-> AntePaid(bought[p], ante)]
            behind == [p \in Seats |-> bought[p] - paid[p]]
        IN  /\ straddle > 0 =>
                 ~HeadsUp /\ behind[StraddleSeat(button)] >= straddle
            /\ streetContribution = Posted(button, behind, straddle)
            /\ stack = [p \in Seats |-> behind[p] - streetContribution[p]]
            /\ contributed = [p \in Seats |-> paid[p] + streetContribution[p]]
            /\ currentBet = IF straddle > 0 THEN straddle ELSE BigBlind
            /\ lastFullRaiseSize = IF straddle > 0 THEN straddle - BigBlind ELSE BigBlind
  BY DEF Init
<1> DEFINE paid == [p \in Seats |-> AntePaid(bought[p], ante)]
           behind == [p \in Seats |-> bought[p] - paid[p]]
           sb == SmallBlindSeat(button)
           bb == BigBlindSeat(button)
           st == StraddleSeat(button)
<1>2. /\ Inv /\ Live = Seats /\ (\A p \in Seats : folded[p] = FALSE)
      /\ sb \in Seats /\ bb \in Seats /\ st \in Seats
      /\ st # bb /\ (~HeadsUp => st # sb)
  BY InitKeeps, InitBets, BlindSeats, StraddlesApart DEF Init
<1>3. \A q, r \in Seats : Carried(q) = Carried(r)
  <2>1. PICK a \in Antes : \A p \in Seats : Carried(p) = AntePaid(bought[p], a)
    BY InitCarried
  <2>2. \A p \in Seats : bought[p] \in Stacks
    <3>1. PICK S \in Tables : bought \in [S -> Stacks]
      BY DEF Init
    <3> QED
      BY <3>1 DEF Seats
  <2>3. a \in Nat /\ \A p \in Seats : bought[p] \in Nat /\ a <= bought[p]
    BY <2>2 DEF AntesCovered
  <2>4. \A p \in Seats : AntePaid(bought[p], a) = a
    BY <2>3 DEF AntePaid, Least
  <2> QED
    BY <2>1, <2>4
<1>4. \A q \in Seats : streetContribution[q] = currentBet => Stands
  BY <1>2, <1>3, HandFacts DEF Stands
<1>5. /\ \A p \in Seats : streetContribution[p] =
            CASE p = bb -> Least(behind[p], BigBlind)
              [] p = sb /\ p # bb -> Least(behind[p], SmallBlind)
              [] p = st /\ ~HeadsUp -> straddle
              [] OTHER -> 0
      /\ \A p \in Seats : stack[p] = behind[p] - streetContribution[p]
      /\ straddle > 0 => ~HeadsUp
      /\ currentBet = IF straddle > 0 THEN straddle ELSE BigBlind
  BY <1>1 DEF Posted
<1>6. straddle \in Nat
  OBVIOUS
<1>7. \A p \in Seats : stack[p] \in Nat /\ streetContribution[p] \in Nat
  BY <1>2, HandFacts
<1> HIDE DEF paid, behind, sb, bb, st
<1>8. CASE straddle > 0
  BY <1>2, <1>4, <1>5, <1>8
<1>9. CASE straddle = 0
  <2>1. streetContribution[bb] = Least(behind[bb], BigBlind) /\ currentBet = BigBlind
    BY <1>2, <1>5, <1>9
  <2>2. CASE streetContribution[bb] # BigBlind
    <3>1. streetContribution[bb] = behind[bb] /\ stack[bb] = behind[bb] - streetContribution[bb]
      BY <1>2, <1>5, <2>1, <2>2 DEF Least
    <3>2. stack[bb] = 0
      BY <1>2, <1>7, <3>1
    <3>3. \A r \in Seats \ {sb} : r # bb => streetContribution[r] = 0
      BY <1>2, <1>5, <1>9
    <3> QED
      BY <1>2, <1>3, <3>2, <3>3 DEF Posts
  <2> QED
    BY <1>2, <1>4, <2>1, <2>2
<1> QED
  BY <1>6, <1>8, <1>9

LEMMA MovesKeepPosts ==
  ASSUME Inv, Inv', StreetInv, Stands \/ Posts, NEW p \in Seats, Moves(p)
  PROVE  (Stands \/ Posts)'
<1>1. /\ Seats' = Seats /\ p \in CanAct /\ p \in Live /\ stack[p] # 0
      /\ \A q \in Seats : Carried(q)' = Carried(q)
      /\ \A q \in Seats : q # p => /\ stack'[q] = stack[q] /\ folded'[q] = folded[q]
                                   /\ streetContribution'[q] = streetContribution[q]
  BY SeatsSame DEF Moves, SameStreet, CanAct
<1>2. CASE streetContribution[p] < currentBet /\ UNCHANGED money /\ SameBet
  <2>1. CASE Stands
    <3>1. PICK q \in Live : /\ streetContribution[q] = currentBet
                            /\ \A r \in Seats : Carried(q) >= Carried(r)
      BY <2>1 DEF Stands
    <3>2. q # p /\ q \in Seats
      BY <1>2, <3>1, HandFacts
    <3>3. q \in Live'
      BY <1>1, <3>1, <3>2 DEF Live
    <3> QED
      BY <1>1, <1>2, <3>1, <3>2, <3>3 DEF Stands, SameBet
  <2>2. CASE Posts
    <3>1. PICK b \in Live : stack[b] = 0
      BY <2>2 DEF Posts
    <3>2. b # p /\ b \in Seats /\ b \in Live'
      BY <1>1, <3>1 DEF Live
    <3>3. stack' = stack /\ streetContribution' = streetContribution
      BY <1>2 DEF money
    <3>4. PICK s \in Seats : \A r \in Seats \ {s} :
             stack[r] # 0 \/ folded[r] => streetContribution[r] = 0
      BY <2>2 DEF Posts
    <3>5. \A r \in Seats \ {s} : stack'[r] # 0 \/ folded'[r] => streetContribution'[r] = 0
      BY <1>1, <3>3, <3>4
    <3> QED
      BY <1>1, <2>2, <3>1, <3>2, <3>3, <3>5 DEF Posts
  <2> QED
    BY <2>1, <2>2
<1>3. CASE folded' = folded /\ streetContribution'[p] = currentBet'
  <2>1. p \in Live'
    BY <1>1, <1>3 DEF Live
  <2>2. \A r \in Seats : Carried(p) >= Carried(r)
    BY <1>1 DEF StreetInv, LevelKept
  <2> QED
    BY <1>1, <1>3, <2>1, <2>2 DEF Stands
<1>4. CASE folded' = folded /\ stack'[p] = 0 /\ SameBet
  <2>0. Live' = Live
    BY <1>1, <1>4 DEF Live
  <2>1. CASE Stands
    <3>1. PICK q \in Live : /\ streetContribution[q] = currentBet
                            /\ \A r \in Seats : Carried(q) >= Carried(r)
      BY <2>1 DEF Stands
    <3>2. q \in Seats
      BY <3>1, HandFacts
    <3>3. streetContribution'[q] = currentBet'
      <4>1. streetContribution'[q] >= streetContribution[q]
        <5>1. /\ contributed'[q] >= contributed[q] /\ Carried(q)' = Carried(q)
              /\ contributed'[q] \in Nat /\ streetContribution'[q] \in Nat
          BY <1>1, <3>2 DEF Moves, Inv, Typed
        <5> QED
          BY <3>2, <5>1, HandFacts DEF Carried
      <4>2. /\ streetContribution'[q] <= currentBet' /\ streetContribution'[q] \in Nat
            /\ currentBet' = currentBet
        BY <1>1, <1>4, <3>2 DEF Inv, Typed, ChipsConserved, SameBet
      <4> QED
        BY <3>1, <3>2, <4>1, <4>2, HandFacts
    <3> QED
      BY <1>1, <2>0, <3>1, <3>2, <3>3 DEF Stands
  <2>2. CASE Posts
    <3>1. PICK s \in Seats : \A r \in Seats \ {s} :
             stack[r] # 0 \/ folded[r] => streetContribution[r] = 0
      BY <2>2 DEF Posts
    <3>2. folded'[p] = FALSE
      BY <1>1, <1>4 DEF Live, Inv, Typed
    <3>3. \A r \in Seats \ {s} : stack'[r] # 0 \/ folded'[r] => streetContribution'[r] = 0
      BY <1>1, <1>4, <3>1, <3>2
    <3> QED
      BY <1>1, <1>4, <2>0, <2>2, <3>3 DEF Posts
  <2> QED
    BY <2>1, <2>2
<1> QED
  BY <1>2, <1>3, <1>4 DEF Moves

LEMMA NextKeepsPosts ==
  ASSUME Inv, Inv', StreetInv, StreetInv', Stands \/ Posts, [Next]_vars PROVE (Stands \/ Posts)'
<1>1. ASSUME UNCHANGED <<money, currentBet, folded, bought>> PROVE (Stands \/ Posts)'
  <2>1. Seats' = Seats /\ Live' = Live
    BY <1>1 DEF Seats, Live
  <2>2. /\ streetContribution' = streetContribution /\ stack' = stack /\ currentBet' = currentBet
        /\ contributed' = contributed /\ folded' = folded
    BY <1>1 DEF money
  <2>3. \A q \in Seats : Carried(q)' = Carried(q)
    BY <2>2 DEF Carried
  <2>4. Stands => Stands'
    <3> SUFFICES ASSUME Stands PROVE Stands'
      OBVIOUS
    <3>1. PICK q \in Live : /\ streetContribution[q] = currentBet
                            /\ \A r \in Seats : Carried(q) >= Carried(r)
      BY DEF Stands
    <3> QED
      BY <2>1, <2>2, <2>3, <3>1 DEF Stands, Live
  <2>5. Posts => Posts'
    BY <2>1, <2>2, <2>3 DEF Posts
  <2> QED
    BY <2>4, <2>5
<1>2. CASE DealStreet
  <2>1. PICK x \in CanAct : TRUE
    BY <1>2 DEF DealStreet, StreetInv, StreetOver
  <2>2. x \in CanAct' /\ Seats' = Seats /\ streetContribution'[x] = currentBet' /\ x \in Live'
    <3>1. Seats' = Seats /\ UNCHANGED <<stack, folded>>
      BY <1>2, SeatsSame DEF DealStreet
    <3> QED
      BY <1>2, <2>1, <3>1 DEF DealStreet, CanAct, Live
  <2>3. \A r \in Seats' : Carried(x)' >= Carried(r)'
    BY <2>2 DEF StreetInv, LevelKept
  <2> QED
    BY <2>2, <2>3 DEF Stands
<1>3. CASE DealRemainingBoard
  BY <1>1, <1>3 DEF DealRemainingBoard
<1>4. CASE UNCHANGED vars
  BY <1>1, <1>4 DEF vars
<1> QED
  BY <1>2, <1>3, <1>4, PlayMoves, MovesKeepPosts DEF Next

LEMMA InductivePosts == Spec => [](AntesCovered => Stands \/ Posts)
<1>1. Init => (AntesCovered => Stands \/ Posts)
  BY InitPosts
<1>2. /\ Inv /\ StreetInv /\ (Inv /\ StreetInv)' /\ [Next]_vars
      /\ (AntesCovered => Stands \/ Posts)
      => (AntesCovered => Stands \/ Posts)'
  BY NextKeepsPosts DEF AntesCovered
<1> QED
  BY <1>1, <1>2, InductiveStreet, PTL DEF Spec

LEMMA PotsBuildable ==
  ASSUME Inv, Stands \/ Posts PROVE P!Buildable(contributed, folded)
<1>1. DOMAIN contributed = Seats /\ IsFiniteSet(Seats)
  BY SeatsFinite DEF Inv, Typed
<1> SUFFICES ASSUME NEW l \in P!PotLevels(contributed)
             PROVE  \E p \in P!Participants(contributed, l) : ~folded[p]
  BY DEF P!Buildable
<1>2. P!Participants(contributed, l) = {p \in Seats : contributed[p] >= l}
  BY <1>1 DEF P!Participants
<1> DEFINE In == {p \in Seats : contributed[p] >= l}
<1>3. Cardinality(In) > 1
  <2>1. \A S : P!Cardinality(S) = Cardinality(S)
    BY DEF P!Cardinality, Cardinality
  <2> QED
    BY <1>2, <2>1 DEF P!PotLevels
<1>4. \A s : \E r \in In : r # s
  <2> SUFFICES ASSUME NEW s, \A r \in In : r = s PROVE FALSE
    OBVIOUS
  <2>1. In \subseteq {s} /\ IsFiniteSet({s}) /\ Cardinality({s}) = 1
    BY FS_Singleton
  <2>2. Cardinality(In) \in Nat /\ Cardinality(In) <= 1
    <3> HIDE DEF In
    <3>1. Cardinality(In) <= Cardinality({s}) /\ IsFiniteSet(In)
      BY <2>1, FS_Subset
    <3> QED
      BY <2>1, <3>1, FS_CardinalityType
  <2> QED
    BY <1>3, <2>2
<1>5. l \in Nat
  BY <1>1, HandFacts DEF P!PotLevels, P!Levels
<1>6. CASE Stands
  <2>1. PICK q \in Live : /\ streetContribution[q] = currentBet
                          /\ \A r \in Seats : Carried(q) >= Carried(r)
    BY <1>6 DEF Stands
  <2>2. PICK r \in In : TRUE
    BY <1>4
  <2>3. contributed[q] >= contributed[r] /\ q \in Seats
    BY <2>1, <2>2, HandFacts DEF Carried
  <2>4. q \in In /\ ~folded[q]
    BY <1>5, <2>1, <2>2, <2>3, HandFacts DEF Live
  <2> QED
    BY <1>2, <2>4
<1>7. CASE Posts
  <2>1. PICK s \in Seats : \A r \in Seats \ {s} :
           stack[r] # 0 \/ folded[r] => streetContribution[r] = 0
    BY <1>7 DEF Posts
  <2>2. PICK r \in In : r # s
    BY <1>4
  <2>3. PICK b \in Live : stack[b] = 0
    BY <1>7 DEF Posts
  <2>4. CASE folded[r]
    <3>1. contributed[r] = Carried(r)
      BY <2>1, <2>2, <2>4, HandFacts DEF Carried
    <3>2. b \in Seats /\ Carried(b) = Carried(r)
      BY <1>7, <2>2, <2>3, HandFacts DEF Posts
    <3>3. contributed[b] >= Carried(b)
      BY <3>2, HandFacts DEF Carried
    <3>4. b \in In /\ ~folded[b]
      BY <1>5, <2>2, <2>3, <3>1, <3>2, <3>3, HandFacts DEF Live
    <3> QED
      BY <1>2, <3>4
  <2> QED
    BY <1>2, <2>2, <2>4
<1> QED
  BY <1>6, <1>7
----------------------------------------------------------------------------

\* The engine's state keeps its types at every table.
THEOREM TypeCorrect == Spec => []TypeOK
BY InductiveInv, TypesSplit, PTL DEF Inv

\* Every chip a player brought is behind it or in the pot, through every
\* sequence of forced bets, calls, raises, all-ins, folds and timeouts.
THEOREM Conservation == Spec => []ChipsConserved
BY InductiveInv, PTL DEF Inv

\* "Betting round has no valid next actor" is never thrown.
THEOREM NextActor == Spec => []NextActorExists
BY InductiveInv, PTL DEF Inv

\* A street ends level among the players who can still bet, a showdown has its five
\* cards and two players, and cards are waited for only while they are missing.
THEOREM StreetsEnd == Spec => []StreetsEndRight
BY InductiveStreet, StreetEnds, PTL

\* The player who is offered a bet or a raise has an amount it may bet or raise to.
THEOREM IncreasePossible == Spec => []IncreaseIsPossible
<1>1. Inv /\ StreetInv => IncreaseIsPossible
  BY RaiseFits DEF IncreaseIsPossible
<1> QED
  BY <1>1, InductiveStreet, PTL

\* Within a street only a full raise gives those who have acted the right to raise again.
THEOREM NoReopening == Spec => ShortAllInDoesNotReopen
<1>1. Inv /\ StreetInv /\ [Next]_vars =>
        [phase' = phase =>
            /\ ~(acted \subseteq acted') => currentBet' >= currentBet + lastFullRaiseSize
            /\ actionSeat \in acted => currentBet' = currentBet]_vars
  BY ActedKept
<1> QED
  BY <1>1, InductiveStreet, PTL DEF Spec, ShortAllInDoesNotReopen

\* When every stack covers the ante, a finished hand can be settled: no pot that two
\* players or more paid into is left to players who all folded.  Without the condition
\* the statement is false: see the run betting_ante.
THEOREM Settles ==
  ASSUME \A ante \in Antes, chips \in Stacks : ante <= chips
  PROVE  Spec => []HandSettles
<1>1. AntesCovered
  BY DEF AntesCovered
<1>2. Inv /\ (AntesCovered => Stands \/ Posts) => HandSettles
  BY <1>1, PotsBuildable DEF HandSettles
<1> QED
  BY <1>2, InductiveInv, InductivePosts, PTL
============================================================================
