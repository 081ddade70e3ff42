---------------------------- MODULE Turns_proofs ----------------------------
(***************************************************************************)
(* The clock of a turn, for any number of players and workers, any action  *)
(* clock, time bank and lease, and however often workers crash: its types, *)
(* the row that follows the turn, the time banks, and what a delayed       *)
(* worker may do.                                                          *)
(***************************************************************************)
EXTENDS Turns, TLAPS

USE TimesAssumption, BoundsAssumption, NullsAssumption

\* A starting replica that still quotes the current version read the current
\* turn: this is why writing its row back cannot hide a newer turn.
RecoveryIsCurrent ==
    recovery # NotRecovering =>
        /\ recovery.version <= version
        /\ recovery.version = version =>
              IF turn = NoTurn THEN recovery.row = NoRow
              ELSE /\ recovery.row # NoRow
                   /\ recovery.row.hand = hand /\ recovery.row.version = bettingVersion
                   /\ recovery.row.player = turn.player /\ recovery.row.left = turn.left

\* What is left of the bank of a player, the tick of its turn included.
Remaining(p) ==
    IF turn # NoTurn /\ turn.player = p /\ turn.left < seatBank[p]
    THEN IF turn.left < 0 THEN 0 ELSE turn.left
    ELSE seatBank[p]

\* The two places that hold the bank agree during a hand, and every tick of
\* the bank is either left or was spent.
BanksAgree ==
    /\ handStatus # "NONE" => handBank = seatBank
    /\ \A p \in Players : spent[p] + Remaining(p) = TimeBank

\* A worker that quotes the current version leased the turn in progress.
LeaseIsCurrent ==
    \A w \in Workers :
        worker[w].pc = "loaded" =>
            /\ worker[w].expected <= version
            /\ worker[w].expected = version =>
                  /\ turn # NoTurn /\ turn.player = worker[w].player
                  /\ hand = worker[w].hand /\ bettingVersion = worker[w].version

Inv == TypeOK /\ RowIsTurn /\ RecoveryIsCurrent /\ BanksAgree /\ LeaseIsCurrent

----------------------------------------------------------------------------
(* The helpers *)

\* The time a bank keeps after an overtime is never negative.
LEMMA MaxZero ==
  ASSUME NEW a \in Int PROVE Max({0, a}) = IF a >= 0 THEN a ELSE 0
<1> DEFINE m == IF a >= 0 THEN a ELSE 0
<1>1. m \in {0, a} /\ \A y \in {0, a} : m >= y
  OBVIOUS
<1>2. \A x \in {0, a} : (\A y \in {0, a} : x >= y) => x = m
  OBVIOUS
<1> QED
  BY <1>1, <1>2 DEF Max

Banks == [Players -> 0..TimeBank]

\* What a hand waits for next: a turn starts with the whole clock.
LEMMA WaitsFor ==
  ASSUME NEW bank \in Banks, NEW wait \in Waits(bank)
  PROVE  /\ wait.status \in {"OVER", "DEALING", "BETTING"}
         /\ wait.turn \in Turn \cup {NoTurn}
         /\ wait.turn # NoTurn <=> wait.status = "BETTING"
         /\ wait.turn # NoTurn =>
               /\ wait.turn.player \in Players
               /\ wait.turn.left = ActionClock + bank[wait.turn.player]
<1>1. CASE wait = [status |-> "OVER", turn |-> NoTurn]
  BY <1>1
<1>2. CASE wait = [status |-> "DEALING", turn |-> NoTurn]
  BY <1>2
<1>3. ASSUME NEW p \in Players, wait = [status |-> "BETTING", turn |-> TurnFor(p, bank)]
      PROVE  wait.turn \in Turn /\ wait.turn.player = p
             /\ wait.turn.left = ActionClock + bank[p]
             /\ wait.status = "BETTING"
  BY <1>3 DEF TurnFor, Turn, Banks
<1> QED
  BY <1>1, <1>2, <1>3 DEF Waits

\* A transaction leaves the row of the turn it leaves.
LEMMA CommitKeeps ==
  ASSUME Inv, NEW h \in Nat, NEW v \in Nat, NEW wait,
         wait.status \in {"NONE", "OVER", "DEALING", "BETTING"},
         wait.turn \in Turn \cup {NoTurn},
         wait.turn # NoTurn <=> wait.status = "BETTING",
         Commit(h, v, wait)
  PROVE  /\ version' \in Nat /\ hand' \in Nat /\ bettingVersion' \in Nat
         /\ version' = version + 1
         /\ handStatus' = wait.status /\ turn' = wait.turn
         /\ row' \in Row \cup {NoRow}
         /\ RowIsTurn'
<1> USE DEF Inv, TypeOK, Commit, RowFor, RowIsTurn
<1>1. CASE wait.turn = NoTurn
  BY <1>1
<1>2. CASE wait.turn # NoTurn
  <2>1. wait.turn \in Turn
    BY <1>2
  <2>2. row' = [hand |-> h, version |-> v, player |-> wait.turn.player,
                left |-> wait.turn.left, owner |-> NoOwner, lease |-> 0]
    BY <1>2
  <2>3. row' \in Row
    BY <2>1, <2>2 DEF Row, Turn
  <2> QED
    BY <1>2, <2>2, <2>3
<1> QED
  BY <1>1, <1>2

\* A new version makes what was read before it harmless.
LEMMA NewVersion ==
  ASSUME Inv, version' = version + 1, UNCHANGED recovery,
         \A w \in Workers : worker'[w] = worker[w] \/ worker'[w] = Idle
  PROVE  RecoveryIsCurrent' /\ LeaseIsCurrent'
<1>1. RecoveryIsCurrent'
  BY DEF Inv, TypeOK, RecoveryIsCurrent, Recovery
<1>2. ASSUME NEW w \in Workers, worker'[w].pc = "loaded"
      PROVE  worker'[w].expected < version'
  <2>1. worker'[w] = worker[w]
    BY <1>2 DEF Idle
  <2>2. worker[w].expected \in Nat /\ worker[w].expected <= version
    BY <1>2, <2>1 DEF Inv, TypeOK, LeaseIsCurrent, Idle, Claimed, Loaded
  <2> QED
    BY <2>1, <2>2 DEF Inv, TypeOK
<1>3. version' \in Nat /\ \A w \in Workers : worker'[w].pc = "loaded" => worker'[w].expected \in Nat
  BY DEF Inv, TypeOK, Idle, Claimed, Loaded
<1> QED
  BY <1>1, <1>2, <1>3 DEF LeaseIsCurrent

\* A turn that begins with the whole clock leaves the whole bank.
LEMMA FreshTurn ==
  ASSUME turn' \in Turn \cup {NoTurn}, seatBank' \in Banks,
         turn' # NoTurn => turn'.left = ActionClock + seatBank'[turn'.player],
         NEW p \in Players
  PROVE  Remaining(p)' = seatBank'[p]
<1>1. CASE turn' = NoTurn
  BY <1>1 DEF Remaining
<1>2. CASE turn' # NoTurn /\ turn'.player = p
  <2>1. turn'.left = ActionClock + seatBank'[p] /\ seatBank'[p] \in Nat
    BY <1>2 DEF Banks
  <2>2. ~(turn'.left < seatBank'[p])
    BY <2>1
  <2> QED
    BY <2>2 DEF Remaining
<1>3. CASE turn' # NoTurn /\ turn'.player # p
  BY <1>3 DEF Remaining
<1> QED
  BY <1>1, <1>2, <1>3

----------------------------------------------------------------------------
(* The commands *)

\* Every command that moves the hand on, from the banks it leaves.
LEMMA CommandKeeps ==
  ASSUME Inv, NEW h \in Nat, NEW v \in Nat,
         handBank' \in Banks, seatBank' = handBank',
         NEW wait \in Waits(handBank'), Commit(h, v, wait),
         \A p \in Players : spent[p] + handBank'[p] = TimeBank,
         UNCHANGED <<spent, recovery, crashes>>,
         worker' \in [Workers -> {Idle} \cup Claimed \cup Loaded],
         \A w \in Workers : worker'[w] = worker[w] \/ worker'[w] = Idle
  PROVE  Inv'
<1>1. /\ wait.status \in {"OVER", "DEALING", "BETTING"}
      /\ wait.turn \in Turn \cup {NoTurn}
      /\ wait.turn # NoTurn <=> wait.status = "BETTING"
      /\ wait.turn # NoTurn =>
            wait.turn.player \in Players
            /\ wait.turn.left = ActionClock + handBank'[wait.turn.player]
  BY WaitsFor
<1>2. /\ version' \in Nat /\ hand' \in Nat /\ bettingVersion' \in Nat
      /\ version' = version + 1
      /\ handStatus' = wait.status /\ turn' = wait.turn
      /\ row' \in Row \cup {NoRow}
      /\ RowIsTurn'
  BY <1>1, CommitKeeps
<1>3. TypeOK'
  BY <1>1, <1>2 DEF Inv, TypeOK, Banks
<1>4. RecoveryIsCurrent' /\ LeaseIsCurrent'
  BY <1>2, NewVersion
<1>5. \A p \in Players : Remaining(p)' = seatBank'[p]
  BY <1>1, <1>2, FreshTurn
<1>6. BanksAgree'
  BY <1>5 DEF BanksAgree
<1> QED
  BY <1>2, <1>3, <1>4, <1>6 DEF Inv

\* No player is on its bank when nobody is to act.
LEMMA NobodyActs ==
  ASSUME Inv, turn = NoTurn
  PROVE  \A p \in Players : spent[p] + seatBank[p] = TimeBank
BY DEF Inv, BanksAgree, Remaining

LEMMA StartHandKeeps == Inv /\ StartHand => Inv'
<1> SUFFICES ASSUME Inv, StartHand PROVE Inv'
  OBVIOUS
<1> USE DEF Inv, TypeOK
<1>1. PICK wait \in Waits(handBank') : Commit(hand + 1, 0, wait)
  BY DEF StartHand
<1>2. handBank' = seatBank /\ seatBank' = seatBank /\ turn = NoTurn
  BY DEF StartHand, HandBanks
<1>3. \A p \in Players : spent[p] + handBank'[p] = TimeBank
  BY <1>2, NobodyActs
<1>4. handBank' \in Banks /\ hand + 1 \in Nat
  BY <1>2 DEF Banks
<1>5. UNCHANGED <<spent, worker, recovery, crashes>>
  BY DEF StartHand
<1> QED
  BY <1>1, <1>2, <1>3, <1>4, <1>5, CommandKeeps

LEMMA ActKeeps == ASSUME NEW p \in Players PROVE Inv /\ Act(p) => Inv'
<1> SUFFICES ASSUME Inv, Act(p) PROVE Inv'
  OBVIOUS
<1> USE DEF Inv, TypeOK
<1>1. PICK wait \in Waits(handBank') : Commit(hand, bettingVersion + 1, wait)
  BY DEF Act
<1>2. /\ turn \in Turn /\ turn.player = p /\ turn.left \in Nat
      /\ handBank = seatBank
  BY DEF Act, BanksAgree, Turn
<1>3. handBank' = [handBank EXCEPT ![p] = Max({0, handBank[p] - Overtime(p)})]
      /\ seatBank' = handBank'
  BY DEF Act, SetBank
<1>4. handBank[p] \in 0..TimeBank /\ turn.left \in Int
  BY <1>2
<1>5. Max({0, handBank[p] - Overtime(p)}) = Remaining(p)
      /\ Remaining(p) \in 0..TimeBank
  <2>1. CASE turn.left < handBank[p]
    <3>1. handBank[p] - Overtime(p) = turn.left
      BY <1>2, <1>4, <2>1 DEF Overtime
    <3>2. Remaining(p) = turn.left
      BY <1>2, <2>1 DEF Remaining
    <3> QED
      BY <1>2, <1>4, <2>1, <3>1, <3>2, MaxZero
  <2>2. CASE ~(turn.left < handBank[p])
    <3>1. handBank[p] - Overtime(p) = handBank[p]
      BY <1>4, <2>2 DEF Overtime
    <3>2. Remaining(p) = handBank[p]
      BY <1>2, <2>2 DEF Remaining
    <3> QED
      BY <1>4, <3>1, <3>2, MaxZero
  <2> QED
    BY <2>1, <2>2
<1>6. handBank' \in Banks
  BY <1>3, <1>5 DEF Banks
<1>7. \A q \in Players : handBank'[q] = Remaining(q)
  BY <1>2, <1>3, <1>5 DEF Remaining
<1>8. \A q \in Players : spent[q] + handBank'[q] = TimeBank
  BY <1>7 DEF BanksAgree
<1>9. UNCHANGED <<spent, worker, recovery, crashes>> /\ bettingVersion + 1 \in Nat
  BY DEF Act
<1> QED
  BY <1>1, <1>3, <1>6, <1>8, <1>9, CommandKeeps

LEMMA DealKeeps == Inv /\ Deal => Inv'
<1> SUFFICES ASSUME Inv, Deal PROVE Inv'
  OBVIOUS
<1> USE DEF Inv, TypeOK
<1>1. PICK wait \in Waits(handBank) : Commit(hand, bettingVersion + 1, wait)
  BY DEF Deal
<1>2. /\ turn = NoTurn /\ handBank = seatBank
      /\ handBank' = handBank /\ seatBank' = seatBank
  BY DEF Deal, banks, BanksAgree
<1>3. \A p \in Players : spent[p] + handBank'[p] = TimeBank
  BY <1>2, NobodyActs
<1>4. handBank' \in Banks /\ bettingVersion + 1 \in Nat
  BY <1>2 DEF Banks
<1>5. UNCHANGED <<spent, worker, recovery, crashes>>
  BY DEF Deal
<1> QED
  BY <1>1, <1>2, <1>3, <1>4, <1>5, CommandKeeps

LEMMA FinishHandKeeps == Inv /\ FinishHand => Inv'
<1> SUFFICES ASSUME Inv, FinishHand PROVE Inv'
  OBVIOUS
<1> USE DEF Inv, TypeOK
<1> DEFINE none == [status |-> "NONE", turn |-> NoTurn]
<1>1. /\ turn = NoTurn /\ Commit(hand, 0, none)
      /\ handBank' = NoBanks /\ seatBank' = seatBank
      /\ UNCHANGED <<spent, worker, recovery, crashes>>
  BY DEF FinishHand
<1>2. /\ version' \in Nat /\ hand' \in Nat /\ bettingVersion' \in Nat
      /\ version' = version + 1
      /\ handStatus' = "NONE" /\ turn' = NoTurn
      /\ row' \in Row \cup {NoRow}
      /\ RowIsTurn'
  BY <1>1, CommitKeeps, none.status = "NONE", none.turn = NoTurn
<1>3. TypeOK'
  BY <1>1, <1>2 DEF NoBanks
<1>4. RecoveryIsCurrent' /\ LeaseIsCurrent'
  BY <1>1, <1>2, NewVersion
<1>5. BanksAgree'
  BY <1>1, <1>2, NobodyActs DEF BanksAgree, Remaining
<1> QED
  BY <1>2, <1>3, <1>4, <1>5

LEMMA TimeoutKeeps == ASSUME NEW w \in Workers PROVE Inv /\ Timeout(w) => Inv'
<1> SUFFICES ASSUME Inv, Timeout(w) PROVE Inv'
  OBVIOUS
<1> USE DEF Inv, TypeOK
<1>1. PICK wait \in Waits(handBank') : Commit(hand, bettingVersion + 1, wait)
  BY DEF Timeout
<1>2. /\ turn \in Turn /\ turn.left <= 0 /\ turn.left \in Int
      /\ turn.player \in Players /\ handBank = seatBank
  BY DEF Timeout, MayTimeOut, BanksAgree, Turn
<1>3. handBank' = [handBank EXCEPT ![turn.player] = 0] /\ seatBank' = handBank'
  BY DEF Timeout, SetBank
<1>4. handBank' \in Banks
  <2>1. 0 \in 0..TimeBank
    OBVIOUS
  <2> QED
    BY <1>3, <2>1 DEF Banks
<1>5. \A p \in Players : handBank'[p] = Remaining(p)
  BY <1>2, <1>3 DEF Remaining
<1>6. \A p \in Players : spent[p] + handBank'[p] = TimeBank
  BY <1>5 DEF BanksAgree
<1>7. /\ UNCHANGED <<spent, recovery, crashes>> /\ bettingVersion + 1 \in Nat
      /\ worker' = [worker EXCEPT ![w] = Idle]
  BY DEF Timeout
<1> QED
  BY <1>1, <1>3, <1>4, <1>6, <1>7, CommandKeeps

LEMMA OtherCommandKeeps == Inv /\ OtherCommand => Inv'
<1> SUFFICES ASSUME Inv, OtherCommand PROVE Inv'
  OBVIOUS
<1>1. RecoveryIsCurrent' /\ LeaseIsCurrent'
  BY NewVersion DEF OtherCommand
<1>2. TypeOK' /\ RowIsTurn' /\ BanksAgree'
  BY DEF Inv, TypeOK, OtherCommand, RowIsTurn, BanksAgree, Remaining, banks
<1> QED
  BY <1>1, <1>2 DEF Inv

LEMMA AgedRow ==
  ASSUME NEW r \in Row \cup {NoRow}
  PROVE  /\ Aged(r) \in Row \cup {NoRow}
         /\ r = NoRow <=> Aged(r) = NoRow
         /\ r # NoRow => /\ Aged(r).hand = r.hand /\ Aged(r).version = r.version
                         /\ Aged(r).player = r.player
                         /\ Aged(r).left = IF r.left >= 0 THEN r.left - 1 ELSE r.left
<1>1. CASE r = NoRow
  BY <1>1 DEF Aged
<1>2. CASE r \in Row /\ r # NoRow
  <2> DEFINE left == IF r.left >= 0 THEN r.left - 1 ELSE r.left
             lease == IF r.lease > 0 THEN r.lease - 1 ELSE r.lease
  <2>1. Aged(r) = [hand |-> r.hand, version |-> r.version, player |-> r.player,
                   left |-> left, owner |-> r.owner, lease |-> lease]
    BY <1>2 DEF Aged, Row
  <2>2. left \in -1..(ActionClock + TimeBank) /\ lease \in 0..LeaseTime
    BY <1>2 DEF Row
  <2>3. Aged(r) \in Row
    BY <1>2, <2>1, <2>2 DEF Row
  <2> QED
    BY <1>2, <2>1, <2>3
<1> QED
  BY <1>1, <1>2

LEMMA TickKeeps == Inv /\ Tick => Inv'
<1> SUFFICES ASSUME Inv, Tick PROVE Inv'
  OBVIOUS
<1> USE DEF Inv, TypeOK, banks
<1>1. /\ UNCHANGED <<version, hand, handStatus, bettingVersion, seatBank, handBank, worker, crashes>>
      /\ row' = Aged(row)
      /\ recovery' = IF recovery = NotRecovering THEN recovery
                     ELSE [recovery EXCEPT !.row = Aged(@)]
  BY DEF Tick
<1>2. /\ turn' \in Turn \cup {NoTurn}
      /\ turn' = NoTurn <=> turn = NoTurn
      /\ turn # NoTurn => /\ turn'.player = turn.player
                          /\ turn'.left = IF turn.left >= 0 THEN turn.left - 1 ELSE turn.left
  <2>1. CASE turn = NoTurn
    BY <2>1 DEF Tick
  <2>2. CASE turn # NoTurn /\ turn.left >= 0
    <3>1. turn' = [turn EXCEPT !.left = @ - 1] /\ turn \in Turn
      BY <2>2 DEF Tick
    <3>2. turn' \in Turn /\ turn'.player = turn.player /\ turn'.left = turn.left - 1
      BY <2>2, <3>1 DEF Turn
    <3> QED
      BY <2>2, <3>2
  <2>3. CASE turn # NoTurn /\ ~(turn.left >= 0)
    BY <2>3 DEF Tick
  <2> QED
    BY <2>1, <2>2, <2>3
<1>3. RowIsTurn'
  BY <1>1, <1>2, AgedRow DEF RowIsTurn
<1>4. row' \in Row \cup {NoRow}
  BY <1>1, AgedRow
<1>5. recovery' \in Recovery \cup {NotRecovering} /\ RecoveryIsCurrent'
  <2>1. CASE recovery = NotRecovering
    BY <1>1, <2>1 DEF RecoveryIsCurrent
  <2>2. CASE recovery # NotRecovering
    <3>1. recovery \in Recovery /\ recovery.row \in Row \cup {NoRow}
      BY <2>2 DEF Recovery
    <3>2. /\ recovery' \in Recovery
          /\ recovery'.version = recovery.version
          /\ recovery'.row = Aged(recovery.row)
      BY <1>1, <2>2, <3>1, AgedRow DEF Recovery
    <3> QED
      BY <1>1, <1>2, <2>2, <3>1, <3>2, AgedRow DEF RecoveryIsCurrent
  <2> QED
    BY <2>1, <2>2
<1>6. spent' \in [Players -> Nat] /\ \A p \in Players : spent'[p] + Remaining(p)' = TimeBank
  <2>1. CASE turn # NoTurn /\ turn.left \in 1..handBank[turn.player]
    <3>1. /\ spent' = [spent EXCEPT ![turn.player] = @ + 1]
          /\ turn \in Turn /\ turn.player \in Players /\ turn.left \in Nat
          /\ handBank = seatBank
      BY <2>1 DEF Tick, BanksAgree, Turn
    <3>2. ASSUME NEW p \in Players, p = turn.player
          PROVE  Remaining(p)' = Remaining(p) - 1
      BY <1>1, <1>2, <2>1, <3>1, <3>2 DEF Remaining
    <3>3. ASSUME NEW p \in Players, p # turn.player
          PROVE  Remaining(p)' = Remaining(p)
      BY <1>1, <1>2, <2>1, <3>3 DEF Remaining
    <3>4. \A p \in Players : Remaining(p) \in Int
      BY <3>1 DEF Remaining
    <3> QED
      BY <3>1, <3>2, <3>3, <3>4 DEF BanksAgree
  <2>2. CASE turn # NoTurn /\ ~(turn.left \in 1..handBank[turn.player])
    <3>1. /\ spent' = spent /\ handBank = seatBank
          /\ turn \in Turn /\ turn.player \in Players /\ turn.left \in -1..(ActionClock + TimeBank)
      BY <2>2 DEF Tick, BanksAgree, Turn
    <3>2. turn.left <= 0 \/ turn.left > seatBank[turn.player]
      BY <2>2, <3>1
    <3>3. \A p \in Players : Remaining(p)' = Remaining(p)
      BY <1>1, <1>2, <2>2, <3>1, <3>2 DEF Remaining
    <3> QED
      BY <3>1, <3>3 DEF BanksAgree
  <2>3. CASE turn = NoTurn
    BY <1>1, <1>2, <2>3 DEF Tick, BanksAgree, Remaining
  <2> QED
    BY <2>1, <2>2, <2>3
<1>7. BanksAgree'
  BY <1>1, <1>6 DEF BanksAgree
<1>8. LeaseIsCurrent'
  BY <1>1, <1>2 DEF LeaseIsCurrent
<1>9. TypeOK'
  BY <1>1, <1>2, <1>4, <1>5, <1>6
<1> QED
  BY <1>3, <1>5, <1>7, <1>8, <1>9

----------------------------------------------------------------------------
(* The workers and the recovery *)

LEMMA ClaimKeeps == ASSUME NEW w \in Workers PROVE Inv /\ Claim(w) => Inv'
<1> SUFFICES ASSUME Inv, Claim(w) PROVE Inv'
  OBVIOUS
<1> USE DEF Inv, TypeOK, Claim, game, banks
<1>1. row \in Row /\ row' = [row EXCEPT !.owner = w, !.lease = LeaseTime]
  BY DEF Claimable
<1>2. row' \in Row /\ row' # NoRow
      /\ row'.hand = row.hand /\ row'.version = row.version
      /\ row'.player = row.player /\ row'.left = row.left
  <2>1. row' = [hand |-> row.hand, version |-> row.version, player |-> row.player,
                left |-> row.left, owner |-> w, lease |-> LeaseTime]
    BY <1>1 DEF Row
  <2>2. row' \in Row
    BY <1>1, <2>1 DEF Row
  <2> QED
    BY <2>1, <2>2
<1>3. RowIsTurn'
  BY <1>1, <1>2 DEF RowIsTurn
<1> DEFINE claim == [pc |-> "claimed", hand |-> row.hand, version |-> row.version,
                     player |-> row.player]
<1>4. claim \in Claimed /\ claim.pc = "claimed"
  BY <1>1 DEF Claimed, Row
<1>5. worker' = [worker EXCEPT ![w] = claim]
  OBVIOUS
<1> HIDE DEF claim
<1>6. worker' \in [Workers -> {Idle} \cup Claimed \cup Loaded] /\ LeaseIsCurrent'
  BY <1>4, <1>5 DEF LeaseIsCurrent
<1>7. TypeOK' /\ RecoveryIsCurrent' /\ BanksAgree'
  BY <1>2, <1>6 DEF RecoveryIsCurrent, BanksAgree, Remaining
<1> QED
  BY <1>3, <1>6, <1>7

LEMMA LoadKeeps == ASSUME NEW w \in Workers PROVE Inv /\ Load(w) => Inv'
<1> SUFFICES ASSUME Inv, Load(w) PROVE Inv'
  OBVIOUS
<1> USE DEF Inv, TypeOK, Load, game, banks
<1> DEFINE mine == worker[w]
<1>1. mine \in Claimed
  BY DEF Idle, Loaded
<1> DEFINE load == [pc |-> "loaded", hand |-> mine.hand, version |-> mine.version,
                    player |-> mine.player, expected |-> version]
<1>2. CASE turn # NoTurn /\ turn.player = mine.player
           /\ hand = mine.hand /\ bettingVersion = mine.version
  <2>1. worker' = [worker EXCEPT ![w] = load]
    BY <1>2
  <2>2. load \in Loaded /\ load.expected = version /\ load.player = turn.player
        /\ load.hand = hand /\ load.version = bettingVersion
    BY <1>1, <1>2 DEF Claimed, Loaded
  <2> HIDE DEF load
  <2>3. worker' \in [Workers -> {Idle} \cup Claimed \cup Loaded] /\ LeaseIsCurrent'
    BY <1>2, <2>1, <2>2 DEF LeaseIsCurrent
  <2> QED
    BY <2>3 DEF RowIsTurn, RecoveryIsCurrent, BanksAgree, Remaining
<1>3. CASE ~(turn # NoTurn /\ turn.player = mine.player
             /\ hand = mine.hand /\ bettingVersion = mine.version)
  <2>1. worker' = [worker EXCEPT ![w] = Idle]
    BY <1>3
  <2>2. worker' \in [Workers -> {Idle} \cup Claimed \cup Loaded] /\ LeaseIsCurrent'
    BY <2>1 DEF LeaseIsCurrent, Idle
  <2> QED
    BY <2>2 DEF RowIsTurn, RecoveryIsCurrent, BanksAgree, Remaining
<1> QED
  BY <1>2, <1>3

\* A worker that gives up or crashes changes nothing else.
LEMMA StopKeeps ==
  ASSUME NEW w \in Workers, Inv, worker' = [worker EXCEPT ![w] = Idle],
         UNCHANGED <<game, row, recovery>>, crashes' \in 0..MaxCrashes
  PROVE  Inv'
<1> USE DEF Inv, TypeOK, game, banks
<1>1. worker' \in [Workers -> {Idle} \cup Claimed \cup Loaded] /\ LeaseIsCurrent'
  BY DEF LeaseIsCurrent, Idle
<1> QED
  BY <1>1 DEF RowIsTurn, RecoveryIsCurrent, BanksAgree, Remaining

LEMMA ReadForRecoveryKeeps == Inv /\ ReadForRecovery => Inv'
<1> SUFFICES ASSUME Inv, ReadForRecovery PROVE Inv'
  OBVIOUS
<1> USE DEF Inv, TypeOK, ReadForRecovery, game, banks
<1> DEFINE read == RowFor(hand, bettingVersion, turn)
<1>1. /\ read \in Row \cup {NoRow}
      /\ IF turn = NoTurn THEN read = NoRow
         ELSE /\ read # NoRow /\ read.hand = hand /\ read.version = bettingVersion
              /\ read.player = turn.player /\ read.left = turn.left
  <2>1. CASE turn = NoTurn
    BY <2>1 DEF RowFor
  <2>2. CASE turn # NoTurn
    <3>1. read = [hand |-> hand, version |-> bettingVersion, player |-> turn.player,
                  left |-> turn.left, owner |-> NoOwner, lease |-> 0]
      BY <2>2 DEF RowFor
    <3>2. read \in Row
      BY <2>2, <3>1 DEF Row, Turn
    <3> QED
      BY <2>2, <3>1, <3>2
  <2> QED
    BY <2>1, <2>2
<1>2. recovery' = [version |-> version, row |-> read]
  OBVIOUS
<1> HIDE DEF read
<1>3. recovery' \in Recovery /\ recovery'.version = version /\ recovery'.row = read
  BY <1>1, <1>2 DEF Recovery
<1>4. RecoveryIsCurrent'
  BY <1>1, <1>3 DEF RecoveryIsCurrent
<1> QED
  BY <1>3, <1>4 DEF RowIsTurn, LeaseIsCurrent, BanksAgree, Remaining

LEMMA ReconcileKeeps == Inv /\ ReconcileDeadline => Inv'
<1> SUFFICES ASSUME Inv, ReconcileDeadline PROVE Inv'
  OBVIOUS
<1> USE DEF Inv, TypeOK, ReconcileDeadline, game, banks
<1>1. recovery \in Recovery
  OBVIOUS
<1>2. row' \in Row \cup {NoRow} /\ RowIsTurn'
  BY <1>1 DEF StillCurrent, RecoveryIsCurrent, RowIsTurn, Recovery
<1> QED
  BY <1>2 DEF RecoveryIsCurrent, LeaseIsCurrent, BanksAgree, Remaining

----------------------------------------------------------------------------
(* The invariant *)

LEMMA InitInv == Init => Inv
<1> SUFFICES ASSUME Init PROVE Inv
  OBVIOUS
<1> USE DEF Init
<1>1. TypeOK
  BY DEF TypeOK, NoBanks
<1>2. RowIsTurn /\ RecoveryIsCurrent /\ LeaseIsCurrent
  BY DEF RowIsTurn, RecoveryIsCurrent, LeaseIsCurrent, Idle
<1>3. BanksAgree
  BY DEF BanksAgree, Remaining
<1> QED
  BY <1>1, <1>2, <1>3 DEF Inv

LEMMA NextInv == Inv /\ [Next]_vars => Inv'
<1> SUFFICES ASSUME Inv, [Next]_vars PROVE Inv'
  OBVIOUS
<1>1. CASE StartHand
  BY <1>1, StartHandKeeps
<1>2. CASE Deal
  BY <1>2, DealKeeps
<1>3. CASE FinishHand
  BY <1>3, FinishHandKeeps
<1>4. CASE OtherCommand
  BY <1>4, OtherCommandKeeps
<1>5. ASSUME NEW p \in Players, Act(p) PROVE Inv'
  BY <1>5, ActKeeps
<1>6. ASSUME NEW w \in Workers, WorkerStep(w) PROVE Inv'
  <2>1. CASE Claim(w)
    BY <2>1, ClaimKeeps
  <2>2. CASE Load(w)
    BY <2>2, LoadKeeps
  <2>3. CASE Timeout(w)
    BY <2>3, TimeoutKeeps
  <2>4. CASE GiveUp(w)
    BY <2>4, StopKeeps DEF GiveUp, Inv, TypeOK
  <2> QED
    BY <1>6, <2>1, <2>2, <2>3, <2>4 DEF WorkerStep
<1>7. ASSUME NEW w \in Workers, Crash(w) PROVE Inv'
  <2>1. crashes' \in 0..MaxCrashes
    BY <1>7 DEF Crash, Inv, TypeOK
  <2> QED
    BY <1>7, <2>1, StopKeeps DEF Crash
<1>8. CASE ReadForRecovery
  BY <1>8, ReadForRecoveryKeeps
<1>9. CASE ReconcileDeadline
  BY <1>9, ReconcileKeeps
<1>10. CASE Tick
  BY <1>10, TickKeeps
<1>11. CASE UNCHANGED vars
  BY <1>11 DEF vars, game, banks, Inv, TypeOK, RowIsTurn, RecoveryIsCurrent,
               BanksAgree, LeaseIsCurrent, Remaining
<1> QED
  BY <1>1, <1>2, <1>3, <1>4, <1>5, <1>6, <1>7, <1>8, <1>9, <1>10, <1>11 DEF Next

LEMMA InductiveInv == Spec => []Inv
<1> QED
  BY InitInv, NextInv, PTL DEF Spec

\* The clock of a turn keeps its types, whoever acts, crashes or recovers.
THEOREM TypeCorrect == Spec => []TypeOK
<1>1. Inv => TypeOK
  BY DEF Inv
<1> QED
  BY <1>1, InductiveInv, PTL

\* The workers always see the turn in progress, with its deadline, and nothing
\* but it: neither a lease nor a recovery that read an older turn hides it.
THEOREM RowFollowsTurn == Spec => []RowIsTurn
<1>1. Inv => RowIsTurn
  BY DEF Inv
<1> QED
  BY <1>1, InductiveInv, PTL

\* A player uses its time bank once, over all turns, streets and hands.
THEOREM BankUsedOnce == Spec => []BankSpentOnce
<1>1. Inv => BankSpentOnce
  <2> SUFFICES ASSUME Inv, NEW p \in Players, turn = NoTurn \/ turn.player # p
               PROVE  seatBank[p] = TimeBank - spent[p]
    BY DEF BankSpentOnce
  <2>1. Remaining(p) = seatBank[p]
    BY DEF Remaining
  <2> QED
    BY <2>1 DEF Inv, TypeOK, BanksAgree
<1> QED
  BY <1>1, InductiveInv, PTL

\* However late a worker is, it ends no turn but the one it leased, and that
\* one only when its time is over.
THEOREM OnlyItsTurn == Spec => TimesOutItsClaim
<1>1. ASSUME Inv, [Next]_vars
      PROVE  [\A w \in Workers :
                 worker[w].pc = "loaded" /\ Timeout(w)
                 => /\ hand = worker[w].hand
                    /\ bettingVersion = worker[w].version
                    /\ turn.player = worker[w].player
                    /\ turn.left <= 0]_vars
  BY <1>1 DEF Timeout, MayTimeOut, VersionMatches, Inv, LeaseIsCurrent
<1> QED
  BY <1>1, InductiveInv, PTL DEF Spec, TimesOutItsClaim
============================================================================
