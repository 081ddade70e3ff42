-------------------------------- MODULE Turns --------------------------------
(***************************************************************************)
(* The clock of a turn: the deadlines and time banks that                  *)
(* server/table-coordinator.js gives a turn, the row of                    *)
(* table_timeout_leases that follows it (server/postgres-table-store.js),  *)
(* the workers of server/timeout-worker.js that lease the row and time the *)
(* turn out, and the recovery of server/runtime.js that rewrites it.       *)
(*                                                                         *)
(* A command is atomic, as TableLog shows; the steps of a worker and of a  *)
(* recovery are the stretches between their awaits.  What a betting action *)
(* does is the subject of Betting: here it gives the turn to some player,  *)
(* waits for cards or ends the hand.  Times are counted down in ticks: a   *)
(* deadline is the time left until it, and stops one tick after it passed. *)
(***************************************************************************)
EXTENDS Integers, FiniteSetsExt

CONSTANTS
    Players, Workers, NoTurn, NoRow, NoOwner, NotRecovering,
    ActionClock, TimeBank, LeaseTime,
    MaxVersion,     \* bound: no hand, turn or other command begins beyond it
    MaxCrashes      \* bound on the crashes of the workers

ASSUME TimesAssumption ==
    /\ ActionClock \in Nat \ {0}
    /\ TimeBank \in Nat
    /\ LeaseTime \in Nat \ {0}
ASSUME BoundsAssumption == MaxVersion \in Nat /\ MaxCrashes \in Nat
Turn == [player : Players, left : -1..(ActionClock + TimeBank)]
Row == [hand : Nat, version : Nat, player : Players,
        left : -1..(ActionClock + TimeBank), owner : Workers \cup {NoOwner},
        lease : 0..LeaseTime]
Recovery == [version : Nat, row : Row \cup {NoRow}]

ASSUME NullsAssumption ==
    NoTurn \notin Turn /\ NoRow \notin Row /\ NotRecovering \notin Recovery

VARIABLES
    version,        \* of the table
    hand,           \* the number of the hand
    handStatus,     \* NONE, BETTING, DEALING (cards awaited) or OVER
    bettingVersion,
    turn,           \* the player to act and the time it has left, or NoTurn
    seatBank,       \* timeBankMs of the seats
    handBank,       \* timeBankMs of the players of the hand
    row,            \* the row of table_timeout_leases, or NoRow
    worker,         \* what each worker is doing
    recovery,       \* what a starting replica read, or NotRecovering
    crashes,
    spent           \* the ticks of its bank each player used (history)

banks == <<seatBank, handBank>>
game == <<version, hand, handStatus, bettingVersion, turn, banks, spent>>
vars == <<game, row, worker, recovery, crashes>>

Idle == [pc |-> "idle"]

----------------------------------------------------------------------------
(* The turn and its row *)

\* turnFor: the deadline is the action clock and then the bank of the player.
TurnFor(p, bank) == [player |-> p, left |-> ActionClock + bank[p]]

\* The row a transaction leaves for a turn: not leased by anybody.
RowFor(h, v, t) ==
    IF t = NoTurn THEN NoRow
    ELSE [hand |-> h, version |-> v, player |-> t.player, left |-> t.left,
          owner |-> NoOwner, lease |-> 0]

\* What a hand may wait for: its end, cards, or a player.
Waits(bank) ==
    {[status |-> "OVER", turn |-> NoTurn]} \cup
    (IF version < MaxVersion
     THEN {[status |-> "DEALING", turn |-> NoTurn]}
          \cup {[status |-> "BETTING", turn |-> TurnFor(p, bank)] : p \in Players}
     ELSE {})

\* An event of ACTIVE_TURN_EVENT_TYPES: the table, the turn and the row change
\* in one transaction.
Commit(h, v, wait) ==
    /\ version' = version + 1
    /\ hand' = h
    /\ bettingVersion' = v
    /\ handStatus' = wait.status
    /\ turn' = wait.turn
    /\ row' = RowFor(h, v, wait.turn)

NoBanks == [p \in Players |-> 0]

\* mutant: every hand starts with full banks
HandBanksFull == [p \in Players |-> TimeBank]
\* bettingWithTimeBanks.
HandBanks == seatBank

StartHand ==
    /\ handStatus = "NONE"
    /\ version < MaxVersion
    /\ handBank' = HandBanks
    /\ \E wait \in Waits(handBank') : wait.status # "OVER" /\ Commit(hand + 1, 0, wait)
    /\ UNCHANGED <<seatBank, spent, worker, recovery, crashes>>

\* consumeTimeBank: the overtime is what goes over the action clock.
Overtime(p) == IF turn.left < handBank[p] THEN handBank[p] - turn.left ELSE 0

\* The banks of the betting state become those of the seats.
SetBank(p, bank) ==
    /\ handBank' = [handBank EXCEPT ![p] = bank]
    /\ seatBank' = handBank'

Act(p) ==
    /\ turn # NoTurn /\ turn.player = p
    /\ turn.left >= 0
    /\ SetBank(p, Max({0, handBank[p] - Overtime(p)}))
    /\ \E wait \in Waits(handBank') : Commit(hand, bettingVersion + 1, wait)
    /\ UNCHANGED <<spent, worker, recovery, crashes>>

\* dealStreet and dealRunout.
Deal ==
    /\ handStatus = "DEALING"
    /\ \E wait \in Waits(handBank) : Commit(hand, bettingVersion + 1, wait)
    /\ UNCHANGED <<banks, spent, worker, recovery, crashes>>

FinishHand ==
    /\ handStatus = "OVER"
    /\ Commit(hand, 0, [status |-> "NONE", turn |-> NoTurn])
    /\ handBank' = NoBanks
    /\ UNCHANGED <<seatBank, spent, worker, recovery, crashes>>

\* A player sits down or out, returns or leaves: the turn goes on.
OtherCommand ==
    /\ version < MaxVersion
    /\ version' = version + 1
    /\ UNCHANGED <<hand, handStatus, bettingVersion, turn, banks, spent, row, worker, recovery, crashes>>

\* A row a tick later, in the database or in the memory of a recovery.
Aged(r) ==
    IF r = NoRow THEN NoRow
    ELSE [r EXCEPT !.left = IF @ >= 0 THEN @ - 1 ELSE @, !.lease = IF @ > 0 THEN @ - 1 ELSE @]

Tick ==
    /\ turn' = IF turn # NoTurn /\ turn.left >= 0 THEN [turn EXCEPT !.left = @ - 1] ELSE turn
    /\ spent' = IF turn # NoTurn /\ turn.left \in 1..handBank[turn.player]
                THEN [spent EXCEPT ![turn.player] = @ + 1] ELSE spent
    /\ row' = Aged(row)
    /\ recovery' = IF recovery = NotRecovering THEN recovery
                   ELSE [recovery EXCEPT !.row = Aged(@)]
    /\ UNCHANGED <<version, hand, handStatus, bettingVersion, banks, worker, crashes>>

----------------------------------------------------------------------------
(* The workers *)

\* mutant: only a row that nobody ever leased is claimed
ClaimableOnce == row # NoRow /\ row.left <= 0 /\ row.owner = NoOwner
Claimable == row # NoRow /\ row.left <= 0 /\ row.lease = 0

\* claimExpiredDeadlines.
Claim(w) ==
    /\ worker[w] = Idle
    /\ Claimable
    /\ row' = [row EXCEPT !.owner = w, !.lease = LeaseTime]
    /\ worker' = [worker EXCEPT ![w] =
           [pc |-> "claimed", hand |-> row.hand, version |-> row.version, player |-> row.player]]
    /\ UNCHANGED <<game, recovery, crashes>>

\* The worker reads the table and compares it with its lease.
Load(w) ==
    /\ worker[w].pc = "claimed"
    /\ worker' = [worker EXCEPT ![w] =
           IF /\ turn # NoTurn /\ turn.player = @.player
              /\ hand = @.hand /\ bettingVersion = @.version
           THEN [pc |-> "loaded", hand |-> @.hand, version |-> @.version,
                 player |-> @.player, expected |-> version]
           ELSE Idle]
    /\ UNCHANGED <<game, row, recovery, crashes>>

\* mutant: the timeout is appended whatever the version of the table is
VersionIgnored(w) == TRUE
VersionMatches(w) == worker[w].expected = version

\* coordinator.timeout asserts this of the state it reads, append of the version.
MayTimeOut(w) ==
    /\ VersionMatches(w)
    /\ turn # NoTurn
    /\ bettingVersion = worker[w].version
    /\ turn.left <= 0

Timeout(w) ==
    /\ worker[w].pc = "loaded"
    /\ MayTimeOut(w)
    /\ SetBank(turn.player, 0)
    /\ \E wait \in Waits(handBank') : Commit(hand, bettingVersion + 1, wait)
    /\ worker' = [worker EXCEPT ![w] = Idle]
    /\ UNCHANGED <<spent, recovery, crashes>>

\* A stale lease: the worker goes on, the lease runs out by itself.
GiveUp(w) ==
    /\ worker[w].pc = "loaded"
    /\ ~MayTimeOut(w)
    /\ worker' = [worker EXCEPT ![w] = Idle]
    /\ UNCHANGED <<game, row, recovery, crashes>>

Crash(w) ==
    /\ worker[w] # Idle
    /\ crashes < MaxCrashes
    /\ crashes' = crashes + 1
    /\ worker' = [worker EXCEPT ![w] = Idle]
    /\ UNCHANGED <<game, row, recovery>>

----------------------------------------------------------------------------
(* A replica starts: recoverSafeBetaTables *)

ReadForRecovery ==
    /\ recovery = NotRecovering
    /\ recovery' = [version |-> version, row |-> RowFor(hand, bettingVersion, turn)]
    /\ UNCHANGED <<game, row, worker, crashes>>

\* mutant: the deadline is rewritten whatever happened since it was read
StillCurrentAlways == TRUE
StillCurrent == recovery.version = version

ReconcileDeadline ==
    /\ recovery # NotRecovering
    /\ row' = IF StillCurrent THEN recovery.row ELSE row
    /\ recovery' = NotRecovering
    /\ UNCHANGED <<game, worker, crashes>>

----------------------------------------------------------------------------

Init ==
    /\ version = 0
    /\ hand = 0 /\ handStatus = "NONE" /\ bettingVersion = 0
    /\ turn = NoTurn
    /\ seatBank = [p \in Players |-> TimeBank]
    /\ handBank = NoBanks
    /\ row = NoRow
    /\ worker = [w \in Workers |-> Idle]
    /\ recovery = NotRecovering
    /\ crashes = 0
    /\ spent = [p \in Players |-> 0]

WorkerStep(w) == Claim(w) \/ Load(w) \/ Timeout(w) \/ GiveUp(w)

Next ==
    \/ StartHand \/ Deal \/ FinishHand \/ OtherCommand
    \/ \E p \in Players : Act(p)
    \/ \E w \in Workers : WorkerStep(w) \/ Crash(w)
    \/ ReadForRecovery \/ ReconcileDeadline
    \/ Tick

Spec == Init /\ [][Next]_vars

\* Time passes, and a worker polls on every replica that runs.
Fairness == WF_vars(Tick) /\ \A w \in Workers : WF_vars(WorkerStep(w))
FairSpec == Spec /\ Fairness

----------------------------------------------------------------------------
(* Properties *)

Claimed == [pc : {"claimed"}, hand : Nat, version : Nat, player : Players]
Loaded == [pc : {"loaded"}, hand : Nat, version : Nat, player : Players,
           expected : Nat]

TypeOK ==
    /\ version \in Nat /\ hand \in Nat /\ bettingVersion \in Nat
    /\ handStatus \in {"NONE", "BETTING", "DEALING", "OVER"}
    /\ turn \in Turn \cup {NoTurn}
    /\ turn # NoTurn <=> handStatus = "BETTING"
    /\ seatBank \in [Players -> 0..TimeBank]
    /\ handBank \in [Players -> 0..TimeBank]
    /\ spent \in [Players -> Nat]
    /\ row \in Row \cup {NoRow}
    /\ worker \in [Workers -> {Idle} \cup Claimed \cup Loaded]
    /\ recovery \in Recovery \cup {NotRecovering}
    /\ crashes \in 0..MaxCrashes

\* The row of table_timeout_leases is that of the turn in progress, whoever
\* leased it and whatever a starting replica wrote into it: an overdue turn is
\* never hidden from the workers, and a turn that is over is never shown.
RowIsTurn ==
    IF turn = NoTurn THEN row = NoRow
    ELSE /\ row # NoRow
         /\ row.hand = hand /\ row.version = bettingVersion
         /\ row.player = turn.player /\ row.left = turn.left

\* Over all its turns of all hands a player uses its time bank once: what the
\* seat has left is the bank less the ticks the player used of it, and a
\* timeout never takes time the player did not have.
BankSpentOnce ==
    \A p \in Players :
        turn = NoTurn \/ turn.player # p => seatBank[p] = TimeBank - spent[p]

\* "The version and hand id prevent a delayed worker from timing out a newer
\* action or a later hand": a worker only ever ends the turn it leased, after
\* the deadline of that turn.
TimesOutItsClaim ==
    [][\A w \in Workers :
          worker[w].pc = "loaded" /\ Timeout(w)
          => /\ hand = worker[w].hand
             /\ bettingVersion = worker[w].version
             /\ turn.player = worker[w].player
             /\ turn.left <= 0]_vars

\* A turn whose deadline passed ends, even if the worker that leased it crashed
\* or lost a race with another command.
Overdue == turn # NoTurn /\ turn.left <= 0
OverdueResolved == Overdue ~> ~Overdue
============================================================================
