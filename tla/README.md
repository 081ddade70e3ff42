# xPoker: models, checks and proofs

TLA+ modules of the server-authoritative poker system of this repository, TLC
configurations that model-check them on small instances, and theorems proved
with TLAPS for every value of the constants.  `PROJECT.json` maps every
definition to the source lines it models, lists the runs, the mutants that show
that each property can fail, the hazards and the findings.

    tlc -config MCBetting.cfg MCBetting      # a run
    tlapm Betting_proofs.tla                 # a proof

## 1. The system

xPoker keeps poker tables in PostgreSQL as event logs.  A command (sit, act,
time out, deal, finish) is executed by whichever game-service replica receives
it: it reads the state by replaying the log, applies pure rules, and appends one
event under an optimistic version.  A dealer service, also replicated, drives a
hand through commitments, a beacon, the deck and the reveals.  Workers time out
slow players.  Sockets broadcast the events.  Money sits either in the custody
ledger (off chain) or in the Token-2022 escrow program (on chain).

### Inventory

| component | state it keeps | operations | talks to | hard behaviours | what makes it correct |
|---|---|---|---|---|---|
| Betting engine `server/poker/betting.js` | one hand: street, bets, stacks, turn | create, fold, check, call, bet, raise, all-in, timeout, deal street, run out board | called by the table | short stacks, side pots, reopening rules, run-outs | chips conserved; a next actor exists; bets matched before cards; hand ends |
| Pots, rake, showdown `server/poker/pots.js`, `showdown.js` | none (pure) | build pots, rake, split, settle | called by `finishHand` | odd chips, side pots, two boards, dead money | nothing lost or invented; nobody wins more than it covers |
| Hand evaluator `server/poker/evaluator.js` | none (pure) | rank seven cards | called by showdown | - | ranking is right (unit-tested) |
| Table event log `server/table-coordinator.js`, `postgres-table-store.js`, `db/003` | `table_events`, `table_state_snapshots`, version | replay, state, record, append | PostgreSQL; used by every command | concurrent handlers on several replicas, retries, crashes, snapshots racing appends, host clocks | linearizable, exactly once; the hash chain verifies |
| Table lifecycle `server/table-coordinator.js` | seats, stacks, sit-out and leave wishes, hand in progress | sit, sit out, return, leave, start, act, deal, run out, finish | betting, pots, log | wishes expressed during a hand, busts, button movement | chips of the table conserved; wishes respected at the next deal |
| Turn timeouts `server/timeout-worker.js`, deadlines in `postgres-table-store.js`, `runtime.js` | `table_timeout_leases`, time banks | claim, load, time out, reconcile | table | workers delayed past their lease or crashing, races with the player, a recovery that writes what it read earlier | an old lease never ends a new turn; an overdue turn ends; a time bank is spent once |
| Dealer and transcript `safe-beta-dealer.js`, `hand-coordinator.js`, `postgres-hand-store.js` | hand transcript, seeds and secret deck in Redis, Redis lock, timers | lock, prepare, commit, beacon, deck, start, reveal, deal, complete, finish | table, transcript, Redis, beacon | lock expiry, crashes between the stores, lost answers, players who come and go meanwhile | the table plays the committed deck; no card early; the secret is kept; what waits for the dealer is done |
| Escrow program `settlement/programs/xpoker_escrow/src/lib.rs` | session, vault, deposit and claim records | initialize, deposit, lock, commit, claim, refund, authority transfer, close | Solana, settlement plan | deadlines, malicious root, direct transfers, reused ids | vault solvent; paid once; money comes out |
| Custody ledger `server/settlement/custody-service.js`, `custody.js`, `solana-custody-chain.js` | deposit intents, withdrawal requests and their approvals, ledger entries, vault status | intent, credit, request, approve, submit, finalise, reconcile | Solana RPC, signer, compliance | concurrent requests, ambiguous submissions, crashes inside an operation, reads in several queries | the ledger agrees with the chain; nothing credited or debited twice; payments are approved and final |
| Realtime gateway `server/realtime.js`, `redis-event-bus.js` | sockets, groups, keys, deliveries | authenticate, subscribe, publish, deliver cards, command | table, Redis, dealer | event between read and subscribe, answers overtaken by newer events, broken sockets | who watches sees the last event and its own cards; a command is answered |
| Browser client `app.js` | table view: version, hand, cards, pending command | connect, resubscribe, adopt a state, decrypt, act, leave | gateway, service | states and cards that arrive out of order, reconnection, leaving | the same |
| Fair-deal protocol `fairness/protocol.js`, `server/transcript.js`, `beacon.js` | none (pure) | commitments, deal map, shuffle, signatures | dealer | the map of seats to deck positions | no position is dealt twice; the rest is cryptographic |
| Service and operations `safe-beta-service.js`, `beta-operations.js`, `http.js`, `runtime.js` | profiles, invitations, rooms, `table_seats` rows | guest, redeem, moderate, create and join a room, join a table, recovery | all | joining in several steps with retries and two stores | who is refused has no seat |
| Compliance `server/compliance/*.js` | evidence, decisions, controls | record evidence, evaluate | custody | items that age and expire at different times | a decision holds as long as it is in force |
| Identity, monitoring, investments, settlement plan | sessions, alerts, quotes, trees | - | - | - | - |

## 2. Modules

| module | what it is |
|---|---|
| `Betting` | one hand of the betting engine; every function of `betting.js` that changes the state is an action |
| `Betting_proofs` | chips, turn order, streets, bet sizes, reopening and settleable pots, for every table |
| `MCBetting` | instance with two and three seats; composes `Betting` with `Pots` (`HandSettles`) |
| `Pots` | pots, refunds, rake, splits and odd chips as operators |
| `Payouts` | a hand that is over and its settlement; states what a settlement is |
| `MCPots` | settles every hand of a small instance |
| `Table` | the life of a table over several hands; composes `Betting` and `Pots` |
| `Table_proofs` | the settlement of `Pots` and `Payouts`, and the invariants of `Table`, for any seats, stacks, blinds, rake and number of hands |
| `MCTable` | two hands at three seats |
| `Turns` | deadlines, time banks, leases, timeout workers and recovery |
| `Turns_proofs` | types, and the three safety properties of `Turns`, for any players, workers and clocks |
| `MCTurns` | two players, two workers |
| `FairDeal` | the deal map, which deck position each card of a hand comes from, and what an audit bundle agrees with |
| `Dealer` | the dealer's runs over table, transcript and Redis, with crashes, faults and lost locks; uses `FairDeal` |
| `Dealer_proofs` | the four safety properties of `Dealer`, for any runs, players and hands |
| `MCDealer` | two runs, three players, one hand |
| `Compliance` | evidence, reasons, and the decision kept for an eligible wallet |
| `Custody` | the custody service, its callers, the chain and the operators; uses `Compliance` |
| `Custody_proofs` | decisions, payments, the ledger, holds, limits and freezes, for any wallets, operators, requests and policy |
| `MCCustody` | one wallet, two deposits, two withdrawals, two callers |
| `Lobby` | admission, rooms and the way to a seat at the table |
| `Gateway` | the socket of one player from commit to screen; composes with `Lobby` |
| `MCGateway` | a player, an operator and a guest from six starting points |
| `AtomicLog` | abstract specification: commands applied one at a time, each at most once |
| `TableLog` | the concurrent event store that implements it |
| `TableLog_proofs` | types, refinement of `AtomicLog`, the links of the chain under one clock |
| `MCTableLog` | two handlers, with one or two clocks |
| `Escrow` | the on-chain program, one session and its records |
| `Escrow_proofs` | types, solvency, nobody paid twice, refunds covered |
| `Sums` | lemmas about sums over finite sets, for the proofs about money |
| `MCEscrow` | two players, two authorities, all roots up to 3 |

### Betting

The variables are the fields of the state that `createBettingState` returns,
with the fields of the players as functions from seats.  `bought` is the stack a
seat started with; it is never changed, its domain is the set of seats dealt in,
and conservation is stated against it.  `Init` is `createBettingState` in full:
antes, short blinds, live straddle, heads-up order, and the case in which the
blinds leave nobody to act.  `Fold`, `Check`, `Call`, `Bet`, `Raise` and `AllIn` are
the branches of `applyAction`; `Timeout` is `applyTimeout`; each ends with
`FinishOrAdvance`, as in the code, whose decision is `RoundStatus`.  `DealStreet`
and `DealRemainingBoard` are the deals.  A throw of the code is a disabled action.
Cards are counted, not named; the version of the betting state is left out
(only the table writes it).

### Pots and Payouts

`buildPots` walks the distinct contribution levels; here a level is a member of
`Levels(c)`, and a pot is known by its level: `Step` is the distance to `LevelBelow`,
what each participant pays into it, and a level with one participant is a refund.
`applyRake` takes the rake pot by pot, the main pot first; `Cuts` says what that takes
from each: what the pots below it could not pay, as far as the pot goes.  `Share` gives
the odd chips of a pot to the first winners clockwise from the button (`oddChipOrder`),
`BoardAmount` the odd chip of a split over two boards to the first board.  A hand's
strength is a number: the evaluator is a pure function of the cards.  `Payouts` is one
step, a hand that `finishHand` settles, and its properties say what the settlement is in
terms that are not those of the code: what each player covers, not levels and pots.

### Table

The variables are `tableStatus`, the seats and counters of the state of `reduceTable`,
and the variables of `Betting` for `currentHand`.  A player is identified with its
seat.  Each command of `table-coordinator.js` is one action that does what the command
asserts and what the reducer then does with its event; commands are atomic, which is
what `TableLog` shows of clients that quote a version the table had.  `StartHand` is `nextHandSetup` and `createBettingState`,
`Act`, `Timeout`, `DealStreet` and `DealRunout` are the actions of `Betting`, and
`FinishHand` settles with the operators of `Pots` for an arbitrary ranking of the
hands, then applies the wishes.  `FinishHand` is disabled where the code throws, so
that a hand stuck by an assertion is a state that `HandCanGoOn` rejects.
`wish`, `broughtIn` and `takenOut` are history: what the player of a seat last asked
for, and the chips that came to and left the table.  `wish` is not written from the
flags of the code, only from the requests; `DealtAsWished` and `LeaversGone` compare
the two at the next deal and at the end of the hand.

### Turns

What `Table` leaves out: time.  `turn` is the player to act and the ticks left until
`deadlineAt`, which is the action clock and then the bank; `row` is the row of
`table_timeout_leases`; `handBank` and `seatBank` are the two places that hold
`timeBankMs`.  Every event of `ACTIVE_TURN_EVENT_TYPES` ends in `Commit`, which
changes the table and the row in one transaction, as `append` does.  A worker is at
one of three points: idle, `claimed` (it holds a lease and has not read the table) and
`loaded` (it read the table, and will quote that version).  `Timeout` is the command:
it is refused, and the worker goes on (`GiveUp`), when the version, the betting version
or the deadline is no longer the one it expects.  `ReadForRecovery` and
`ReconcileDeadline` are the two halves of `recoverSafeBetaTables`.  The betting is
abstracted to what comes next: a player's turn, cards, or the end of the hand.
`Tick` is one clock for all replicas; clocks that differ are the subject of
`table_log_clocks`.  `spent` is history: `Tick` counts the time a player is on its bank.

### TableLog and AtomicLog

A handler executes one command on some replica.  Its steps are the code's
stretches between awaits: the look-up of the idempotency key, the two queries of
`loadAggregate`, `head`, the second look-up in `append`, the transaction, the
listeners.  The transaction is one step because it holds the row lock of the
table from the version check to the commit.  A hash is modelled by the position
in the log it points to.  A crash, or a client that goes away, may cut a handler
at every step; a retry is another handler with the same key.  The version a
command quotes is any number: `realtime.js:206` passes on what the message says,
the commands compute their event from the state they read without comparing the
two, and `append` compares the number with the row at the commit, but not the
previous hash with the head.  `early` (history) marks a command that quoted a version
the table did not have when it came.  Such a command is refused unless
another one commits that version while it runs; then it is accepted, computed from an
older state and with the previous hash of an older event.

`AtomicLog` promises that the commands take effect one at a time, each at most
once and, unless it was early, on the state its predecessors left, and that a success
is reported only for a command that took effect.  `Linearizable` is its
specification under the refinement mapping that forgets hashes and clocks.
`ChainVerifies` says of every event that was not early that it is linked to the one
before; the protocol document promises it of all of them, which is false (section 5).  The dealer, the timeout worker, the service and
the browser client quote versions they have read; `Table`, `Turns`, `Dealer`, `Lobby` and
`Gateway` take the commands of the table as atomic, which holds of those.

### Escrow

One session account, its vault, and the records of its players; an instruction is
one action, the chain executing them one at a time.  A settlement root is the
function from payees to the leaf it commits to, and the set of possible roots is
arbitrary: nothing on chain checks that the leaves add up.  `Donate` is a direct
token transfer to the vault, which the program cannot prevent.  `NextSlot` is the
clock.  `paidIn` and `paidOut` are history variables for the properties.

### Dealer and FairDeal

`driveTable` is a run: it takes the Redis lock (`Acquire`), reads the table
(`ReadTable`), prepares a hand or advances the one in progress, and releases
(`Release`).  A step is the stretch of a run between two awaits on a store:
`GetPreparation` and `PutPreparation` for the seeds in Redis, `OpenHand`,
`SubmitPlayerCommitment` and `ReserveBeacon` for the transcript, `StoreDeck`,
`FindDeck`, `AppendDeck` and `UndoDeck` for `commitDeck`, which writes the secret
before the event and deletes it when the append fails, then `ReadForStart` and
`StartHand`, and `Advance`, `RevealPublicCard`, `DealBoard`, `CompleteHand` and
`FinishHand`.  `Record` is `#replay` and `#record`: an event recorded before is
answered, another is recorded on the version the run has read.  `TableCommand` is a
command of the table under its version and key.  `transcript` is the log of each hand,
`ReduceHand` its reducer; a deck is the tuple of what it is derived from.  `Crash`,
`Expire` (the lock) and `Fault` (a store, the signer or the beacon) are the faults, and
`scheduled` the timers that listeners and failed runs set.  The betting is one event
for each round.

The listeners of an event run after its `append` has returned
(`table-coordinator.js:572`), so `Seat` and `Act`, the commands of players, only commit
(`Committed`): the event goes to `announcing`, with the replica that is to announce it,
and `Announce` calls its listeners later, after any number of steps of the runs.  If
the answer of the append is lost, it never gets there: the player's retry finds its key
recorded and announces nothing.  `Crash` drops what its replica was to announce.
`Listens` is the dealer's listener: the event types it schedules a run for.
The dealer's own commands announce in the step that commits them: a lost answer there fails the
run, which is scheduled again, and a crash is followed by a recovery that schedules every table, so
that the dealer is scheduled on each of these ways.  Left out: `joinTable` of a player who already
sits schedules the dealer too (`safe-beta-service.js:525`), a wake-up that the
properties do not count on.  `doubted`, `reseated` and `unannounced` are history, for the
exceptions of the properties (section 5); a betting round that ended by an event nobody was told of
is the 0 of `unannounced`.  `FairDeal` is the pure part of the protocol
that has something to get wrong short of cryptography: the positions of the cards, and
the bundle that `finishHand` audits (`AuditBundle`, `Verified`).  `HoleCardsFor` is what
the gateway asks the dealer for, `SettledWith` the cards of the settlement.

### Custody and Compliance

An operation of `custody-service.js` that is one transaction is one action
(`CreditFinalizedDeposit`, `ApproveWithdrawal`, `FinalizeWithdrawal`); one with
several queries is several steps of a caller: a deposit intent (`EvaluateDeposit`,
`InsertIntent`), a withdrawal request (`ReadBalance`, `ReadHolds`, `InsertRequest`),
a submission (`ClaimSubmission`, `Pay`, `RecordSubmission`) and a reconciliation
(`ReadChain`, `ReconcileVault`).  The keys of the maps `intents` and `requests` are
the idempotency keys, so that a retry is another caller with the same key.
`balance` is the sum of the player's ledger entries.  `transfers` and `paid` are the
chain; the signer is external and pays a key once, as the code asks of it, but its
answer may be an error although it paid (`lost`).  `unseen` of a request is history, for
`NoOverdraft`: the other withdrawals, unfinished or debited, that its two queries
overlooked.  A withdrawal is overlooked when it was requested after the holds were read, or
debited after the balance was read and before the holds were: then it is in neither.  The failed UPDATE of a
submission that was paid has the same effect and stands under `lost` too.
`Compliance` decides from the latest item of each kind of evidence; `Decision` is what
the service keeps, with its expiry.
Abstractions: an amount stands for its valuation; the rolling windows of the deposit
limit are one window that holds the whole run; `selfExcludedUntil` stands for
exclusion and cooling off; the three ledger queries of `reconcileVault` are one step,
and so are a decision and the check of the vault after it.

### Lobby and Gateway

`Lobby` is what happens before a seat: profiles, sessions, one invitation, one room
and its table, and `joinTable` as a request in steps (`AuthorizeJoin`, `CreateTable`,
`Find`, `Look`, `Sit`, `InsertRow`, `Answer`), with its three attempts and its row in
`table_seats`.  Commands of the table are atomic (`TableLog`), and the table is kept
to what a lobby or a browser sees.  `quota` holds the bounds: what a wallet may still
ask, which stands for the rate limits too, and the version where others stop.

`Gateway` adds the path of an event from its commit to the screen of one player.
`bus` holds what is committed and not delivered; `Deliver` is the delivery to the
replica of the player, `publishing` the publications of a started hand, each of which reads
the state, forgets the deliveries, and sends the cards.  `socket` is the connection
with the messages in both directions, `handler` the message the server works on; its
steps are the stretches between awaits: `ReadState`, `Subscribe` (joins the group, then
reads events), `OfferCards`, `SendCards`, `Command`, `AnswerCommand`.  `client` is the
state of `app.js`: `Connect`, `Receive` (one disjunct for each message), `Decrypt`,
`Act`, `Leave`, `LookAway`, `GoLobby`, `Online`, `OpenTable`.  Rate limits, slow clients, the
heartbeat, the end of a replica and the timeout of authentication all end in `Drop`.
`history` is for the properties only: versions missed, cards wiped, a command left
unanswered.
Abstractions: one observed player alone on its socket, the others and the dealer being
the environment; the key exchange goes out with the first subscription; the dealer
always has the cards; muted and banned are "suspended"; a redemption is one step,
under the lock of its row.

## 3. Runs

| run | question | bounds |
|---|---|---|
| `betting` | does a hand keep its chips, its turn order and its rules, end, and leave pots that can be settled? | seats {1,4} and {1,4,6}; stacks 1, 4 and 7 (below, around and above two big blinds); blinds 1/2; ante 0 or 1; straddle 0 or 4; both games |
| `betting_ante` | the same last question with an ante as large as a stack (violation) | three seats, ante 2 |
| `pots` | is every settlement exact and fair? | three players, contributions 0 to 3, three ranks, one or two boards, with and without rake |
| `table_log` | is the concurrent store atomic, and is every event linked to the one before, except where a command quoted a version that did not exist yet? | two handlers, three keys, any version quoted, three events, a snapshot every second event, two clock ticks |
| `table_log_clocks` | the chain with two clocks (violation) | two handlers a tick apart |
| `table` | are chips and wishes kept from hand to hand, and can every hand go on? | three seats, buy-ins 1 and 3, blinds 1/2, ante 1, rake 30% capped at 1; two hands, one of each game; at most three times somebody sits down, three requests |
| `turns` | does a worker only end the turn it leased, and does every overdue turn end? | two players, two workers, clock 1, bank 2, lease 1, one crash; no turn or command begins beyond version 4 |
| `escrow` | is the program solvent and live, and does it pay once? | two players, all roots up to 3, u64 limit 3, slots to 4, one token of donation |
| `escrow_reuse` | the refunds when an id is used again (violation) | the same, slots to 5 |
| `dealer` | does the table play the committed deck, is the secret kept, is the dealer of a waiting table woken, and does it do what it is waited for, over crashes, faults, lost answers, lost locks and two runs at once? | two runs, of two replicas; three players of whom two come or go, who sit down at one replica each; one hand, at most one trouble, one event at a time that is not announced; the betting may go on until the flop |
| `custody` | does the ledger agree with the chain, and are payments, limits and decisions kept, with concurrent callers that crash? | one wallet that is an operator too, two operators, two deposits of 2, two withdrawals of 1, two callers, four operations, quorum 2, one tick, one lost answer |
| `gateway` | is a refused player not seated, and does a player see the table, its cards and the answers to its commands? | three wallets, three seats, six starting points, each with its requests, events (to version 5 or 6), one drop, one lost event or one command |

Why the bounds are enough.  In `betting` three seats already give two side pots, a
short all-in between two full bets, a folded player with dead money and every
position (button, blinds, straddle); the three stacks make every comparison of the
code (with the ante, the blinds, the call, the minimum raise and the pot-limit cap)
come out both ways.  Two handlers are enough in `table_log` because handlers only
interact through the log: a third only makes events that the second could have made
before.  Three events put a snapshot strictly inside the log, and let a command quote a
version one or two above the current one.  In `table` a
buy-in of 1 is all-in on the ante and one of 3 is just above the blind, so that busts,
dead money and short blinds happen in the first hand and show in the second; three
requests are what it takes to sit out, return and leave around one hand.  In `turns`
version 4 reaches both four turns of one hand and two hands that have a turn of the
same betting version, which is what a delayed worker could confuse; a bank of 2 can be
used in part.  In `escrow` an
overflow of u64 is reached with deposits of 1 and 2 because the limit is 3.
In `dealer` one player already sits, so that two moves reach both a hand that is prepared
while somebody comes or goes and a player who returns unannounced; one trouble is
enough because each defect of the code that was found needs a single one; the flop and
the run-out are the two ways in which the board is dealt in parts.  That the arrivals
come to a replica each (`Serving`) and that a second event is committed only after the first was
announced (`MaxAnnouncing`) halves the states twice: the instance without these two bounds has 1.3
million and passes too.  With one hand, the
wake-up after a finished hand and the next button are not exercised.  In `custody` two of each
are what a race needs, the wallet that is also an operator meets the rule of
the other eyes, a deposit of 2 with a fee credits 1 or 2, so that withdrawals of 1
go below, to and above it, and one tick takes an intent, an item and a cooling off past their
ends.  In `gateway` the starting points split what a single
one, with all the quotas at once, would multiply: two arrivals at an empty table; an
arrival beside a starting hand; an arrival and the first hand; and a hand under way
with a broken connection and a lost event, with a broken connection and a command, and
with coming and going.

Deadlock is not checked: every run stops at its bounds, and the properties that say that
the system does not stop are liveness properties or `HandCanGoOn`.

Every property has a mutant in `PROJECT.json`: an operator, next to the definition it
alters, with a plausible slip of the code, for which TLC finds the property violated
under the run's own configuration.

Fairness.  `HandEnds` assumes that the clock acts on every turn that is not taken
(`timeout-worker.js` polls for expired deadlines) and that the dealer deals whenever
the hand waits for cards; nothing is assumed of the players.  `OverdueResolved`
assumes that time passes and that each worker goes on, because `start` polls on an
interval and an error of a run is caught; leases are not assumed to be fair, and a
worker may crash.  Other commands are finitely many in the run: a table whose version
changed between every read and append of a worker would starve it, in the code too.
`Table` states no liveness: `HandCanGoOn` says that a hand never waits for anything
but a timeout or a deal, and `HandEnds` that these end it.  `DealerGetsOn` assumes that a run
takes its next step, that a timer fires when the lock is free and that the listeners of a committed
event are called (all three are the event loop), and that the lock of a dead run expires (Redis).
The fairness is weak fairness of these actions, written without ENABLED: `CanRun` says when
a run has a step, and each step changes where the run is.  The properties of `gateway` assume that Redis
delivers what it has (or loses it, within the quota), and that the event loops of the replica and of the browser
and the timer of the reconnection go on; a browser that went offline need not come
back.  `Custody` states no liveness: nothing in `src/` calls the service.
`MoneyComesOut` assumes slots, a player who asks for a refund after the deadline and claims what is
due; nothing is assumed of the authority.

## 4. Proofs

Theorems of the specification of each module; "for" is the property they state.

| module | theorem | for |
|---|---|---|
| `Betting_proofs` | `TypeCorrect` | `TypeOK` |
| | `Conservation` | `ChipsConserved` |
| | `NextActor` | `NextActorExists` |
| | `StreetsEnd` | `StreetsEndRight` |
| | `IncreasePossible` | `IncreaseIsPossible` |
| | `NoReopening` | `ShortAllInDoesNotReopen` |
| | `Settles` | `HandSettles`, when every stack covers the ante |
| `Table_proofs` | `SettlementBalances` | a settlement, for any hand that can be settled |
| | `Conserves` | `SettlementConserves` |
| | `WinsAreCovered` | `NobodyWinsMoreThanCovered` |
| | `BestCollects` | `BestHandCollects` |
| | `OddChipsFollowButton` | `OddChipsClockwise` |
| | `ChipsStay` | `ChipsAccounted` |
| | `LeaversLeave` | `LeaversGone` |
| | `DealtByWish` | `DealtAsWished` |
| | `HandsGoOn` | `HandCanGoOn`, when the ante is at most 1 |
| `TableLog_proofs` | `TypeCorrect` | `TypeOK` |
| | `Refinement` | `Linearizable`, whatever the clocks and the versions quoted |
| | `ChainAlwaysVerifies` | `ChainVerifies`, when all hosts have the same clock, whatever the versions quoted |
| `Turns_proofs` | `TypeCorrect` | `TypeOK` |
| | `RowFollowsTurn` | `RowIsTurn` |
| | `BankUsedOnce` | `BankSpentOnce` |
| | `OnlyItsTurn` | `TimesOutItsClaim` |
| `Dealer_proofs` | `DealerTypes` | what tables, transcripts and runs are |
| | `TranscriptIsFollowed` | `TableFollowsTranscript` |
| | `SecretIsKept` | `SecretKept` |
| | `CardsAgree` | `CardsShownAreCardsPlayed` |
| | `NobodySleepsThrough` | `NoLostWakeup`, with listeners called after the commit or never |
| `Escrow_proofs` | `TypeCorrect` | `TypeOK` |
| | `Solvency` | `VaultSolvent` |
| | `NobodyPaidTwice` | `PaidOnce`, when ids are fresh |
| | `RefundsAreCovered` | `RefundsCover`, when ids are fresh |
| `Custody_proofs` | `TypeCorrect` | `TypeOK` |
| | `DecisionsLast` | `EligibleLasts` |
| | `PaymentsAreDue` | `PaidIsDue` |
| | `LedgerReconciles` | `LedgerMatchesChain` |
| | `NoWalletOverdrawn` | `NoOverdraft`, for any interleaving of requests and finalisations |
| | `DepositsWithinLimit` | `DepositLimitKept` |
| | `FrozenForCause` | `FreezeHasCause` |

*Sums.*  Money is summed with `SumFunctionOnSet`, a fold.  The library's induction over
finite sets takes an operator as a parameter, which the provers cannot instantiate;
`Sums` does without: if a fact about the sums over the subsets of a finite set failed,
there would be a smallest subset for which it fails (`SmallestSubset`), and taking an
element out of it gives one for which it holds.  So come that a sum does not depend on
the order (`SumRemove`), that it is a sum of parts (`SumUnion`), and that the rows and
the columns of a matrix have the same total (`SumSwap`).

*Betting.*  `Inv` is types, conservation and `NextActorExists` together.  The three need each other: the next actor is looked for among the seats that
still have to act (`Pending`), and `FinishKeeps` shows that an unfinished round has
one because a seat whose bet differs from the current bet must be below it, which
is the third part of `ChipsConserved`; payments keep their types because what is
behind is never negative, which is in `PayTo`'s guard.  The types are split in `Typed`
(what an action writes) and `Decided` (what `finishOrAdvance` writes).  `StreetInv` says
what a street owes the earlier ones: those who can still bet have put in as much as anybody
before it (`LevelKept`), a street that is over is over for one of the reasons of
`finishOrAdvance` (`StreetOver`), and the minimum raise stays below what a pot-limit
raise may be (`BetsCovered`), from which `IncreaseIsPossible` follows.  Its proof takes
the six actions of a player in one form, `Moves(p)`: fold, match or raise, or all-in.
`Settles` rests on `Stands \/ Posts`: somebody in the hand is in for as much as anybody,
so that a pot never loses all its players, or nobody has met a big blind that was posted
short yet, and then at most one seat may still fold what it put in.  A stack smaller than the ante
breaks it (finding 1), which is why it is assumed.  Assumed besides: seat
numbers 0 to 8, positive stacks, blinds in order, straddles of at least two big
blinds - all of them assertions of `createBettingState`.

*Settlement.*  By levels: the steps up to a level add up to the level (`StepsAddUp`), so
that by player and by level the contributions are the same matrix, whose columns are the
slices: the pots and the refunds (`SlicesAddUp`, up to any level, and `RefundsAddUp`).
`CutsAddUp` shows that the rake that is taken is the target, `SharesAddUp` that the shares of a pot are
the pot (the odd chips go to different seats because the places clockwise from the button
differ), `BoardsAddUp` the same for two boards, and `SumSwap` adds up what the
players get.  The slices up to the contribution of a player are what it covers
(`CoverSplits`): it can win no more (`AwardsWithin`), and the best hand wins each of
them whole (`BestHandTakes`).  `RefundIs` shows that the refund of the code, by levels, is what
the largest other contribution leaves unmatched.  Players who tie and put in the same
are in the same pots, so that their shares differ by the odd chip of each pot and board
(`TieDiffers`).  `Payouts` only adds that the hand is one the settlement accepts: at
least two players put in chips, and no pot is without a player who is still in.

*Table.*  `TableInv` is types, seats, chips, and the hand in progress.  `SeatsInv` compares
what the code keeps of a player's wishes with what it asked for: of an `Idle` seat the wish
is done, of a `Playing` one it is noted in the flags, and its stack is the one that the
engine started with.  `HandPart` is the invariant of the engine itself: `Betting_proofs` is
instantiated for the table, `SameEngine` shows that it speaks of the actions that
`Table` takes, and `HandStarts` that what `StartHand` deals is an initial state of it.  A
finished hand returns its chips because the settlement balances and the engine conserves
the stacks (`ChipsSettled`).  `HandsGoOn` needs an ante of at most 1: a stack
that was dealt in covers it, however small play has made it; a larger ante is finding 1.

*TableLog.*  The invariant relates each handler to the log: what it read (`base`,
`prev`, the snapshot) is a prefix of it.  If its command was not early, the version it
quotes was there before it read anything, so that what it read is no shorter than the
quoted version, and is the current end when the version
check passes; of an early one nothing of the kind holds.  The log's keys are distinct.  That is what makes a successful insert an
`Apply` of `AtomicLog`, and every other step a `Tell` or a stutter.  For the chain,
`TimeInv` bounds every drafted timestamp between that of the event it was drafted on
and the clock, which needs one common clock: `table_log_clocks` shows that it is false otherwise.

*Escrow.*  `Inv` is types and solvency.  `NobodyPaidTwice` strengthens it by
`RecordsFollow`: the records agree with the history of the session in progress.
`RefundsAreCovered` adds `DepositsInv`: the deposits of the session are the sum of its
records, less what was refunded.  Assumed: finitely many players.

*Turns.*  What a delayed process holds is compared with the present by a version, so the
invariant says what a version is worth: a recovery that quotes the current version
read the turn in progress (`RecoveryIsCurrent`), and a worker that quotes the current
version leased the turn in progress (`LeaseIsCurrent`).  The first gives
`RowIsTurn`, the second `TimesOutItsClaim`.  `BanksAgree` ties what is left of the bank,
in the turn, the hand and the seat, to what was spent: their sum is the
bank that a player came with, whichever of the three copies is in force.  It holds
for any clock, bank and lease, and any number of players, workers and crashes.

*Dealer.*  `TypesInv` says what a run knows: what it read of a transcript is a beginning of
it (`Read`), all of it when its version is current, and a run that quotes the current
version of the table knows what the table waits for.  Each property adds its part for the runs in
flight: `PlayInv`, that what a run wants to deal or reveal is due in the committed deck
(`WantsOK`), so that the board and the reveals are those of the transcript (`BoardOK`,
`TablePlays`, `HandsPlayed`); `SecretInv`, that the secret of a deck is in Redis or a run
that may delete it is on its way to (`Kept`); `SeatInv`, that the players of a preparation
are those the hand deals in, unless the seats changed (`SeatsFit`, `HandSeats`); `WakeInv`,
that a run which will not look at the table again leaves a timer, another run or an event to
announce behind (`Awake`), unless who came, or the end of the betting round, is `unannounced`.
Assumed: at most nine players, as seats are; the runs, hands and faults are arbitrary.

*Custody.*  `Inv` is types, `DecisionsInv` (every decision, kept in a record or still held by a
caller, lasts), `PaymentsInv`, `HoldsInv`, `LedgerInv` and `LimitInv`.  That a decision lasts follows from `DecisionExpiry`
being a minimum over the items, of which the latest of each kind is active when it is made.  For
`PaidIsDue` the invariant adds the callers: at most one is between the claim
and the record of a request (`SubmitsAlone`), which is what the status "submitting" is
for; whose request it is, is being submitted or was lost (`PayingMade`); nobody approves its own request
and a request past approval has its quorum (`Sound`).  A retried `ClaimSubmission` is
possible only from "approved", so a second payer exists only after the first recorded
its answer.  `LedgerInv` counts: a balance is the transfers credited, each once, less the
payments debited, each once, and only payments that were made are debited.
`NoOverdraft` is not inductive as the run states it, because a rejection takes a request out
of what another one overlooked.  `HoldsInv` states it as an inequality of every part of the
unfinished withdrawals of a wallet: what the part holds is at most the balance, or
at most the balance and what a single withdrawal, of the part or debited, overlooked of the
part and of what was debited.  `ReadCovers` says of a caller between its two queries that the
balance it read is at most the present one and the debits since, and of one that may still
insert that what it read as held and what it asks for are covered in the same way.  `LimitInv` says of
every intent, made or about to be, that the credited deposits it saw leave room for it.  `FrozenForCause` rests on `ChainReadCovers`: what a reconciliation read of the chain,
before it read the ledger, is no less than the deposits credited by then, less all that
has left since.  Assumed: finitely many wallets, operators, requests and kinds of evidence,
deposit limits that are naturals, positive ages; the policy, the quorum, the
reports and the amounts are arbitrary.

The constants' assumptions are named `ASSUME`s that TLC evaluates on the runs.

Only model-checked: liveness (`HandEnds`, `OverdueResolved`, `MoneyComesOut`,
`DealerGetsOn`, `CatchesUp`, `CardsArrive`, `CommandsAnswered`), which needs ENABLED
or fairness, and `RefusedIsNotSeated` of `Lobby`, which could be proved and is not yet.

## 5. Findings

1. `betting_ante`: with an ante that can take the big blind all-in, everybody who
   reached the highest contribution can fold; `buildPots` throws "A pot has no eligible
   player" and the hand can never be finished, although
   `docs/POKER-RULES-ENGINE.md:22` promises folded dead money.  `Settles` proves
   that it cannot happen when every stack covers the ante.
2. `table_log_clocks`: `append` does not compare timestamps, the readers do; two
   replicas whose clocks differ slightly can commit a chain nobody can read again.
3. `escrow_reuse`: `close_session` leaves the deposit and claim records behind, so a
   second session under the same id refunds the wrong amounts.

### Known limits

A property that some known course of the code defeats names that course as its
exception ("unless ..."), so that it still holds of everything else.  The
exceptions, each of which the run of its property reaches (without it TLC finds the property
violated):

- `CardsShownAreCardsPlayed`: `startHand` deals in the players who are active when it
  runs and compares them with nobody; who came or went since the seeds were made is dealt in
  without them (`safe-beta-dealer.js:184`).  `DealerGetsOn`: the same hand is
  then wedged, `finishHand` rejecting its audit bundle for ever.
- `SecretKept`: an append that took effect and was reported as failed, or one that lost the
  race to another run after a lock expired, deletes the secret of a committed deck
  (`hand-coordinator.js:297`).
- `ChainVerifies`, `Linearizable`: a command that quoted a version which the table did not
  have yet, and which another command commits while it runs, is accepted with the hash of an older
  head and computed from an older state; every later command and read of the table then finds
  "Table event hash chain is broken", although `docs/REALTIME-PROTOCOL.md:44` promises every
  event a link.
- `NoLostWakeup`: nothing listens to PLAYER_RETURNED; and an event whose append was not
  answered is announced to nobody, whether a player sat down by it or a betting round ended.
  (A crash before the listeners is no exception: the replica schedules its tables when it
  starts again.)
- `NoOverdraft`: a request overlooks the withdrawals that were requested between its
  second query and its insert, and those finalised between its two queries, which are
  in neither: the second needs no other request at the time.  So money that is gone can be held,
  although `docs/XSTOCKS-CUSTODY-SETTLEMENT.md:11` promises that a withdrawal reserves available
  liability, but the holds exceed the balance by at most what a single request
  overlooked; overdrafts do not add up.  `ReconcileVault` then throws, since it refuses
  more holds than liabilities.
- `DepositLimitKept`: the limit counts credited deposits, not open intents.
- `PaidIsDue`: a lost answer of the signer takes a paid request back to "approved",
  where it can be rejected or submitted again.
- `FreezeHasCause`: a vault is frozen for a payment that is under way or a
  deposit credited between two reads, and no operation unfreezes it.
- `RefusedIsNotSeated`: the row of a seat in `table_seats` outlives its player, and the
  next one at that seat is seated in the log and told that joining failed.
- `CatchesUp`: an event delivered after the state is read and before the socket joins
  the group is announced to nobody; the next event repairs it.
- `CardsArrive`: a snapshot or a command's result that was read before the hand began and
  arrives after its cards wipes them, and so may late cards of an older hand.
- `CommandsAnswered`: leaving or reconnecting leaves the pending command pending
  (`app.js:858`), and an error does not give the leave button back (`app.js:950`).

Seen while modelling and outside the properties: a crash leaves a withdrawal in
"submitting" with nothing to resume it; the expiry of a decision is stored and
never checked by the custody service; a transfer for an intent whose time is over is
never credited; a frozen vault does not stop submission, finalisation or crediting;
`joinTable` checks a suspension before it seats, and an open socket is not
checked again.

## 6. Plan

Done: `Betting`, `Pots` and `Payouts`, `Table` over them, `TableLog` over `AtomicLog`, `Turns`,
`Escrow`, `Dealer` over `FairDeal`, `Custody` over `Compliance`, `Gateway` over `Lobby`, and
the proofs above.  Left, most important first:

1. A proof of `RefusedIsNotSeated`: what a request in flight knows of the table, as in `Dealer`.
2. Properties of the invitations and sessions of `Lobby` that take several requests to violate.
3. Larger instances: a second hand in `dealer`, a second wallet in `custody`, two
   observed players in `gateway`.

### Not modelled

- The hand evaluator: a pure function without state, on a space out of TLC's reach.  `Pots` takes
  its ranking as an input.
- The cryptography of the fair-deal protocol, and the settlement plan and its tree:
  functions of hashes, abstracted to what they commit to.
- `abortHand` and the audit of a hand: nothing in `src/` calls the first, and the
  second only reads.
- `createTable` as a command with a body, pausing, resuming and closing a table: no
  command emits those events.
- HTTP plumbing, read-only routes, configuration, release gates, monitoring and
  reports: they decide nothing about the state that the modules keep.
- Investments: quotes and unsigned orders of an external service.
- In the browser client, the views other than the table, and the wallets.
