------------------------------- MODULE Dealer -------------------------------
(***************************************************************************)
(* The dealer service: server/safe-beta-dealer.js drives each hand of a    *)
(* table through the commands of server/hand-coordinator.js, which append  *)
(* to the signed transcript of the hand, and those of the table.  A run of *)
(* a dealer holds a Redis lock that expires, keeps its secrets in Redis,   *)
(* and is woken by the events of the table.                                *)
(*                                                                         *)
(* The commands of the table and of the transcript are atomic (TableLog;   *)
(* postgres-hand-store.js appends in the same way); the steps of a run are *)
(* the stretches between them.  Betting is reduced to what a dealer sees   *)
(* of it: who acts is the subject of Betting and Table.  An event of the   *)
(* players is announced by a step of its own, after its commit: a crash, a *)
(* lost answer and the steps of the runs may come before it.               *)
(***************************************************************************)
EXTENDS Integers, Sequences, SequencesExt, FiniteSets, FiniteSetsExt, FairDeal

CONSTANTS
    Players,          \* a player is identified with its seat, counted from 1
    Dealers,          \* the runs, one or more of each replica
    NoDealer, NoHand, NoPreparation, NoDeck,
    Serving,          \* bound on the replicas at which a player may sit down
    MaxHands,         \* bound on the hands
    MaxGone,          \* bound on the players who are not active after a hand
    MaxMoves,         \* bound on the players who come and go
    MaxStreet,        \* bound on the board after which the betting may go on
    MaxAnnouncing,    \* bound on the events whose listeners are to be called
    MaxTroubles       \* bound on the crashes, expiries and faults together

ASSUME PlayersAssumption == Players \subseteq 1..9 /\ Cardinality(Players) >= 2
ASSUME BoundsAssumption ==
    MaxHands \in Nat /\ MaxGone \in Nat /\ MaxMoves \in Nat
    /\ MaxStreet \in {0, 3, 4, 5} /\ MaxAnnouncing \in Nat /\ MaxTroubles \in Nat
    /\ Serving \in [Players -> SUBSET Dealers]

Dead == "dead"      \* the token of a run that crashed

Rules == [game : {"NLH"}, seats : 0..9, boards : {1}, buttonSeat : 0..9]
Decks == [rules : Rules, seeds : SUBSET Players, beacon : Dealers]

ASSUME NamesAssumption ==
    /\ NoDealer \notin Dealers /\ Dead \notin Dealers /\ NoDealer # Dead
    /\ NoDeck \notin Decks
    /\ \A players \in SUBSET Players : players # NoPreparation

VARIABLES
    table,            \* the state of the table, as reduceTable gives it
    transcript,       \* the events of each hand
    preparation,      \* in Redis: the seeds of a hand, for the players of its setup
    committed,        \* in Redis: the secret deck of a hand
    lock,             \* in Redis: the run that holds the table, or a dead one
    dealer,           \* where each run is and what it read
    scheduled,        \* the runs whose timer is set
    announcing,       \* the events of players whose listeners are still to be called
    moves, troubles,  \* counters, bounded
    doubted,          \* a lock expired under a run, or an append's answer was lost (history)
    reseated,         \* who is active changed while a hand was prepared (history)
    unannounced       \* who came, and whether a betting round ended (0), with no
                      \* listener called, since a run last read the table (history)

redis == <<preparation, committed>>
bounds == <<moves, troubles, doubted, reseated>>
vars == <<table, transcript, redis, lock, dealer, scheduled, announcing, bounds, unannounced>>

Trouble == troubles < MaxTroubles /\ troubles' = troubles + 1

Idle == [pc |-> "idle"]

----------------------------------------------------------------------------
(* The transcript of a hand *)

\* The positions of the public cards, in the order they were revealed.
Revealed(events) ==
    LET upTo[n \in 0..Len(events)] ==
            IF n = 0 THEN <<>>
            ELSE IF events[n].type = "PUBLIC_CARD_REVEALED"
                 THEN Append(upTo[n - 1], events[n].position)
                 ELSE upTo[n - 1]
    IN  upTo[Len(events)]

\* reduceHand
ReduceHand(events) ==
    LET OfType(type) == {i \in 1..Len(events) : events[i].type = type}
        First(type) == events[Min(OfType(type))]
    IN  [version |-> Len(events),
         status |-> IF events = <<>> THEN "MISSING"
                    ELSE IF OfType("HAND_COMPLETED") # {} THEN "COMPLETE"
                    ELSE IF OfType("DECK_COMMITTED") # {} THEN "DEALING"
                    ELSE IF OfType("BEACON_RESERVED") # {} THEN "BEACON_RESERVED"
                    ELSE "COMMITTING",
         rules |-> IF events = <<>> THEN NoHand ELSE events[1].rules,
         players |-> IF events = <<>> THEN {} ELSE events[1].players,
         playerCommitments |-> {events[i].playerId : i \in OfType("PLAYER_COMMITTED")},
         beaconReservation |-> IF OfType("BEACON_RESERVED") = {} THEN NoHand
                               ELSE First("BEACON_RESERVED").round,
         deckRoot |-> IF OfType("DECK_COMMITTED") = {} THEN NoDeck
                      ELSE First("DECK_COMMITTED").deckRoot,
         publicPositions |-> Revealed(events)]

Hand(h) == ReduceHand(transcript[h])

\* mutant: only the last event is looked up
RecordedLast(h, event) == transcript[h] # <<>> /\ Last(transcript[h]) = event
\* An event of a hand is recorded once per key: the event stands for its key.
Recorded(h, event) == \E i \in DOMAIN transcript[h] : transcript[h][i] = event

Append1(h, event) == transcript' = [transcript EXCEPT ![h] = Append(@, event)]

----------------------------------------------------------------------------
(* The table *)

\* nextHandSetup; hand ids are numbers.
Seated(t) == SetToSortSeq(t.active, LAMBDA p, q : p < q)
ButtonOf(t) ==
    LET after == {p \in t.active : p > t.button}
    IN  IF t.button \notin t.active \/ after = {} THEN Min(t.active) ELSE Min(after)
NextHandSetup(t) ==
    [handId |-> t.handNumber + 1,
     buttonSeat |-> ButtonOf(t),
     players |-> t.active,
     rules |-> [game |-> "NLH", seats |-> Cardinality(t.active), boards |-> 1,
                buttonSeat |-> Cardinality({p \in t.active : p < ButtonOf(t)})]]

Wake(ds) == scheduled' = scheduled \cup ds

\* onTableEvent: whom an event wakes.  STREET_DEALT and RUNOUT_DEALT are one here,
\* and so are ACTION_APPLIED and ACTION_TIMED_OUT.
Listens(type, d) ==
    IF type \in {"PLAYER_SEATED", "ACTION_APPLIED", "BOARD_DEALT", "HAND_FINISHED"}
    THEN {d} ELSE {}

\* Somebody comes or goes, perhaps under a run that prepares a hand.
Move ==
    /\ moves < MaxMoves /\ moves' = moves + 1
    /\ table.status = "HAND_ACTIVE" \/ table.handNumber < MaxHands
    /\ reseated' = \/ reseated
                   \/ /\ table.status = "WAITING"
                      /\ \/ preparation[table.handNumber + 1] # NoPreparation
                         \/ \E d \in Dealers : dealer[d].pc \in {"prepare", "put"}

InHand(p) == table.status = "HAND_ACTIVE" /\ p \in table.players

\* #record after the commit of an event: when append has answered, the listeners
\* of the replica are to be called.  When its answer is lost they never are: the
\* command fails, and for its retry the event is a duplicate.
Committed(d, type, of) ==
    \/ /\ Cardinality(announcing) < MaxAnnouncing
       /\ announcing' = announcing \cup {[by |-> d, type |-> type, version |-> table'.version]}
       /\ unannounced' = unannounced \ {of}
       /\ UNCHANGED troubles
    \/ /\ Trouble
       /\ unannounced' = unannounced \cup {of}
       /\ UNCHANGED announcing

\* mutant: the listener leaves a dealer alone that has a run going
AnnounceToIdle(a) ==
    /\ a \in announcing
    /\ announcing' = announcing \ {a}
    /\ Wake(IF dealer[a.by].pc = "idle" THEN Listens(a.type, a.by) ELSE {})
    /\ UNCHANGED <<table, transcript, redis, lock, dealer, bounds, unannounced>>
\* The listeners are called, after that of the event bus: the dealer of the
\* replica is woken.
Announce(a) ==
    /\ a \in announcing
    /\ announcing' = announcing \ {a}
    /\ Wake(Listens(a.type, a.by))
    /\ UNCHANGED <<table, transcript, redis, lock, dealer, bounds, unannounced>>

\* A player sits down, between hands.  The service that answers the request wakes
\* the dealer of the replica once more, after the listeners.
Seat(p, d) ==
    /\ table.status = "WAITING" /\ p \notin table.active /\ d \in Serving[p] /\ Move
    /\ table' = [table EXCEPT !.version = @ + 1, !.active = @ \cup {p}]
    /\ Committed(d, "PLAYER_SEATED", p)
    /\ UNCHANGED <<transcript, redis, lock, dealer, scheduled, doubted>>

\* A player who sat out returns: no listener of PLAYER_RETURNED.
Return(p) ==
    /\ p \notin table.active /\ ~InHand(p) /\ Move
    /\ table' = [table EXCEPT !.version = @ + 1, !.active = @ \cup {p}]
    /\ unannounced' = unannounced \cup {p}
    /\ UNCHANGED <<transcript, redis, lock, dealer, scheduled, announcing, troubles, doubted>>

\* A player sits out or leaves.  Of the players of a hand it only sets a flag,
\* which FinishHand may apply.
Go(p) ==
    /\ p \in table.active /\ Move
    /\ table' = [table EXCEPT !.version = @ + 1,
                              !.active = IF InHand(p) THEN @ ELSE @ \ {p}]
    /\ unannounced' = unannounced \ {p}
    /\ UNCHANGED <<transcript, redis, lock, dealer, scheduled, announcing, troubles, doubted>>

\* What the betting of a hand may have become when a round is over.
RoundEnds(board) ==
    {"COMPLETE"} \cup (IF Len(board) = 5 THEN {"SHOWDOWN"}
                       ELSE {"AWAITING_RUNOUT"})
    \cup (IF Len(board) < MaxStreet THEN {"AWAITING_DEAL"} ELSE {})

\* The action or timeout that ends a betting round; those before it do not
\* concern the dealer, but for the versions, which Go also moves.
Act(d) ==
    /\ table.status = "HAND_ACTIVE" /\ table.betting = "BETTING"
    /\ \E next \in RoundEnds(table.board) :
          table' = [table EXCEPT !.version = @ + 1, !.betting = next]
    /\ Committed(d, "ACTION_APPLIED", 0)
    /\ UNCHANGED <<transcript, redis, lock, dealer, scheduled, moves, doubted, reseated>>

----------------------------------------------------------------------------
(* A run: its lock *)

At(d, pc) == dealer[d].pc = pc
Goto(d, pc) == dealer' = [dealer EXCEPT ![d].pc = pc]
Fail(d) == Goto(d, "failed") /\ UNCHANGED <<table, transcript, redis, scheduled>>

\* #withLock; a run that does not get the lock is scheduled again.
Acquire(d) ==
    /\ At(d, "idle") /\ d \in scheduled /\ lock = NoDealer
    /\ lock' = d
    /\ scheduled' = scheduled \ {d}
    /\ Goto(d, "run")
    /\ UNCHANGED <<table, transcript, redis, announcing, bounds, unannounced>>

\* The lock is deleted only if it is still this run's; a run that failed is
\* scheduled again.
Release(d) ==
    /\ At(d, "release") \/ At(d, "failed")
    /\ lock' = IF lock = d THEN NoDealer ELSE lock
    /\ Wake(IF At(d, "failed") THEN {d} ELSE {})
    /\ dealer' = [dealer EXCEPT ![d] = Idle]
    /\ UNCHANGED <<table, transcript, redis, announcing, bounds, unannounced>>

\* run: the read of the table.
ReadTable(d) ==
    /\ At(d, "run")
    /\ unannounced' = {}
    /\ dealer' = [dealer EXCEPT ![d] =
          IF table.status = "HAND_ACTIVE" THEN [pc |-> "advance"]
          ELSE IF Cardinality(table.active) < 2 \/ table.handNumber = MaxHands
               THEN [pc |-> "release"]
               ELSE [pc |-> "prepare", setup |-> NextHandSetup(table)]]
    /\ UNCHANGED <<table, transcript, redis, lock, scheduled, announcing, bounds>>

----------------------------------------------------------------------------
(* A run: the preparation of a hand *)

Id(d) == dealer[d].setup.handId
Keep == UNCHANGED <<lock, announcing, bounds, unannounced>>

\* Where a run goes once it has its seeds, or recorded an event of a hand.
Look(d, pc, log) ==
    dealer' = [dealer EXCEPT ![d] = [pc |-> pc, setup |-> @.setup, seen |-> Len(log)]]

GetPreparation(d) ==
    /\ At(d, "prepare")
    /\ IF preparation[Id(d)] = NoPreparation THEN Goto(d, "put")
       ELSE Look(d, "hand", transcript[Id(d)])
    /\ UNCHANGED <<table, transcript, redis, scheduled>> /\ Keep

\* putPreparation: fresh seeds conflict with those another run put.
PutPreparation(d) ==
    /\ At(d, "put")
    /\ \/ /\ preparation[Id(d)] = NoPreparation
          /\ preparation' = [preparation EXCEPT ![Id(d)] = dealer[d].setup.players]
          /\ Look(d, "hand", transcript[Id(d)])
          /\ UNCHANGED <<table, transcript, committed, scheduled>>
       \/ preparation[Id(d)] # NoPreparation /\ Fail(d)
    /\ Keep

\* The hand as the run last read it.
Seen(d) == ReduceHand(SubSeq(transcript[Id(d)], 1, dealer[d].seen))
Seeds(d) == preparation[Id(d)]
Fresh(d) == dealer[d].seen = Len(transcript[Id(d)])

\* #replay and #record: an event recorded before is not recorded again, another
\* is recorded on the version the run has read, if the hand allows it.
Record(d, event, allowed, pc) ==
    \/ /\ Recorded(Id(d), event)
       /\ Look(d, pc, transcript[Id(d)])
       /\ UNCHANGED <<table, transcript, redis, scheduled>>
    \/ /\ ~Recorded(Id(d), event) /\ allowed /\ Fresh(d)
       /\ Append1(Id(d), event)
       /\ Look(d, pc, transcript'[Id(d)])
       /\ UNCHANGED <<table, redis, scheduled>>
    \/ ~Recorded(Id(d), event) /\ ~(allowed /\ Fresh(d)) /\ Fail(d)

OpenHand(d) ==
    /\ At(d, "hand") /\ Seen(d).status = "MISSING"
    /\ Record(d, [type |-> "HAND_OPENED", rules |-> dealer[d].setup.rules,
                  players |-> dealer[d].setup.players], TRUE, "hand")
    /\ Keep

SubmitPlayerCommitment(d) ==
    LET open == Seeds(d) \ Seen(d).playerCommitments
    IN  /\ At(d, "hand") /\ Seen(d).status = "COMMITTING" /\ open # {}
        /\ Record(d, [type |-> "PLAYER_COMMITTED", playerId |-> Min(open)],
                  Hand(Id(d)).status = "COMMITTING" /\ Min(open) \in Hand(Id(d)).players,
                  "hand")
        /\ Keep

\* The reservation is of a round of its own, which the name of the run stands
\* for, so another run's is a conflict.
ReserveBeacon(d) ==
    /\ At(d, "hand") /\ Seen(d).status = "COMMITTING"
    /\ Seeds(d) \subseteq Seen(d).playerCommitments
    /\ Record(d, [type |-> "BEACON_RESERVED", round |-> d],
              /\ Hand(Id(d)).status = "COMMITTING"
              /\ Hand(Id(d)).playerCommitments = Hand(Id(d)).players, "hand")
    /\ Keep

Deck(d) == CommittedHand(Seen(d).rules, Seeds(d), Seen(d).beaconReservation)
DeckEvent(d) == [type |-> "DECK_COMMITTED", deckRoot |-> Deck(d)]

\* mutant: the put of the secret is not awaited, and lost
PutSecretUnawaited(d) == committed' \in {committed, [committed EXCEPT ![Id(d)] = Deck(d)]}
PutSecret(d) == committed' = [committed EXCEPT ![Id(d)] = Deck(d)]

\* commitDeck, after the beacon: the seeds are those committed to, and the
\* secret is stored before the deck is recorded.
StoreDeck(d) ==
    /\ At(d, "hand") /\ Seen(d).status = "BEACON_RESERVED"
    /\ \/ /\ Recorded(Id(d), DeckEvent(d))
          /\ Look(d, "hand", transcript[Id(d)])
          /\ UNCHANGED <<table, transcript, redis, scheduled>>
       \/ /\ ~Recorded(Id(d), DeckEvent(d))
          /\ Seeds(d) = Hand(Id(d)).playerCommitments
          /\ committed[Id(d)] \in {NoDeck, Deck(d)}
          /\ PutSecret(d)
          /\ dealer' = [dealer EXCEPT ![d] =
                [pc |-> "find", setup |-> @.setup, seen |-> @.seen,
                 inserted |-> committed[Id(d)] = NoDeck]]
          /\ UNCHANGED <<table, transcript, preparation, scheduled>>
       \/ /\ ~Recorded(Id(d), DeckEvent(d))
          /\ Seeds(d) # Hand(Id(d)).playerCommitments
             \/ committed[Id(d)] \notin {NoDeck, Deck(d)}
          /\ Fail(d)
    /\ Keep

\* append: its look-up of the key comes before the lock on the hand.
FindDeck(d) ==
    /\ At(d, "find")
    /\ IF Recorded(Id(d), DeckEvent(d)) THEN Look(d, "hand", transcript[Id(d)])
       ELSE Goto(d, "append")
    /\ UNCHANGED <<table, transcript, redis, scheduled>> /\ Keep

\* The answer of an append that took effect may be lost.
AppendDeck(d) ==
    /\ At(d, "append")
    /\ \/ /\ Fresh(d)
          /\ Append1(Id(d), DeckEvent(d))
          /\ \/ Look(d, "hand", transcript'[Id(d)]) /\ UNCHANGED <<troubles, doubted>>
             \/ Goto(d, "undo") /\ Trouble /\ doubted' = TRUE
       \/ ~Fresh(d) /\ Goto(d, "undo") /\ UNCHANGED <<transcript, troubles, doubted>>
    /\ UNCHANGED <<table, redis, scheduled, announcing, lock, moves, reseated, unannounced>>

\* After an error, the run that put the secret deletes it.
UndoDeck(d) ==
    /\ At(d, "undo")
    /\ committed' = [committed EXCEPT ![Id(d)] = IF dealer[d].inserted THEN NoDeck ELSE @]
    /\ Goto(d, "failed")
    /\ UNCHANGED <<table, transcript, preparation, scheduled>> /\ Keep

\* The second read of the table, with the deck committed.
ReadForStart(d) ==
    /\ At(d, "hand") /\ Seen(d).status \in {"DEALING", "COMPLETE"}
    /\ dealer' = [dealer EXCEPT ![d] =
          IF Seen(d).status = "DEALING" /\ table.status = "WAITING"
          THEN [pc |-> "start", setup |-> @.setup, seen |-> @.seen, view |-> table.version]
          ELSE [pc |-> "advance"]]
    /\ UNCHANGED <<table, transcript, redis, scheduled>> /\ Keep

\* A command of the table that was computed on the version it read: it takes
\* effect, or another run's command with the same key and input did, or it fails.
TableCommand(d, takesEffect, next) ==
    \/ /\ table.version = dealer[d].view /\ takesEffect
       /\ dealer' = [dealer EXCEPT ![d] = [pc |-> next]]
       /\ UNCHANGED <<transcript, redis>>
    \/ /\ table.version # dealer[d].view /\ table.dealtAt = dealer[d].view
       /\ dealer' = [dealer EXCEPT ![d] = [pc |-> next]]
       /\ UNCHANGED <<table, transcript, redis, scheduled>>

\* startHand of the table: for the players who are active now.
StartHand(d) ==
    LET setup == NextHandSetup(table)
        possible == Cardinality(table.active) >= 2 /\ setup.handId = Id(d)
    IN  /\ At(d, "start")
        /\ \/ TableCommand(d,
                /\ possible
                /\ \E betting \in {"BETTING", "AWAITING_RUNOUT"} :
                      table' = [table EXCEPT
                        !.version = @ + 1, !.dealtAt = table.version,
                        !.status = "HAND_ACTIVE", !.handNumber = setup.handId,
                        !.button = setup.buttonSeat, !.players = setup.players,
                        !.rules = setup.rules, !.deckRoot = Seen(d).deckRoot,
                        !.board = <<>>, !.betting = betting]
                /\ UNCHANGED scheduled, "advance")
           \/ /\ IF table.version = dealer[d].view THEN ~possible
                 ELSE table.dealtAt # dealer[d].view
              /\ Fail(d)
        /\ Keep

----------------------------------------------------------------------------
(* A run: the hand in progress *)

\* mutant: the rest of the board at once
WantedAll(t) == SubSeq(BoardPositions(t.rules), Len(t.board) + 1, 5)
\* The cards the table waits for.
Wanted(t) ==
    LET positions == BoardPositions(t.rules)
        upTo == IF t.betting = "AWAITING_RUNOUT" THEN 5
                ELSE IF t.board = <<>> THEN 3 ELSE Len(t.board) + 1
    IN  SubSeq(positions, Len(t.board) + 1, upTo)

\* The state of the table and then of the hand is read for every step.
Advance(d) ==
    /\ At(d, "advance")
    /\ dealer' = [dealer EXCEPT ![d] =
          IF table.status # "HAND_ACTIVE" \/ table.betting = "BETTING" THEN [pc |-> "release"]
          ELSE [pc |-> IF table.betting \in {"COMPLETE", "SHOWDOWN"} THEN "complete" ELSE "reveal",
                setup |-> [handId |-> table.handNumber],
                seen |-> Len(transcript[table.handNumber]),
                view |-> table.version,
                wanted |-> IF table.betting \in {"COMPLETE", "SHOWDOWN"} THEN <<>> ELSE Wanted(table)]]
    /\ unannounced' = unannounced \ {0}
    /\ UNCHANGED <<table, transcript, redis, lock, scheduled, announcing, bounds>>

\* revealPublicCard: the next position of the hand's own deal map, from the
\* secret, and what the hand was after it.
RevealPublicCard(d) ==
    LET h == Id(d)
        hand == Hand(h)
        position == Head(dealer[d].wanted)
        event == [type |-> "PUBLIC_CARD_REVEALED", position |-> position]
        next == [dealer EXCEPT ![d].wanted = Tail(@), ![d].seen = Len(transcript'[h])]
        known == /\ position \in Range(BoardPositions(hand.rules))
                 /\ committed[h] # NoDeck
        allowed == /\ known
                   /\ hand.status = "DEALING"
                   /\ IsPrefix(Append(hand.publicPositions, position), BoardPositions(hand.rules))
                   /\ Fresh(d)
    IN  /\ At(d, "reveal") /\ dealer[d].wanted # <<>>
        /\ \/ /\ known /\ Recorded(h, event)
              /\ UNCHANGED transcript
              /\ dealer' = next
           \/ /\ ~Recorded(h, event) /\ allowed
              /\ Append1(h, event)
              /\ dealer' = next
           \/ /\ IF Recorded(h, event) THEN ~known ELSE ~allowed
              /\ Goto(d, "failed")
              /\ UNCHANGED transcript
        /\ UNCHANGED <<table, redis, scheduled>> /\ Keep

\* dealStreet and dealRunout: the cards revealed become the board.  The event of
\* a run's own command wakes the dealer while the run goes on; a crash or a lost
\* answer before that is one after it, for either has the dealer scheduled.
DealBoard(d) ==
    /\ At(d, "reveal") /\ dealer[d].wanted = <<>>
    /\ \/ TableCommand(d,
            /\ table' = [table EXCEPT
                 !.version = @ + 1, !.dealtAt = table.version,
                 !.board = @ \o Wanted(table),
                 !.betting = IF @ = "AWAITING_RUNOUT" THEN "SHOWDOWN" ELSE "BETTING"]
            /\ Wake(Listens("BOARD_DEALT", d)), "advance")
       \/ table.version # dealer[d].view /\ table.dealtAt # dealer[d].view /\ Fail(d)
    /\ Keep

\* completeHand: the secret becomes the audit bundle.
CompleteHand(d) ==
    LET h == Id(d)
        secret == committed[h] # NoDeck /\ committed[h] = Hand(h).deckRoot
        Finish == dealer' = [dealer EXCEPT ![d] =
                     [pc |-> "finish", view |-> @.view, bundle |-> AuditBundle(committed[h])]]
    IN  /\ At(d, "complete")
        /\ \/ /\ secret /\ Recorded(h, [type |-> "HAND_COMPLETED"])
              /\ Finish
              /\ UNCHANGED <<table, transcript, redis, scheduled>>
           \/ /\ secret /\ Hand(h).status = "DEALING" /\ Fresh(d)
              /\ Append1(h, [type |-> "HAND_COMPLETED"])
              /\ Finish
              /\ UNCHANGED <<table, redis, scheduled>>
           \/ /\ \/ ~secret
                 \/ Hand(h).status = "DEALING" /\ ~Fresh(d)
              /\ Fail(d)
        /\ Keep

\* finishHand: the audit bundle must be of the hand the table played, with its
\* board.  The players of the hand who asked to sit out or leave, or lost all,
\* are not active after it.
FinishHand(d) ==
    LET audited == /\ Verified(dealer[d].bundle)
                   /\ dealer[d].bundle.deckRoot = table.deckRoot
                   /\ dealer[d].bundle.rules = table.rules
                   /\ IsPrefix(table.board, BoardPositions(table.rules))
    IN  /\ At(d, "finish")
        /\ \/ TableCommand(d,
                /\ audited
                /\ \E gone \in {g \in SUBSET table.players : Cardinality(g) <= MaxGone} :
                      table' = [table EXCEPT
                        !.version = @ + 1, !.dealtAt = table.version,
                        !.status = "WAITING", !.active = @ \ gone, !.players = {},
                        !.rules = NoHand, !.deckRoot = NoDeck, !.board = <<>>,
                        !.betting = "NONE"]
                /\ Wake(Listens("HAND_FINISHED", d)), "release")
           \/ /\ IF table.version = dealer[d].view THEN ~audited
                 ELSE table.dealtAt # dealer[d].view
              /\ Fail(d)
        /\ Keep

----------------------------------------------------------------------------
(* The cards of the players *)

\* The positions of the cards of a player, by its place among the players.
HoleCards(rules, p, players) ==
    Range(DealPlan(rules).holeCards[Cardinality({q \in players : q < p})])

\* holeCardsFor: what a player is shown, if the hand and its secret are there.
HoleCardsFor(h, p) ==
    LET hand == Hand(h)
    IN  IF /\ hand.status = "DEALING" /\ p \in hand.players
           /\ committed[h] # NoDeck /\ committed[h] = hand.deckRoot
        THEN HoleCards(hand.rules, p, hand.players) ELSE {}

\* finishHand: what a player is settled with.
SettledWith(p) == HoleCards(table.rules, p, table.players)

----------------------------------------------------------------------------
(* Faults *)

\* A replica crashes and starts again: what it was to announce is lost, and its
\* recovery schedules the table.
Crash(d) ==
    /\ ~At(d, "idle") \/ \E a \in announcing : a.by = d
    /\ Trouble
    /\ dealer' = [dealer EXCEPT ![d] = Idle]
    /\ lock' = IF lock = d THEN Dead ELSE lock
    /\ announcing' = {a \in announcing : a.by # d}
    /\ Wake({d})
    /\ UNCHANGED <<table, transcript, redis, moves, doubted, reseated, unannounced>>

\* The 30 s of the lock pass, under a run that is still going or after a crash.
Expire ==
    /\ \/ lock = Dead /\ UNCHANGED <<troubles, doubted>>
       \/ lock \in Dealers /\ Trouble /\ doubted' = TRUE
    /\ lock' = NoDealer
    /\ UNCHANGED <<table, transcript, redis, dealer, scheduled, announcing, moves, reseated,
                   unannounced>>

\* A store, the signer or the beacon fails, or its answer is lost.
Fault(d) ==
    /\ dealer[d].pc \notin {"idle", "release", "failed"} /\ Trouble
    /\ Goto(d, IF dealer[d].pc \in {"find", "append"} THEN "undo" ELSE "failed")
    /\ UNCHANGED <<table, transcript, redis, lock, scheduled, announcing, moves, doubted,
                   reseated, unannounced>>

----------------------------------------------------------------------------

\* A table at which one player sits.
Init ==
    /\ table = [version |-> 2, status |-> "WAITING", handNumber |-> 0, active |-> {Min(Players)},
                button |-> 0, players |-> {}, rules |-> NoHand, deckRoot |-> NoDeck,
                board |-> <<>>, betting |-> "NONE", dealtAt |-> 0]
    /\ transcript = [h \in 1..MaxHands |-> <<>>]
    /\ preparation = [h \in 1..MaxHands |-> NoPreparation]
    /\ committed = [h \in 1..MaxHands |-> NoDeck]
    /\ lock = NoDealer
    /\ dealer = [d \in Dealers |-> Idle]
    /\ scheduled = {} /\ announcing = {}
    /\ moves = 0 /\ troubles = 0 /\ doubted = FALSE /\ reseated = FALSE
    /\ unannounced = {}

RunStep(d) ==
    \/ Acquire(d) \/ ReadTable(d) \/ Release(d)
    \/ GetPreparation(d) \/ PutPreparation(d)
    \/ OpenHand(d) \/ SubmitPlayerCommitment(d) \/ ReserveBeacon(d)
    \/ StoreDeck(d) \/ FindDeck(d) \/ AppendDeck(d) \/ UndoDeck(d)
    \/ ReadForStart(d) \/ StartHand(d)
    \/ Advance(d) \/ RevealPublicCard(d) \/ DealBoard(d)
    \/ CompleteHand(d) \/ FinishHand(d)

Next ==
    \/ \E p \in Players : Return(p) \/ Go(p) \/ \E d \in Dealers : Seat(p, d)
    \/ \E d \in Dealers : Act(d) \/ RunStep(d) \/ Crash(d) \/ Fault(d)
    \/ \E a \in announcing : Announce(a)
    \/ Expire

Spec == Init /\ [][Next]_vars

\* A run always has a next step, and a set timer fires when the lock is free.
CanRun(d) == ~At(d, "idle") \/ (d \in scheduled /\ lock = NoDealer)

\* Timers fire and runs go on, the listeners of committed events are called, and
\* the lock of a dead run expires.  This is weak fairness of RunStep(d), Announce
\* and Expire without ENABLED: each step of a run changes where the run is, only
\* Announce and finitely many crashes take an event away, and the lock of a dead
\* run is only released by Expire.
Fairness ==
    /\ \A d \in Dealers : []<>~CanRun(d) \/ []<><<TRUE>>_(dealer[d])
    /\ []<>(announcing = {}) \/ []<><<announcing \ announcing' # {}>>_announcing
    /\ []<>(lock # Dead)
FairSpec == Spec /\ Fairness

----------------------------------------------------------------------------
(* Properties *)

\* The cards of the transcript that the betting of the table calls for.
DueCards ==
    CASE table.betting = "AWAITING_RUNOUT" -> 5
      [] table.betting = "AWAITING_DEAL" -> IF table.board = <<>> THEN 3 ELSE Len(table.board) + 1
      [] OTHER -> Len(table.board)

\* Safety, over crashes, faults and two runs at once: the table plays the deck
\* that is committed in the transcript; no card is on the board before the
\* transcript revealed it, none is revealed before the betting calls for it,
\* and a hand is finished only with a complete transcript.
TableFollowsTranscript ==
    /\ table.status = "HAND_ACTIVE" =>
          LET hand == Hand(table.handNumber)
          IN  /\ hand.status \in {"DEALING", "COMPLETE"}
              /\ table.deckRoot = hand.deckRoot
              /\ IsPrefix(table.board, hand.publicPositions)
              /\ Len(hand.publicPositions) <= DueCards
    /\ \A h \in 1..table.handNumber :
          (h < table.handNumber \/ table.status = "WAITING") => Hand(h).status = "COMPLETE"

\* Safety: the table deals in the players whose seeds are in the deck, and each
\* is shown, while the hand is dealt, the cards it is settled with, which no
\* other player and no board has - unless somebody came or went while the hand
\* was prepared: startHand compares no players with those of the transcript.
CardsShownAreCardsPlayed ==
    LET h == table.handNumber
        hand == Hand(h)
        secret == hand.status = "DEALING" /\ committed[h] # NoDeck
        board == Range(BoardPositions(table.rules))
    IN  table.status = "HAND_ACTIVE" /\ ~reseated =>
          /\ table.players = hand.players
          /\ hand.deckRoot.seeds = hand.players
          /\ \A p \in table.players :
                LET cards == SettledWith(p)
                IN  /\ HoleCardsFor(h, p) = IF secret THEN cards ELSE {}
                    /\ cards \cap board = {}
                    /\ \A q \in table.players \ {p} : cards \cap SettledWith(q) = {}

\* Safety: the secret of a committed deck is kept until the hand is over, over
\* crashes.  A lock that expires under a run, or an append whose answer is lost,
\* makes commitDeck delete the secret of a deck that was recorded.
SecretKept ==
    ~doubted =>
        \A h \in 1..MaxHands : Hand(h).status = "DEALING" => committed[h] # NoDeck

\* What only a dealer can do: start a hand, deal its cards, finish it.
Awaits ==
    \/ /\ table.status = "WAITING" /\ table.handNumber < MaxHands
       /\ Cardinality(table.active) >= 2
    \/ table.status = "HAND_ACTIVE" /\ table.betting # "BETTING"
Asleep == scheduled = {} /\ announcing = {} /\ \A d \in Dealers : At(d, "idle")

\* Safety: a table that waits for its dealer has a run going or scheduled, or an
\* event that is still to be announced.  The exceptions: a player without whom
\* there would not be two came back, and PLAYER_RETURNED has no listener; or it
\* sat down, or the betting round ended, by an event that is in the log but
\* whose append was not answered.
NoLostWakeup ==
    Awaits /\ Asleep =>
        IF table.status = "WAITING" THEN Cardinality(table.active \ unannounced) < 2
        ELSE 0 \in unannounced

\* Of a hand that can no longer go on: opened or started for other players than
\* the seeds are of, or without its secret.
Wedged ==
    \E h \in 1..MaxHands :
        LET hand == Hand(h)
        IN  \/ hand.status # "MISSING" /\ hand.players # preparation[h]
            \/ table.handNumber = h /\ table.status = "HAND_ACTIVE" /\ table.rules # hand.rules
            \/ hand.status \in {"DEALING", "COMPLETE"} /\ committed[h] = NoDeck

\* Liveness: no table waits for its dealer for ever, whatever crashed, failed or
\* was left half done, unless the hand is wedged or nobody was woken.
DealerGetsOn == []<>(~Awaits \/ Asleep \/ Wedged)
============================================================================
