------------------------------ MODULE Gateway ------------------------------
(***************************************************************************)
(* What a player sees: the realtime server of a replica                    *)
(* (server/realtime.js) and the browser (app.js) of one player, over the   *)
(* lobby and its table.                                                    *)
(*                                                                         *)
(* An event of the table is committed, then published through Redis to the *)
(* replicas.  The server tells the socket of the player, who answers by    *)
(* asking for the state again; the state and the private cards are read at *)
(* one time, sent at another, and adopted at a third.                      *)
(***************************************************************************)
EXTENDS Lobby

CONSTANTS
    Player            \* who is observed

\* The quota of a start bounds too the connections that break (drops), the events
\* that Redis never delivers (losses) and the commands of the player (commands).
ASSUME GatewayAssumption ==
    /\ Player \in Wallets
    /\ \A start \in Starts :
          start.quota.drops \in Nat /\ start.quota.losses \in Nat /\ start.quota.commands \in Nat

VARIABLES
    client,           \* [at, link, version, hand, cards, decrypting, acting, leaving]
    socket,           \* [open, authenticated, joined, keyed, delivered, inbox, outbox]
    handler,          \* of the message queue of the socket: [pc, message, got]
    publishing,       \* publications of a started hand that are under way: [pc, got]
    bus,              \* events committed and not delivered: [version, started]
    history           \* [missed, wiped, unanswered], for the properties only

player == <<client, socket, handler, publishing>>
gateway == <<player, bus, history>>
all == <<lobby, gateway>>
place == <<people, table, seating, requests>>       \* all of the lobby but the quota

Idle == [pc |-> "idle"]
NoCards == 0          \* cards are named by their hand
NoHand == 0
NoSocket == [open |-> FALSE, authenticated |-> FALSE, joined |-> FALSE, keyed |-> FALSE,
             delivered |-> {}, inbox |-> <<>>, outbox |-> <<>>]

State == [version |-> table.version, hand |-> table.hand, seated |-> Seated(Player)]
Inbox(m) == Append(socket.inbox, m)
Spend(kind) == quota[kind] > 0 /\ quota' = [quota EXCEPT ![kind] = @ - 1]
Tell(m) == socket' = [socket EXCEPT !.inbox = Inbox(m)]

----------------------------------------------------------------------------
(* Events: commit, then publish *)

\* Every event of the table is published after its commit.  What is published
\* while the player is not at the table passes unseen.
Announce ==
    bus' = IF table' = table \/ client.at = "lobby" THEN bus
           ELSE bus \cup {[version |-> table'.version, started |-> table'.hand = table'.version]}

\* Redis delivers to the replica; a started hand needs the state as well.  A
\* group without the player may have other members.
Deliver(e) ==
    /\ e \in bus /\ bus' = bus \ {e}
    /\ socket' = IF socket.joined THEN [socket EXCEPT !.inbox = Inbox([type |-> "table_event"])] ELSE socket
    /\ \/ e.started /\ publishing' = publishing \cup {[pc |-> "read"]}
       \/ (~e.started \/ ~socket.joined) /\ UNCHANGED publishing
    /\ history' = IF ~socket.joined /\ handler.pc = "join" /\ handler.got.version < e.version
                  THEN [history EXCEPT !.missed = @ \cup {e.version}] ELSE history
    /\ UNCHANGED <<lobby, client, handler>>

\* Redis is away, or the process ends between the commit and the publication.
Lose(e) ==
    /\ e \in bus /\ Spend("losses")
    /\ bus' = bus \ {e}
    /\ history' = [history EXCEPT !.missed = @ \cup {e.version}]
    /\ UNCHANGED <<place, player>>

----------------------------------------------------------------------------
(* The server *)

Finish == handler' = Idle
Fail(m) == Finish /\ Tell([type |-> "error", of |-> m.type])

\* deliverHoleCards until it asks the dealer for the cards; mutant: nothing is
\* owed to a socket without a key
OfferUnkeyed(delivered, got) ==
    got.hand # NoHand /\ got.seated /\ got.hand \notin delivered
Offer(delivered, got) ==
    got.hand # NoHand /\ got.seated /\ got.hand \notin delivered /\ socket.keyed

\* The first message authenticates.  Later changes to the session do not reach
\* the socket.
Authenticate ==
    /\ socket.open /\ ~socket.authenticated /\ socket.outbox # <<>>
    /\ IF Player \in sessions
       THEN /\ socket' = [socket EXCEPT !.authenticated = TRUE, !.outbox = Tail(@),
                                        !.inbox = Inbox([type |-> "authenticated"])]
            /\ UNCHANGED client
       ELSE socket' = NoSocket /\ client' = [client EXCEPT !.link = "expired"]
    /\ UNCHANGED <<lobby, handler, publishing, bus, history>>

\* Messages of a socket are handled one after the other.
TakeMessage ==
    LET m == Head(socket.outbox)
    IN  /\ socket.authenticated /\ handler = Idle /\ socket.outbox # <<>>
        /\ socket' = [socket EXCEPT !.outbox = Tail(@), !.keyed = @ \/ m.type = "key_exchange"]
        /\ handler' = CASE m.type = "subscribe" -> [pc |-> "read", message |-> m]
                        [] m.type = "key_exchange" ->
                               IF socket.joined THEN [pc |-> "read", message |-> m] ELSE Idle
                        [] OTHER -> [pc |-> "commit", message |-> m]
        /\ UNCHANGED <<lobby, client, publishing, bus, history>>

AfterRead(m) == CASE m.type = "subscribe" -> "join" [] m.type = "key_exchange" -> "offer"
                  [] OTHER -> "answer"
ReadState ==
    /\ handler.pc = "read"
    /\ handler' = [pc |-> AfterRead(handler.message), message |-> handler.message, got |-> State]
    /\ UNCHANGED <<lobby, client, socket, publishing, bus, history>>

\* deliverHoleCards goes on, or ends, where it would ask the dealer for the cards.
GoOn(got) ==
    handler' = IF Offer(socket.delivered, got) THEN [handler EXCEPT !.pc = "cards"] ELSE Idle
Snapshot ==
    /\ socket' = [socket EXCEPT !.joined = TRUE,
                     !.inbox = Inbox([type |-> "table_snapshot", state |-> handler.got])]
    /\ GoOn(handler.got)

\* mutant: the socket joins the group with the snapshot
JoinLate ==
    IF handler.message.after < handler.got.version
    THEN handler' = [handler EXCEPT !.pc = "events"] /\ UNCHANGED socket
    ELSE Snapshot
Join ==
    IF handler.message.after < handler.got.version
    THEN handler' = [handler EXCEPT !.pc = "events"] /\ socket' = [socket EXCEPT !.joined = TRUE]
    ELSE Snapshot

\* subscribe: the state was read before the socket joins the group, and is sent
\* after the events are read.
Subscribe ==
    /\ \/ handler.pc = "join" /\ handler.got.seated /\ Join
       \/ handler.pc = "join" /\ ~handler.got.seated /\ Fail(handler.message)
       \/ handler.pc = "events" /\ Snapshot
    /\ UNCHANGED <<lobby, client, publishing, bus, history>>

\* establishHoleCardKey, after the key: the cards of the hand under way.
OfferCards ==
    /\ handler.pc = "offer" /\ GoOn(handler.got)
    /\ UNCHANGED <<lobby, client, socket, publishing, bus, history>>

\* The cards reach a socket that has their key.
Deal(hand) ==
    socket' = [socket EXCEPT !.delivered = @ \cup {hand},
                  !.inbox = IF socket.keyed THEN Inbox([type |-> "hole_cards", hand |-> hand]) ELSE @]
SendCards ==
    /\ handler.pc = "cards" /\ Deal(handler.got.hand) /\ Finish
    /\ UNCHANGED <<lobby, client, publishing, bus, history>>

\* A command for another version fails, and an act may also be too late.
Accepted(m) ==
    /\ table.version = m.expected
    /\ (m.type = "act" /\ PlayOn) \/ (m.type = "leave" /\ LeaveSeat(Player))
    /\ handler' = [handler EXCEPT !.pc = "read"] /\ UNCHANGED socket
Refused(m) == (m.type = "leave" /\ Seated(Player)) => table.version # m.expected

\* mutant: a command that fails is not answered
RunUnanswered(m) == Accepted(m) \/ (Refused(m) /\ Finish /\ UNCHANGED <<table, socket>>)
RunCommand(m) == Accepted(m) \/ (Refused(m) /\ Fail(m) /\ UNCHANGED table)
Command ==
    /\ handler.pc = "commit" /\ RunCommand(handler.message) /\ Announce
    /\ UNCHANGED <<people, seating, requests, quota, client, publishing, history>>

AnswerCommand ==
    /\ handler.pc = "answer" /\ Finish
    /\ Tell([type |-> "command_result", of |-> handler.message.type, state |-> handler.got])
    /\ UNCHANGED <<lobby, client, publishing, bus, history>>

Become(t, next) == publishing' = (publishing \ {t}) \cup {next}
\* publish, of a started hand: deliveries are forgotten, and made again.
Publish(t) ==
    /\ t \in publishing
    /\ \/ /\ t.pc = "read" /\ Become(t, [pc |-> "offer", got |-> State]) /\ UNCHANGED socket
       \/ /\ t.pc = "offer" /\ socket.joined
          /\ socket' = [socket EXCEPT !.delivered = {}]
          /\ IF Offer({}, t.got) THEN Become(t, [t EXCEPT !.pc = "cards"])
             ELSE publishing' = publishing \ {t}
       \/ t.pc = "offer" /\ ~socket.joined /\ publishing' = publishing \ {t} /\ UNCHANGED socket
       \/ t.pc = "cards" /\ Deal(t.got.hand) /\ publishing' = publishing \ {t}
    /\ UNCHANGED <<lobby, client, handler, bus, history>>

----------------------------------------------------------------------------
(* The browser *)

Say(ms) == socket' = [socket EXCEPT !.inbox = Tail(@), !.outbox = @ \o ms]
Resubscribe == [type |-> "subscribe", after |-> client.version]
Heard == socket' = [socket EXCEPT !.inbox = Tail(@)]

\* upgrade: what is refused drops again.
Upgraded == [NoSocket EXCEPT !.open = TRUE]

\* connectRealtime, and the open event of the new socket.
Connect ==
    /\ client.at = "table" /\ client.link \in {"connecting", "reconnecting"}
    /\ client' = [client EXCEPT !.link = "authenticating", !.decrypting = NoCards]
    /\ socket' = [Upgraded EXCEPT !.outbox = <<[type |-> "authenticate"]>>]
    /\ UNCHANGED <<lobby, handler, publishing, bus, history>>

\* adoptTableState.  A state older than the cards takes them away.
Adopt(c, state) ==
    /\ client' = [c EXCEPT !.version = state.version, !.hand = state.hand,
                           !.cards = IF @ = state.hand THEN @ ELSE NoCards]
    /\ history' = IF c.cards > state.version
                  THEN [history EXCEPT !.wiped = @ \cup {c.cards}] ELSE history

CompleteLeave(c) == [c EXCEPT !.at = "lobby", !.link = "offline", !.version = 0, !.hand = NoHand,
                              !.cards = NoCards, !.acting = FALSE, !.leaving = FALSE]
HangUp == socket' = NoSocket /\ handler' = Idle
Away == HangUp /\ publishing' = {} /\ bus' = {}

\* The socket authenticated: subscribe, and make a key.
HearAuthenticated(m) ==
    /\ m.type = "authenticated" /\ Say(<<Resubscribe, [type |-> "key_exchange"]>>)
    /\ client' = [client EXCEPT !.link = "live"]
    /\ UNCHANGED <<bus, handler, publishing, history>>
HearSnapshot(m) ==
    /\ m.type = "table_snapshot" /\ Heard /\ Adopt(client, m.state)
    /\ UNCHANGED <<bus, handler, publishing>>
HearResult(m) ==
    /\ m.type = "command_result"
    /\ IF m.of = "leave"
       THEN client' = CompleteLeave(client) /\ Away /\ UNCHANGED history
       ELSE /\ Heard /\ Adopt([client EXCEPT !.acting = FALSE], m.state)
            /\ UNCHANGED <<bus, handler, publishing>>
HearEvent(m) ==
    /\ m.type = "table_event" /\ Say(<<Resubscribe>>)
    /\ UNCHANGED <<bus, client, handler, publishing, history>>
\* Cards are decrypted one delivery at a time: a later one takes the place.
HearCards(m) ==
    /\ m.type = "hole_cards" /\ Heard /\ client' = [client EXCEPT !.decrypting = m.hand]
    /\ history' = IF client.decrypting > m.hand
                  THEN [history EXCEPT !.wiped = @ \cup {client.decrypting}] ELSE history
    /\ UNCHANGED <<bus, handler, publishing>>
\* An error gives the buttons back; that of leaving stays pressed.
HearError(m) ==
    /\ m.type = "error" /\ Heard /\ client' = [client EXCEPT !.acting = FALSE]
    /\ history' = [history EXCEPT !.unanswered = @ \/ m.of = "leave"]
    /\ UNCHANGED <<bus, handler, publishing>>

Receive ==
    /\ socket.inbox # <<>>
    /\ LET m == Head(socket.inbox)
       IN  \/ HearAuthenticated(m) \/ HearSnapshot(m) \/ HearResult(m) \/ HearEvent(m)
           \/ HearCards(m) \/ HearError(m)
    /\ UNCHANGED <<lobby>>

Decrypt ==
    /\ client.decrypting # NoCards
    /\ client' = [client EXCEPT !.cards = client.decrypting, !.decrypting = NoCards]
    /\ history' = IF client.cards > client.decrypting
                  THEN [history EXCEPT !.wiped = @ \cup {client.cards}] ELSE history
    /\ UNCHANGED <<lobby, socket, handler, publishing, bus>>

\* tableAction and leaveTable.  Without a live connection, leaving is only
\* looking away: the seat is kept.
Ready == client.at = "table" /\ client.link = "live"
SendCommand(type) ==
    /\ socket' = [socket EXCEPT !.outbox = Append(@, [type |-> type, expected |-> client.version])]
    /\ Spend("commands")
    /\ UNCHANGED <<place, handler, publishing, bus, history>>
Act == Ready /\ client.hand # NoHand /\ ~client.acting
       /\ client' = [client EXCEPT !.acting = TRUE] /\ SendCommand("act")
Leave == Ready /\ ~client.leaving /\ client' = [client EXCEPT !.leaving = TRUE] /\ SendCommand("leave")
LookAway ==
    /\ client.at = "table" /\ client.link # "live"
    /\ client' = CompleteLeave(client) /\ Away
    /\ Spend("commands")
    /\ UNCHANGED <<place, history>>

Unanswered == history' = [history EXCEPT !.unanswered = @ \/ client.acting \/ client.leaving]

\* go-lobby: what was asked stays asked.
GoLobby ==
    /\ client.at = "table" /\ client.link # "expired"
    /\ client' = [client EXCEPT !.at = "lobby", !.link = "offline"]
    /\ Away /\ Unanswered
    /\ Spend("commands")
    /\ UNCHANGED place

\* The socket closes: the network, the heartbeat, a limit, the end of a replica,
\* or, before it authenticated, five seconds.
Drop ==
    /\ socket.open
    /\ \E link \in {"reconnecting", "offline", "expired"} :
          /\ link = "expired" => ~socket.authenticated
          /\ client' = [client EXCEPT !.link = link]
    /\ HangUp /\ publishing' \in {{}, {t \in publishing : t.pc # "cards"}} /\ Unanswered
    /\ Spend("drops")
    /\ UNCHANGED <<place, bus>>
\* The browser is online again.
Online ==
    /\ client.at = "table" /\ client.link = "offline"
    /\ client' = [client EXCEPT !.link = "connecting"]
    /\ UNCHANGED <<lobby, socket, handler, publishing, bus, history>>

\* takeSeat, when joinTable answers.
OpenTable(r) ==
    /\ Answer(r) /\ requests[r].wallet = Player /\ client.at = "lobby"
    /\ client' = [client EXCEPT !.at = "table", !.link = "connecting", !.version = table.version,
                                !.hand = table.hand, !.cards = NoCards, !.decrypting = NoCards]
    /\ UNCHANGED <<socket, handler, publishing, bus, history>>
AnswerElsewhere(r) ==
    /\ Answer(r)
    /\ requests[r].wallet # Player \/ client.at = "table"
    /\ UNCHANGED gateway

----------------------------------------------------------------------------

Init ==
    /\ LobbyInit
    /\ client = [at |-> "lobby", link |-> "offline", version |-> 0, hand |-> NoHand,
                 cards |-> NoCards, decrypting |-> NoCards,
                 acting |-> FALSE, leaving |-> FALSE]
    /\ socket = NoSocket /\ handler = Idle /\ publishing = {} /\ bus = {}
    /\ history = [missed |-> {}, wiped |-> {}, unanswered |-> FALSE]

Serve == Authenticate \/ TakeMessage \/ ReadState \/ Subscribe \/ OfferCards \/ SendCards
         \/ Command \/ AnswerCommand
Browse == Connect \/ Receive \/ Decrypt
Next ==
    \/ LobbyStep /\ Announce /\ UNCHANGED <<player, history>>
    \/ \E r \in DOMAIN requests : OpenTable(r) \/ AnswerElsewhere(r)
    \/ \E e \in bus : Deliver(e) \/ Lose(e)
    \/ Serve \/ \E t \in publishing : Publish(t)
    \/ Browse \/ Act \/ Leave \/ LookAway \/ GoLobby \/ Drop \/ Online

Spec == Init /\ [][Next]_all
\* Redis, the event loops of the replica and of the browser, and the timer of the
\* reconnection go on.  Nobody has to come back online.
FairSpec ==
    /\ Spec
    /\ WF_all(\E e \in bus : Deliver(e))
    /\ WF_all(Serve) /\ WF_all(\E t \in publishing : Publish(t))
    /\ WF_all(Connect) /\ WF_all(Receive) /\ WF_all(Decrypt)

----------------------------------------------------------------------------
(* Properties *)

Watching == client.at = "table" /\ client.link \notin {"offline", "expired"} /\ Seated(Player)

\* Liveness: who watches the table sees its last event - unless Redis lost it,
\* or delivered it after the state was read and before the socket joined.
CatchesUp ==
    []<>(Watching => client.version = table.version \/ table.version \in history.missed)

\* Liveness: who sees the hand under way sees the cards of that hand - unless a state read
\* before the hand began, or the cards of an earlier one, came after them.
CardsArrive ==
    []<>(Watching /\ table.hand # NoHand /\ client.hand = table.hand =>
            client.cards = table.hand \/ table.hand \in history.wiped)

\* Liveness: a command is answered, and the buttons work again - unless the
\* connection broke meanwhile, or the player asked to leave and was refused.
CommandsAnswered ==
    []<>(client.acting \/ client.leaving => history.unanswered)
============================================================================
