------------------------------- MODULE Lobby -------------------------------
(***************************************************************************)
(* The way to a seat: the service of the beta (server/safe-beta-service.js *)
(* and server/beta-operations.js) admits players by invitation, keeps      *)
(* private rooms, and seats players at the table of a room.                *)
(*                                                                         *)
(* One room, with one table, whose commands are atomic because TableLog    *)
(* is.  Of the table this module keeps what a lobby and a browser see of   *)
(* it; Table says what happens there.  An invitation is redeemed under the *)
(* lock of its row, in one step.  joinTable takes effect in several.       *)
(***************************************************************************)
EXTENDS Integers, Sequences, FiniteSets, FiniteSetsExt, Functions, TLC

CONSTANTS
    Wallets,
    Operators,        \* of the wallets, those that need no invitation
    MaxUses,          \* of the invitation
    Seats,            \* how many the table has
    MaxAttempts,      \* to take a seat: 3
    Starts            \* who sits when it begins, in this order, whether they play, and
                      \* the bounds on what may come: [sitting, playing, quota]

ASSUME LobbyAssumption ==
    /\ Operators \subseteq Wallets /\ MaxUses \in 1..1000 /\ Seats \in 2..9
    /\ MaxAttempts \in Nat \ {0}

VARIABLES
    profiles,         \* of the wallets known: [status, access]
    sessions,         \* the wallets with a session
    invitation,       \* [uses, revoked], and redeemed, the wallets that used it
    members,          \* of the room, if it is private
    table,            \* [version, seats, hand, leaving]; hands are named by their first version
    seatKeys,         \* the version that the seat command of a wallet expected
    rows,             \* table_seats: the wallet of a seat
    requests,         \* to join the table, in the order they came
    quota             \* bounds: the requests that each wallet may still make (asks),
                      \* the version where others stop (version), and those of Gateway

people == <<profiles, sessions, invitation, members>>
seating == <<seatKeys, rows>>
lobby == <<people, table, seating, requests, quota>>

Public == {}          \* the members of a public room are not kept
NewProfile == [status |-> "active", access |-> FALSE]

\* The requests that the limits of rate let through, all in one window.
Ask(w) == quota.asks[w] > 0 /\ quota' = [quota EXCEPT !.asks[w] = @ - 1]
\* handleSafeBeta: a request with the token of a session.
SignedIn(w) == w \in sessions
Request(w) == SignedIn(w) /\ Ask(w)

----------------------------------------------------------------------------
(* Admission *)

EnsureProfile(w) == IF w \in DOMAIN profiles THEN profiles ELSE profiles @@ (w :> NewProfile)

\* redeemInvite, of a wallet: the row is locked from the check to the commit.
Redeemable == ~invitation.revoked /\ invitation.uses < MaxUses
RedeemInvite(w) ==
    /\ Redeemable
    /\ invitation' = IF w \in invitation.redeemed THEN invitation
                     ELSE [invitation EXCEPT !.uses = @ + 1, !.redeemed = @ \cup {w}]
    /\ profiles' = [EnsureProfile(w) EXCEPT ![w].access = TRUE]

\* issueGuest, for a wallet of its own making; a refused guest has a profile
\* and nothing else.
IssueGuest(w) ==
    /\ w \notin DOMAIN profiles /\ Ask(w)
    /\ \/ RedeemInvite(w) /\ sessions' = sessions \cup {w}
       \/ ~Redeemable /\ profiles' = EnsureProfile(w) /\ UNCHANGED <<sessions, invitation>>
    /\ UNCHANGED <<members, table, seating, requests>>

RedeemAccessInvite(w) ==
    /\ Request(w) /\ RedeemInvite(w)
    /\ UNCHANGED <<sessions, members, table, seating, requests>>

\* requireOperator
Operates(o) ==
    /\ o \in Operators /\ Request(o)
    /\ o \in DOMAIN profiles => profiles[o].status = "active"

RevokeInvite(o) ==
    /\ Operates(o) /\ invitation' = [invitation EXCEPT !.revoked = TRUE]
    /\ UNCHANGED <<profiles, sessions, members, table, seating, requests>>

\* moderatePlayer: neither the sessions nor the seats of a suspended player end.
ModeratePlayer(o, w, status) ==
    /\ Operates(o) /\ w \in DOMAIN profiles
    /\ profiles' = [profiles EXCEPT ![w].status = status]
    /\ UNCHANGED <<sessions, invitation, members, table, seating, requests>>

\* A session is revoked or its time is over.
EndSession(w) ==
    /\ Request(w) /\ sessions' = sessions \ {w}
    /\ UNCHANGED <<profiles, invitation, members, table, seating, requests>>

\* assertPlayable
Playable(w) ==
    /\ w \in DOMAIN profiles /\ profiles[w].status = "active"
    /\ profiles[w].access \/ w \in Operators

\* createPrivateRoom: the room, its owner and its code.
CreatePrivateRoom(w) ==
    /\ members = Public /\ table.version = 0 /\ requests = <<>>
    /\ Request(w) /\ Playable(w)
    /\ members' = {w}
    /\ UNCHANGED <<profiles, sessions, invitation, table, seating, requests>>

JoinPrivateRoom(w) ==
    /\ members # Public /\ Request(w) /\ Playable(w)
    /\ members' = members \cup {w}
    /\ UNCHANGED <<profiles, sessions, invitation, table, seating, requests>>

----------------------------------------------------------------------------
(* joinTable *)

Seated(w) == w \in DOMAIN table.seats
Goto(r, pc) == requests' = [requests EXCEPT ![r].pc = pc]
UnderWay(r) == requests[r].pc \notin {"done", "refused"}
Happens(next) == table' = [next EXCEPT !.version = table.version + 1]

\* The room, the player and the shard of the room.  Whether the player may play
\* is not looked at again.
AuthorizeJoin(w) ==
    /\ Request(w) /\ Playable(w) /\ (members = Public \/ w \in members)
    /\ LET others == {r \in DOMAIN requests : requests[r].wallet = w /\ UnderWay(r)}
           Disturb(r) == IF r \in others THEN [requests[r] EXCEPT !.alone = FALSE] ELSE requests[r]
       IN  requests' = Append([r \in DOMAIN requests |-> Disturb(r)],
               [wallet |-> w, pc |-> "find", alone |-> others = {},
                attempt |-> 0, expected |-> 0, seat |-> 0])
    /\ UNCHANGED <<people, table, seating>>

\* The table is created by whoever finds none.
CreateTable(r) ==
    /\ requests[r].pc = "find" /\ table.version = 0
    /\ Happens(table)
    /\ UNCHANGED <<people, seating, requests, quota>>

\* mutant: who has a seat takes one
FindSeatless(r) == requests[r].pc = "find" /\ table.version # 0 /\ Goto(r, "look")
FindSeat(r) ==
    /\ requests[r].pc = "find" /\ table.version # 0
    /\ Goto(r, IF Seated(requests[r].wallet) THEN "answer" ELSE "look")
Find(r) == FindSeat(r) /\ UNCHANGED <<people, table, seating, quota>>

Look(r) ==
    LET free == (0..(Seats - 1)) \ Range(table.seats)
    IN  /\ requests[r].pc = "look"
        /\ IF table.hand # 0 \/ free = {} THEN Goto(r, "refused")
           ELSE requests' = [requests EXCEPT ![r].pc = "sit", ![r].seat = Min(free),
                                             ![r].expected = table.version]
        /\ UNCHANGED <<people, table, seating, quota>>

\* seatPlayer.  The key of a wallet at a table is the same for ever, and the
\* command that it stands for contains the version.
Sit(r) ==
    LET w == requests[r].wallet
    IN  /\ requests[r].pc = "sit"
        /\ \/ /\ w \in DOMAIN seatKeys
              /\ Goto(r, IF seatKeys[w] = requests[r].expected THEN "row" ELSE "refused")
              /\ UNCHANGED <<table, seatKeys>>
           \/ /\ w \notin DOMAIN seatKeys /\ table.hand # 0
              /\ Goto(r, "refused")
              /\ UNCHANGED <<table, seatKeys>>
           \/ /\ w \notin DOMAIN seatKeys /\ table.hand = 0 /\ table.version # requests[r].expected
              /\ requests' = [requests EXCEPT ![r].attempt = @ + 1, ![r].pc =
                                IF requests[r].attempt + 1 = MaxAttempts THEN "refused" ELSE "look"]
              /\ UNCHANGED <<table, seatKeys>>
           \/ /\ w \notin DOMAIN seatKeys /\ table.hand = 0 /\ table.version = requests[r].expected
              /\ Happens([table EXCEPT !.seats = @ @@ (w :> requests[r].seat)])
              /\ seatKeys' = seatKeys @@ (w :> requests[r].expected)
              /\ Goto(r, "row")
        /\ UNCHANGED <<people, rows, quota>>

\* The row of the seat, which nobody removes: the primary key is the seat.
InsertRow(r) ==
    LET w == requests[r].wallet
    IN  /\ requests[r].pc = "row"
        /\ \/ /\ w \in Range(rows)
              /\ Goto(r, "answer") /\ UNCHANGED rows
           \/ /\ w \notin Range(rows) /\ requests[r].seat \notin DOMAIN rows
              /\ rows' = rows @@ (requests[r].seat :> w) /\ Goto(r, "answer")
           \/ /\ w \notin Range(rows) /\ requests[r].seat \in DOMAIN rows
              /\ Goto(r, "refused") /\ UNCHANGED rows
        /\ UNCHANGED <<people, table, seatKeys, quota>>

\* The table is read once more, and the dealer scheduled.
Answer(r) ==
    /\ requests[r].pc = "answer" /\ Goto(r, "done")
    /\ UNCHANGED <<people, table, seating, quota>>

----------------------------------------------------------------------------
(* The table *)

\* The dealer, the worker of timeouts and the other players.
StartHand == table.hand = 0 /\ Cardinality(DOMAIN table.seats) >= 2
             /\ Happens([table EXCEPT !.hand = table.version + 1])
PlayOn == table.hand # 0 /\ Happens(table)
FinishHand ==
    /\ table.hand # 0
    /\ Happens([table EXCEPT !.hand = 0, !.leaving = {},
                             !.seats = Restrict(@, DOMAIN @ \ table.leaving)])
\* Who leaves during a hand leaves when it is over.
LeaveSeat(w) ==
    /\ Seated(w)
    /\ Happens(IF table.hand # 0 THEN [table EXCEPT !.leaving = @ \cup {w}]
               ELSE [table EXCEPT !.seats = Restrict(@, DOMAIN @ \ {w})])
TableEvent ==
    /\ table.version < quota.version
    /\ StartHand \/ PlayOn \/ FinishHand \/ \E w \in Wallets : LeaveSeat(w)
    /\ UNCHANGED <<people, seating, requests, quota>>

----------------------------------------------------------------------------

\* Operators are known from the start; who sits was admitted and given a row.
LobbyInit ==
    \E start \in Starts :
        LET sitting == Range(start.sitting)
            version == (IF sitting = {} THEN 0 ELSE Len(start.sitting) + 1)
                       + (IF start.playing THEN 1 ELSE 0)
        IN  /\ profiles = [w \in Operators \cup sitting |->
                              [NewProfile EXCEPT !.access = w \notin Operators]]
            /\ sessions = Operators \cup sitting
            /\ invitation = [uses |-> Cardinality(sitting \ Operators), revoked |-> FALSE,
                             redeemed |-> sitting \ Operators]
            /\ members = Public
            /\ table = [version |-> version,
                        seats |-> [w \in sitting |->
                                     (CHOOSE i \in DOMAIN start.sitting : start.sitting[i] = w) - 1],
                        hand |-> IF start.playing THEN version ELSE 0, leaving |-> {}]
            /\ seatKeys = [w \in sitting |-> table.seats[w] + 1]
            /\ rows = [i \in Range(table.seats) |-> start.sitting[i + 1]]
            /\ requests = <<>>
            /\ quota = start.quota

LobbyStep ==
    \/ \E w \in Wallets :
          \/ IssueGuest(w) \/ RedeemAccessInvite(w) \/ EndSession(w)
          \/ CreatePrivateRoom(w) \/ JoinPrivateRoom(w) \/ AuthorizeJoin(w)
    \/ \E o \in Operators : RevokeInvite(o)
    \/ \E o \in Operators, w \in Wallets, status \in {"active", "suspended"} :
          ModeratePlayer(o, w, status)
    \/ \E r \in DOMAIN requests :
          CreateTable(r) \/ Find(r) \/ Look(r) \/ Sit(r) \/ InsertRow(r)
    \/ TableEvent

----------------------------------------------------------------------------
(* Properties *)

\* Action: who is refused has no seat - unless another request of the wallet
\* was under way, or the row of a player who left still has the seat: then the
\* player is seated and is told the opposite.
RefusedIsNotSeated ==
    [][\A r \in DOMAIN requests :
        requests[r].pc # "refused" /\ requests'[r].pc = "refused" =>
            \/ ~Seated(requests[r].wallet)
            \/ ~requests[r].alone
            \/ \E seat \in DOMAIN rows : /\ rows[seat] # requests[r].wallet
                                         /\ table.seats[requests[r].wallet] = seat]_lobby
============================================================================
