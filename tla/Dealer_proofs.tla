--------------------------- MODULE Dealer_proofs ---------------------------
(***************************************************************************)
(* The dealer, for any number of runs and hands, any seats, and whatever   *)
(* crashes, fails or expires: the table follows the signed transcript,     *)
(* players are shown the cards they are settled with, the secret of a deck *)
(* outlives the hand, and no table waits for a dealer that nobody wakes.   *)
(***************************************************************************)
EXTENDS Dealer, FiniteSetTheorems, SequenceTheorems, WellFoundedInduction, TLAPS

Hands == 1..MaxHands
Has(s, type) == \E i \in 1..Len(s) : s[i].type = type
Event ==
    [type : {"HAND_OPENED"}, rules : Rules, players : SUBSET Players]
    \cup [type : {"PLAYER_COMMITTED"}, playerId : Players]
    \cup [type : {"BEACON_RESERVED"}, round : Dealers]
    \cup [type : {"DECK_COMMITTED"}, deckRoot : Decks]
    \cup [type : {"PUBLIC_CARD_REVEALED"}, position : Nat]
    \cup [type : {"HAND_COMPLETED"}]

Awaiting == {"AWAITING_RUNOUT", "AWAITING_DEAL"}
Ended == {"COMPLETE", "SHOWDOWN"}
TableType ==
    [version : Nat, status : {"WAITING", "HAND_ACTIVE"}, handNumber : 0..MaxHands,
     active : SUBSET Players, button : 0..9, players : SUBSET Players,
     rules : Rules \cup {NoHand}, deckRoot : Decks \cup {NoDeck}, board : Seq(Nat),
     betting : {"BETTING", "NONE"} \cup Awaiting \cup Ended, dealtAt : Nat]
Active == table.status = "HAND_ACTIVE"

----------------------------------------------------------------------------
(* Types, and what a transcript holds *)

Preparing == {"prepare", "put", "hand", "find", "append", "undo", "start"}
Logging == {"hand", "find", "append", "undo", "start"}
Viewing == {"start", "reveal", "complete", "finish"}
Log(d) == transcript[Id(d)]
Read(d) == SubSeq(Log(d), 1, dealer[d].seen)

RunOK(d) ==
    LET call == dealer[d]
    IN  /\ "pc" \in DOMAIN call
        /\ call.pc \in {"idle", "run", "advance", "release", "failed", "reveal", "complete", "finish"}
                       \cup Preparing
        /\ call.pc \in Preparing =>
              /\ Id(d) \in Hands /\ call.setup.players \in SUBSET Players /\ call.setup.rules \in Rules
        /\ call.pc = "prepare" => call = [pc |-> call.pc, setup |-> call.setup]
        /\ call.pc \in Logging =>
              preparation[Id(d)] # NoPreparation /\ call.seen \in 0..Len(Log(d))
        /\ call.pc \in {"find", "append"} =>
              /\ call = [pc |-> call.pc, setup |-> call.setup, seen |-> call.seen,
                         inserted |-> call.inserted]
              /\ Has(Read(d), "BEACON_RESERVED") /\ Seeds(d) = Hand(Id(d)).playerCommitments
        /\ call.pc \in {"reveal", "complete"} => Id(d) \in Hands /\ call.seen \in 0..Len(Log(d))
        /\ call.pc = "reveal" =>
              /\ call = [pc |-> call.pc, setup |-> call.setup, seen |-> call.seen,
                         view |-> call.view, wanted |-> call.wanted]
              /\ call.wanted \in Seq(Nat)
        /\ call.pc \in Viewing => call.view \in Nat

DeckOf(h) == CommittedHand(Hand(h).rules, preparation[h], Hand(h).beaconReservation)
LogOK(h) ==
    LET s == transcript[h]
    IN  /\ s # <<>> => s[1].type = "HAND_OPENED" /\ preparation[h] # NoPreparation
        /\ Has(s, "BEACON_RESERVED") => Hand(h).playerCommitments = Hand(h).players
        /\ Has(s, "DECK_COMMITTED") =>
              Has(s, "BEACON_RESERVED") /\ preparation[h] = Hand(h).playerCommitments
        /\ \A i \in 1..Len(s) : s[i].type = "DECK_COMMITTED" => s[i].deckRoot = DeckOf(h)
        /\ Has(s, "PUBLIC_CARD_REVEALED") \/ Has(s, "HAND_COMPLETED") => Has(s, "DECK_COMMITTED")
        /\ committed[h] # NoDeck => Has(s, "BEACON_RESERVED") /\ committed[h] = DeckOf(h)

TypesInv ==
    /\ table \in TableType /\ table.dealtAt < table.version
    /\ transcript \in [Hands -> Seq(Event)]
    /\ preparation \in [Hands -> (SUBSET Players) \cup {NoPreparation}]
    /\ committed \in [Hands -> Decks \cup {NoDeck}]
    /\ dealer = [d \in Dealers |-> dealer[d]] /\ \A d \in Dealers : RunOK(d)
    /\ scheduled \subseteq Dealers
    /\ doubted \in BOOLEAN /\ reseated \in BOOLEAN
    /\ unannounced \subseteq Players \cup {0}
    /\ \A h \in Hands : LogOK(h)

\* Whose listeners are to be called, and of what.
AnnouncedTypes ==
    announcing \subseteq [by : Dealers, type : {"PLAYER_SEATED", "ACTION_APPLIED"}, version : Nat]

----------------------------------------------------------------------------
(* The table follows the transcript *)

BoardOK ==
    LET shown == Hand(table.handNumber).publicPositions
    IN  /\ table.rules \in Rules /\ table.betting # "NONE"
        /\ IsPrefix(table.board, BoardPositions(table.rules))
        /\ IsPrefix(shown, BoardPositions(table.rules))
        /\ Len(table.board) <= Len(shown) /\ Len(shown) <= DueCards
        /\ table.betting \in Awaiting => Len(table.board) < 5

\* What a run wants are cards that are due, from the first that is not revealed,
\* or from one that is.
WantsOK(d) ==
    \E k, n \in 0..5 :
        /\ k <= n /\ k <= Len(Hand(table.handNumber).publicPositions) /\ n <= DueCards
        /\ dealer[d].wanted = SubSeq(BoardPositions(table.rules), k + 1, n)
        /\ dealer[d].view = table.version => n = DueCards

RunPlays(d) ==
    LET call == dealer[d]
        current == call.view = table.version
    IN  /\ call.pc \in Viewing => call.view <= table.version
        /\ call.pc = "start" => Has(Read(d), "DECK_COMMITTED") /\ (current => ~Active)
        /\ call.pc \in {"reveal", "complete"} =>
              Id(d) <= table.handNumber /\ (current => Active /\ Id(d) = table.handNumber)
        /\ call.pc = "reveal" =>
              /\ current => table.betting \in Awaiting
              /\ Active /\ Id(d) = table.handNumber => WantsOK(d)
        /\ call.pc \in {"complete", "finish"} /\ current => Active /\ table.betting \in Ended
        /\ call.pc = "finish" /\ current => Has(transcript[table.handNumber], "HAND_COMPLETED")

TablePlays ==
    Active =>
        /\ table.handNumber # 0
        /\ Has(transcript[table.handNumber], "DECK_COMMITTED")
        /\ table.deckRoot = Hand(table.handNumber).deckRoot
        /\ BoardOK

HandsPlayed ==
    /\ \A h \in 1..table.handNumber :
          h < table.handNumber \/ ~Active => Has(transcript[h], "HAND_COMPLETED")
    /\ \A h \in Hands : h > table.handNumber =>
          /\ ~Has(transcript[h], "HAND_COMPLETED")
          /\ Hand(h).publicPositions = <<>>

PlayInv == TablePlays /\ HandsPlayed /\ \A d \in Dealers : RunPlays(d)

----------------------------------------------------------------------------
(* The secret *)

Dealing(h) == Has(transcript[h], "DECK_COMMITTED") /\ ~Has(transcript[h], "HAND_COMPLETED")

\* What is kept of a deck for a run that may undo its put.
Kept(d) ==
    /\ dealer[d].pc \in {"find", "append"} => committed[Id(d)] # NoDeck
    /\ dealer[d].pc \in {"find", "append", "undo"} /\ dealer[d].inserted => ~Dealing(Id(d))

SecretHeld ==
    /\ \A d \in Dealers : ~At(d, "idle") => lock = d
    /\ \A h \in Hands : Dealing(h) => committed[h] # NoDeck
    /\ \A d \in Dealers : Kept(d)

SecretInv == ~doubted => SecretHeld

----------------------------------------------------------------------------
(* Who is dealt in *)

Coming == table.handNumber + 1
Due == NextHandSetup(table)

SeatsFit ==
    Active =>
        /\ table.rules.seats = Cardinality(table.players) /\ table.rules.seats >= 2
        /\ table.rules.buttonSeat < table.rules.seats

Untouched ==
    \A h \in Hands : h > Coming \/ (h = Coming /\ Active) =>
        preparation[h] = NoPreparation /\ transcript[h] = <<>>

RunSeats(d) ==
    dealer[d].pc \in Preparing =>
        /\ Id(d) <= Coming /\ (Id(d) = Coming => ~Active)
        /\ Id(d) = Coming /\ ~reseated =>
              dealer[d].setup.players = Due.players /\ dealer[d].setup.rules = Due.rules

HandSeats ==
    ~reseated =>
        /\ ~Active /\ Coming \in Hands =>
              /\ preparation[Coming] # NoPreparation => preparation[Coming] = Due.players
              /\ transcript[Coming] # <<>> =>
                    Hand(Coming).players = Due.players /\ Hand(Coming).rules = Due.rules
        /\ Active =>
              /\ table.players = Hand(table.handNumber).players
              /\ table.rules = Hand(table.handNumber).rules

SeatInv == SeatsFit /\ Untouched /\ HandSeats /\ \A d \in Dealers : RunSeats(d)

----------------------------------------------------------------------------
(* Who is awake *)

Needed ==
    \/ Active /\ table.betting # "BETTING" /\ 0 \notin unannounced
    \/ /\ ~Active /\ table.handNumber < MaxHands
       /\ Cardinality(table.active \ unannounced) >= 2

\* A run that will look at the table, or deal what it waits for.
Awake(d) ==
    \/ dealer[d].pc \in {"run", "failed"}
    \/ dealer[d].pc \in Preparing /\ (Active \/ Id(d) = Coming)
    \/ dealer[d].pc \in {"advance", "reveal", "complete", "finish"} /\ Active

WakeUp == Needed => scheduled # {} \/ announcing # {} \/ \E d \in Dealers : Awake(d)

\* A run whose command of the table has been done has nothing left to wake for.
RunWakes(d) ==
    /\ At(d, "start") /\ dealer[d].view = table.dealtAt => Id(d) <= table.handNumber
    /\ dealer[d].pc \in {"complete", "finish"} /\ dealer[d].view = table.dealtAt => ~Active

WakeInv == WakeUp /\ \A d \in Dealers : RunWakes(d)

Inv == TypesInv /\ PlayInv /\ SecretInv /\ SeatInv /\ WakeInv

----------------------------------------------------------------------------
(* Least numbers, and prefixes *)

LEMMA MinOfNaturals ==
  ASSUME NEW S, S \subseteq Nat, S # {}
  PROVE  Min(S) \in S /\ \A x \in S : Min(S) <= x
<1>1. PICK least \in S : \A y \in S : ~(<<y, least>> \in OpToRel(<, Nat))
  BY NatLessThanWellFounded, WFMin
<1>2. \A y \in S : least <= y
  <2> SUFFICES ASSUME NEW y \in S, y < least PROVE FALSE
    OBVIOUS
  <2>1. <<y, least>> \in OpToRel(<, Nat)
    BY DEF OpToRel
  <2> QED
    BY <1>1, <2>1
<1> QED
  BY <1>2 DEF Min

\* What begins with all of a sequence.
Begins(s, t) == Len(s) <= Len(t) /\ \A i \in 1..Len(s) : t[i] = s[i]

LEMMA AppendBegins ==
  ASSUME NEW S, NEW s \in Seq(S), NEW e \in S
  PROVE  /\ Append(s, e) \in Seq(S) /\ Len(Append(s, e)) = Len(s) + 1
         /\ Append(s, e)[Len(s) + 1] = e /\ Begins(s, Append(s, e))
BY AppendProperties DEF Begins

LEMMA PartBegins ==
  ASSUME NEW S, NEW s \in Seq(S), NEW n \in 0..Len(s)
  PROVE  /\ SubSeq(s, 1, n) \in Seq(S) /\ Len(SubSeq(s, 1, n)) = n
         /\ Begins(SubSeq(s, 1, n), s)
BY DEF Begins

LEMMA SamePart ==
  ASSUME NEW S, NEW s \in Seq(S), NEW t \in Seq(S), Begins(s, t), NEW n \in 0..Len(s)
  PROVE  n \in 0..Len(t) /\ SubSeq(t, 1, n) = SubSeq(s, 1, n)
BY DEF Begins

----------------------------------------------------------------------------
(* The public cards of a transcript: the recursive function is what it says *)

ShownBy(s, f, m) ==
    IF m = 0 THEN <<>>
    ELSE IF s[m].type = "PUBLIC_CARD_REVEALED" THEN Append(f[m - 1], s[m].position) ELSE f[m - 1]
IsReveals(s, n, f) == f = [m \in 0..n |-> ShownBy(s, f, m)]

LEMMA RevealsAt ==
  ASSUME NEW s, NEW n \in Nat, NEW f, IsReveals(s, n, f), NEW m \in 0..n
  PROVE  f[m] = ShownBy(s, f, m)
BY DEF IsReveals

LEMMA RevealsAgree ==
  ASSUME NEW s, NEW t, NEW n \in Nat, NEW m \in Nat, NEW f, NEW g,
         IsReveals(s, n, f), IsReveals(t, m, g),
         NEW k \in Nat, k <= n, k <= m, \A i \in 1..k : t[i] = s[i]
  PROVE  f[k] = g[k]
<1> DEFINE Bad == {i \in 0..k : f[i] # g[i]}
<1> SUFFICES ASSUME Bad # {} PROVE FALSE
  OBVIOUS
<1>1. PICK i \in Bad : \A j \in Bad : i <= j
  <2>1. Bad \subseteq Nat
    OBVIOUS
  <2> HIDE DEF Bad
  <2> QED
    BY <2>1, MinOfNaturals
<1>2. i = 0 \/ (i - 1 \in 0..k /\ f[i - 1] = g[i - 1])
  BY <1>1
<1>3. i \in 0..n /\ i \in 0..m /\ (i # 0 => t[i] = s[i])
  BY <1>1
<1>4. f[i] = ShownBy(s, f, i) /\ g[i] = ShownBy(t, g, i)
  BY <1>3, RevealsAt
<1>5. ShownBy(s, f, i) = ShownBy(t, g, i)
  BY <1>2, <1>3 DEF ShownBy
<1> QED
  BY <1>1, <1>4, <1>5

LEMMA RevealsExist ==
  ASSUME NEW s, NEW n \in Nat
  PROVE  \E f : IsReveals(s, n, f)
<1> DEFINE Bad == {i \in Nat : ~\E f : IsReveals(s, i, f)}
<1> SUFFICES ASSUME Bad # {} PROVE FALSE
  OBVIOUS
<1>1. PICK i \in Bad : \A j \in Bad : i <= j
  <2>1. Bad \subseteq Nat
    OBVIOUS
  <2> HIDE DEF Bad
  <2> QED
    BY <2>1, MinOfNaturals
<1>2. CASE i = 0
  <2>1. IsReveals(s, 0, [m \in 0..0 |-> <<>>])
    BY DEF IsReveals, ShownBy
  <2> QED
    BY <1>1, <1>2, <2>1
<1>3. CASE i # 0
  <2>1. PICK f : IsReveals(s, i - 1, f)
    BY <1>1, <1>3
  <2> DEFINE last == IF s[i].type = "PUBLIC_CARD_REVEALED" THEN Append(f[i - 1], s[i].position)
                     ELSE f[i - 1]
             g == [m \in 0..i |-> IF m = i THEN last ELSE f[m]]
  <2>2. ASSUME NEW m \in 0..i
        PROVE  g[m] = ShownBy(s, g, m)
    <3>1. m # 0 => g[m - 1] = f[m - 1]
      OBVIOUS
    <3>2. CASE m = i
      BY <1>3, <3>1, <3>2 DEF ShownBy
    <3>3. CASE m # i
      <4>1. m \in 0..(i - 1)
        BY <3>3
      <4>2. g[m] = f[m]
        BY <3>3
      <4>3. f[m] = ShownBy(s, f, m)
        BY <1>1, <2>1, <4>1, RevealsAt
      <4> HIDE DEF g
      <4> QED
        BY <3>1, <4>1, <4>2, <4>3 DEF ShownBy
    <3> QED
      BY <3>2, <3>3
  <2>3. IsReveals(s, i, g)
    BY <2>2 DEF IsReveals
  <2> QED
    BY <1>1, <2>3
<1> QED
  BY <1>2, <1>3

LEMMA RevealedIs ==
  ASSUME NEW S, NEW s \in Seq(S)
  PROVE  \E f : IsReveals(s, Len(s), f) /\ Revealed(s) = f[Len(s)]
<1> DEFINE P(f) == IsReveals(s, Len(s), f)
           r == CHOOSE f : P(f)
<1>1. \E f : P(f)
  BY RevealsExist
<1>2. P(r)
  BY <1>1
<1>3. Revealed(s) = r[Len(s)]
  BY DEF Revealed, IsReveals, ShownBy
<1> QED
  BY <1>2, <1>3

LEMMA RevealedEmpty == Revealed(<<>>) = <<>>
<1>1. PICK f : IsReveals(<<>>, Len(<<>>), f) /\ Revealed(<<>>) = f[Len(<<>>)]
  <2>1. <<>> \in Seq(Event)
    OBVIOUS
  <2> QED
    BY <2>1, RevealedIs
<1> QED
  BY <1>1, RevealsAt DEF ShownBy

LEMMA RevealedAppend ==
  ASSUME NEW S, NEW s \in Seq(S), NEW e \in S
  PROVE  Revealed(Append(s, e)) = IF e.type = "PUBLIC_CARD_REVEALED" THEN Append(Revealed(s), e.position)
                                  ELSE Revealed(s)
<1> DEFINE t == Append(s, e)
<1>1. PICK f : IsReveals(s, Len(s), f) /\ Revealed(s) = f[Len(s)]
  BY RevealedIs
<1>2. t \in Seq(S) /\ Len(t) = Len(s) + 1 /\ t[Len(s) + 1] = e /\ Begins(s, t)
  BY AppendBegins
<1> HIDE DEF t
<1>3. PICK g : IsReveals(t, Len(t), g) /\ Revealed(t) = g[Len(t)]
  BY <1>2, RevealedIs
<1>4. Len(s) \in Nat /\ Len(t) \in Nat
  BY <1>2
<1>5. f[Len(s)] = g[Len(s)]
  BY SMTT(60), <1>1, <1>2, <1>3, <1>4, RevealsAgree DEF Begins
<1>6. g[Len(t)] = ShownBy(t, g, Len(t))
  BY <1>3, <1>4, RevealsAt
<1> QED
  BY <1>1, <1>2, <1>3, <1>4, <1>5, <1>6 DEF t, ShownBy

LEMMA RevealedType ==
  ASSUME NEW s \in Seq(Event)
  PROVE  Revealed(s) \in Seq(Nat)
<1>1. PICK f : IsReveals(s, Len(s), f) /\ Revealed(s) = f[Len(s)]
  BY RevealedIs
<1> DEFINE Bad == {i \in 0..Len(s) : f[i] \notin Seq(Nat)}
<1> SUFFICES ASSUME Bad # {} PROVE FALSE
  BY <1>1
<1>2. PICK i \in Bad : \A j \in Bad : i <= j
  <2>1. Bad \subseteq Nat
    OBVIOUS
  <2> HIDE DEF Bad
  <2> QED
    BY <2>1, MinOfNaturals
<1>3. i = 0 \/ (i - 1 \in 0..Len(s) /\ f[i - 1] \in Seq(Nat))
  BY <1>2
<1>4. i # 0 => s[i] \in Event
  BY <1>2
<1>5. i # 0 /\ s[i].type = "PUBLIC_CARD_REVEALED" => s[i].position \in Nat
  BY <1>4 DEF Event
<1>6. i \in 0..Len(s) /\ f[i] = ShownBy(s, f, i)
  BY <1>1, <1>2, RevealsAt
<1>7. ShownBy(s, f, i) \in Seq(Nat)
  BY <1>3, <1>5, <1>6 DEF ShownBy
<1> QED
  BY <1>2, <1>6, <1>7

----------------------------------------------------------------------------
(* What reduceHand makes of a transcript, and of a longer one *)

OfType(s, type) == {i \in 1..Len(s) : s[i].type = type}

LEMMA HasIs ==
  ASSUME NEW s, NEW type
  PROVE  Has(s, type) <=> OfType(s, type) # {}
BY DEF Has, OfType

LEMMA Fields ==
  ASSUME NEW s \in Seq(Event)
  PROVE  /\ ReduceHand(s).version = Len(s)
         /\ ReduceHand(s).rules = IF s = <<>> THEN NoHand ELSE s[1].rules
         /\ ReduceHand(s).players = IF s = <<>> THEN {} ELSE s[1].players
         /\ ReduceHand(s).playerCommitments = {s[i].playerId : i \in OfType(s, "PLAYER_COMMITTED")}
         /\ ReduceHand(s).beaconReservation =
               IF Has(s, "BEACON_RESERVED") THEN s[Min(OfType(s, "BEACON_RESERVED"))].round
               ELSE NoHand
         /\ ReduceHand(s).deckRoot =
               IF Has(s, "DECK_COMMITTED") THEN s[Min(OfType(s, "DECK_COMMITTED"))].deckRoot
               ELSE NoDeck
         /\ ReduceHand(s).publicPositions = Revealed(s)
BY HasIs DEF ReduceHand, OfType

LEMMA Status ==
  ASSUME NEW s \in Seq(Event)
  PROVE  LET status == ReduceHand(s).status
         IN  /\ status = "MISSING" <=> s = <<>>
             /\ status = "COMPLETE" <=> Has(s, "HAND_COMPLETED")
             /\ status = "DEALING" <=> Has(s, "DECK_COMMITTED") /\ ~Has(s, "HAND_COMPLETED")
             /\ status = "BEACON_RESERVED" <=>
                   /\ Has(s, "BEACON_RESERVED") /\ ~Has(s, "DECK_COMMITTED")
                   /\ ~Has(s, "HAND_COMPLETED")
             /\ status = "COMMITTING" <=>
                   /\ s # <<>> /\ ~Has(s, "BEACON_RESERVED") /\ ~Has(s, "DECK_COMMITTED")
                   /\ ~Has(s, "HAND_COMPLETED")
<1>1. ReduceHand(s).status = IF s = <<>> THEN "MISSING"
                             ELSE IF Has(s, "HAND_COMPLETED") THEN "COMPLETE"
                             ELSE IF Has(s, "DECK_COMMITTED") THEN "DEALING"
                             ELSE IF Has(s, "BEACON_RESERVED") THEN "BEACON_RESERVED"
                             ELSE "COMMITTING"
  BY HasIs DEF ReduceHand, OfType
<1>2. s = <<>> => \A type : ~Has(s, type)
  BY DEF Has
<1> QED
  BY <1>1, <1>2

\* The first event of a type is the same in a longer transcript.
LEMMA FirstStays ==
  ASSUME NEW s \in Seq(Event), NEW t \in Seq(Event), Begins(s, t), NEW type, Has(s, type)
  PROVE  /\ Has(t, type)
         /\ Min(OfType(s, type)) \in OfType(s, type)
         /\ t[Min(OfType(t, type))] = s[Min(OfType(s, type))]
<1> DEFINE A == OfType(s, type)
           B == OfType(t, type)
<1>1. A # {} /\ A \subseteq Nat /\ B \subseteq Nat /\ A \subseteq B
  BY HasIs DEF Begins, OfType
<1>2. \A i \in B : i <= Len(s) => i \in A
  BY DEF Begins, OfType
<1>3. \A i \in A : i <= Len(s) /\ t[i] = s[i]
  BY DEF Begins, OfType
<1> HIDE DEF A, B
<1>4. Min(A) \in A /\ (\A i \in A : Min(A) <= i) /\ Min(B) \in B /\ (\A i \in B : Min(B) <= i)
  BY <1>1, MinOfNaturals
<1>5. Min(B) <= Min(A) /\ Min(A) \in Nat /\ Min(B) \in Nat /\ Min(A) <= Len(s) /\ Len(s) \in Nat
  <2>1. Min(A) \in B /\ Min(A) \in Nat /\ Min(B) \in Nat
    BY <1>1, <1>4
  <2>2. Min(B) <= Min(A) /\ Min(A) <= Len(s)
    BY <1>3, <1>4, <2>1
  <2> QED
    BY <2>1, <2>2
<1>6. Min(B) \in A
  BY <1>2, <1>4, <1>5
<1>7. Min(A) = Min(B)
  <2>1. Min(A) <= Min(B)
    BY <1>4, <1>6
  <2> QED
    BY <1>5, <2>1
<1> QED
  BY <1>1, <1>3, <1>4, <1>7, HasIs DEF A, B

\* What a hand was stays so when its transcript grows.
LEMMA HandStays ==
  ASSUME NEW s \in Seq(Event), NEW t \in Seq(Event), Begins(s, t)
  PROVE  /\ \A type : Has(s, type) => Has(t, type)
         /\ s # <<>> => /\ t # <<>> /\ t[1] = s[1]
                        /\ ReduceHand(t).rules = ReduceHand(s).rules
                        /\ ReduceHand(t).players = ReduceHand(s).players
         /\ ReduceHand(s).playerCommitments \subseteq ReduceHand(t).playerCommitments
         /\ Has(s, "BEACON_RESERVED") =>
               ReduceHand(t).beaconReservation = ReduceHand(s).beaconReservation
         /\ Has(s, "DECK_COMMITTED") => ReduceHand(t).deckRoot = ReduceHand(s).deckRoot
<1>1. \A type : Has(s, type) => Has(t, type)
  BY FirstStays
<1>2. s # <<>> => t # <<>> /\ t[1] = s[1]
  BY DEF Begins
<1>3. ReduceHand(s).playerCommitments \subseteq ReduceHand(t).playerCommitments
  <2>1. ASSUME NEW i \in OfType(s, "PLAYER_COMMITTED")
        PROVE  i \in OfType(t, "PLAYER_COMMITTED") /\ t[i].playerId = s[i].playerId
    BY DEF OfType, Begins
  <2> QED
    BY <2>1, Fields
<1>4. Has(s, "BEACON_RESERVED") =>
         ReduceHand(t).beaconReservation = ReduceHand(s).beaconReservation
  BY <1>1, Fields, FirstStays
<1>5. Has(s, "DECK_COMMITTED") => ReduceHand(t).deckRoot = ReduceHand(s).deckRoot
  BY <1>1, Fields, FirstStays
<1> QED
  BY <1>1, <1>2, <1>3, <1>4, <1>5, Fields

\* The next event of a transcript.
LEMMA HandGrows ==
  ASSUME NEW s \in Seq(Event), NEW e \in Event
  PROVE  LET t == Append(s, e)
             old == ReduceHand(s)
             new == ReduceHand(t)
         IN  /\ t \in Seq(Event) /\ t # <<>> /\ Begins(s, t) /\ Len(t) = Len(s) + 1
             /\ \A type : Has(t, type) <=> Has(s, type) \/ e.type = type
             /\ s = <<>> => t[1] = e /\ new.rules = e.rules /\ new.players = e.players
             /\ new.playerCommitments = old.playerCommitments \cup
                   (IF e.type = "PLAYER_COMMITTED" THEN {e.playerId} ELSE {})
             /\ ~Has(s, "BEACON_RESERVED") /\ e.type = "BEACON_RESERVED" =>
                   new.beaconReservation = e.round
             /\ ~Has(s, "DECK_COMMITTED") /\ e.type = "DECK_COMMITTED" => new.deckRoot = e.deckRoot
             /\ new.publicPositions = IF e.type = "PUBLIC_CARD_REVEALED"
                                      THEN Append(old.publicPositions, e.position)
                                      ELSE old.publicPositions
<1> DEFINE t == Append(s, e)
<1>1. /\ t \in Seq(Event) /\ Len(t) = Len(s) + 1 /\ t[Len(s) + 1] = e /\ Begins(s, t)
      /\ Len(s) \in Nat
  BY AppendBegins
<1>2. t # <<>>
  BY <1>1
<1> HIDE DEF t
<1>3. ASSUME NEW type
      PROVE  OfType(t, type) = OfType(s, type) \cup (IF e.type = type THEN {Len(s) + 1} ELSE {})
  BY <1>1 DEF OfType, Begins
<1>4. \A type : Has(t, type) <=> Has(s, type) \/ e.type = type
  <2> TAKE type
  <2> QED
    BY <1>3, HasIs
<1>5. s = <<>> => t[1] = e /\ ReduceHand(t).rules = e.rules /\ ReduceHand(t).players = e.players
  BY <1>1, <1>2, Fields
<1>6. ReduceHand(t).playerCommitments = ReduceHand(s).playerCommitments \cup
         (IF e.type = "PLAYER_COMMITTED" THEN {e.playerId} ELSE {})
  <2>1. \A i \in OfType(s, "PLAYER_COMMITTED") : t[i] = s[i]
    BY <1>1 DEF OfType, Begins
  <2> QED
    BY <1>1, <1>3, <2>1, Fields
<1>7. ASSUME NEW type, ~Has(s, type), e.type = type PROVE t[Min(OfType(t, type))] = e
  <2>1. OfType(t, type) = {Len(s) + 1}
    BY <1>3, <1>7, HasIs
  <2>2. OfType(t, type) \subseteq Nat /\ OfType(t, type) # {}
    BY <1>1, <2>1
  <2>3. Min(OfType(t, type)) = Len(s) + 1
    BY <2>1, <2>2, MinOfNaturals
  <2> QED
    BY <1>1, <2>3
<1>8. ~Has(s, "BEACON_RESERVED") /\ e.type = "BEACON_RESERVED" =>
         ReduceHand(t).beaconReservation = e.round
  BY <1>1, <1>4, <1>7, Fields
<1>9. ~Has(s, "DECK_COMMITTED") /\ e.type = "DECK_COMMITTED" => ReduceHand(t).deckRoot = e.deckRoot
  BY <1>1, <1>4, <1>7, Fields
<1>10. ReduceHand(t).publicPositions = IF e.type = "PUBLIC_CARD_REVEALED"
                                       THEN Append(ReduceHand(s).publicPositions, e.position)
                                       ELSE ReduceHand(s).publicPositions
  <2>1. Revealed(t) = IF e.type = "PUBLIC_CARD_REVEALED" THEN Append(Revealed(s), e.position)
                      ELSE Revealed(s)
    BY RevealedAppend DEF t
  <2>2. ReduceHand(t).publicPositions = Revealed(t) /\ ReduceHand(s).publicPositions = Revealed(s)
    BY <1>1, Fields
  <2> QED
    BY <2>1, <2>2
<1> QED
  BY <1>1, <1>2, <1>4, <1>5, <1>6, <1>8, <1>9, <1>10 DEF t

\* The types of what reduceHand returns.
LEMMA HandTypes ==
  ASSUME NEW s \in Seq(Event)
  PROVE  /\ ReduceHand(s).publicPositions \in Seq(Nat)
         /\ s # <<>> /\ s[1].type = "HAND_OPENED" =>
               ReduceHand(s).rules \in Rules /\ ReduceHand(s).players \in SUBSET Players
         /\ Has(s, "BEACON_RESERVED") => ReduceHand(s).beaconReservation \in Dealers
         /\ Has(s, "DECK_COMMITTED") =>
               /\ ReduceHand(s).deckRoot \in Decks
               /\ \E i \in 1..Len(s) : /\ s[i].type = "DECK_COMMITTED"
                                       /\ ReduceHand(s).deckRoot = s[i].deckRoot
         /\ ~Has(s, "DECK_COMMITTED") => ReduceHand(s).deckRoot = NoDeck
         /\ ReduceHand(s).playerCommitments \subseteq Players
<1>1. \A i \in 1..Len(s) :
         /\ s[i].type = "HAND_OPENED" => s[i].rules \in Rules /\ s[i].players \in SUBSET Players
         /\ s[i].type = "PLAYER_COMMITTED" => s[i].playerId \in Players
         /\ s[i].type = "BEACON_RESERVED" => s[i].round \in Dealers
         /\ s[i].type = "DECK_COMMITTED" => s[i].deckRoot \in Decks
  <2> TAKE i \in 1..Len(s)
  <2>1. s[i] \in Event
    OBVIOUS
  <2> QED
    BY <2>1 DEF Event
<1>2. ASSUME NEW type, Has(s, type)
      PROVE  Min(OfType(s, type)) \in 1..Len(s) /\ s[Min(OfType(s, type))].type = type
  <2>1. Min(OfType(s, type)) \in OfType(s, type)
    <3>1. OfType(s, type) # {} /\ OfType(s, type) \subseteq Nat
      BY <1>2, HasIs DEF OfType
    <3> QED
      BY <3>1, MinOfNaturals
  <2> QED
    BY <2>1 DEF OfType
<1>3. ReduceHand(s).playerCommitments \subseteq Players
  <2>1. \A i \in OfType(s, "PLAYER_COMMITTED") : s[i].playerId \in Players
    BY <1>1 DEF OfType
  <2>2. ReduceHand(s).playerCommitments = {s[i].playerId : i \in OfType(s, "PLAYER_COMMITTED")}
    BY Fields
  <2> QED
    BY <2>1, <2>2
<1>4. s # <<>> => 1 \in 1..Len(s)
  OBVIOUS
<1> QED
  BY SMTT(60), <1>1, <1>2, <1>3, <1>4, Fields, RevealedType

----------------------------------------------------------------------------
(* The cards of the board *)

LEMMA FiveCards ==
  ASSUME NEW a \in Nat, NEW b \in Nat, NEW c \in Nat, NEW d \in Nat, NEW e \in Nat
  PROVE  /\ <<a, b, c>> \o <<d>> \o <<e>> = <<a, b, c, d, e>>
         /\ <<a, b, c, d, e>> \in Seq(Nat) /\ Len(<<a, b, c, d, e>>) = 5
<1> DEFINE x == <<a, b, c>>
           y == x \o <<d>>
           z == y \o <<e>>
           u == <<a, b, c, d, e>>
<1>1. x \in Seq(Nat) /\ Len(x) = 3 /\ x[1] = a /\ x[2] = b /\ x[3] = c
  OBVIOUS
<1> HIDE DEF x
<1> DEFINE v == <<d>>
           w == <<e>>
<1>5. v \in Seq(Nat) /\ Len(v) = 1 /\ v[1] = d /\ w \in Seq(Nat) /\ Len(w) = 1 /\ w[1] = e
  OBVIOUS
<1> HIDE DEF v, w
<1>6. x \o v \in Seq(Nat) /\ Len(x \o v) = 3 + 1
      /\ \A i \in 1..(3 + 1) : (x \o v)[i] = IF i <= 3 THEN x[i] ELSE v[i - 3]
  <2>1. x \o v \in Seq(Nat) /\ Len(x \o v) = Len(x) + Len(v)
        /\ \A i \in 1..(Len(x) + Len(v)) : (x \o v)[i] = IF i <= Len(x) THEN x[i] ELSE v[i - Len(x)]
    BY <1>1, <1>5, ConcatProperties, Zenon
  <2> QED
    BY <1>1, <1>5, <2>1, Zenon
<1>2. y \in Seq(Nat) /\ Len(y) = 4 /\ y[1] = a /\ y[2] = b /\ y[3] = c /\ y[4] = d
  BY <1>1, <1>5, <1>6 DEF v
<1> HIDE DEF y
<1>7. y \o w \in Seq(Nat) /\ Len(y \o w) = 4 + 1
      /\ \A i \in 1..(4 + 1) : (y \o w)[i] = IF i <= 4 THEN y[i] ELSE w[i - 4]
  <2>1. y \o w \in Seq(Nat) /\ Len(y \o w) = Len(y) + Len(w)
        /\ \A i \in 1..(Len(y) + Len(w)) : (y \o w)[i] = IF i <= Len(y) THEN y[i] ELSE w[i - Len(y)]
    BY <1>2, <1>5, ConcatProperties, Zenon
  <2> QED
    BY <1>2, <1>5, <2>1, Zenon
<1>3. z \in Seq(Nat) /\ Len(z) = 5 /\ z[1] = a /\ z[2] = b /\ z[3] = c /\ z[4] = d /\ z[5] = e
  BY <1>2, <1>5, <1>7 DEF w
<1> HIDE DEF z
<1>4. u \in Seq(Nat) /\ Len(u) = 5 /\ u[1] = a /\ u[2] = b /\ u[3] = c /\ u[4] = d /\ u[5] = e
  OBVIOUS
<1> HIDE DEF u
<1>8. \A i \in 1..5 : z[i] = u[i]
  BY <1>3, <1>4
<1>9. z = u
  BY <1>3, <1>4, <1>8, SeqEqual
<1> QED
  BY <1>4, <1>9 DEF u, x, y, z

LEMMA BoardIs ==
  ASSUME NEW rules \in Rules
  PROVE  LET n == 2 * rules.seats
         IN  /\ n \in Nat
             /\ BoardPositions(rules) = <<n + 1, n + 2, n + 3, n + 5, n + 7>>
             /\ BoardPositions(rules) \in Seq(Nat) /\ Len(BoardPositions(rules)) = 5
<1> DEFINE n == 2 * rules.seats
           plan == RunoutPlan(n, 1)
<1>1. rules.game = "NLH" /\ rules.boards = 1 /\ rules.seats \in 0..9 /\ n \in Nat
  BY DEF Rules
<1>2. DealPlan(rules).boards[1] = plan
  BY <1>1 DEF DealPlan, HoleCount
<1> HIDE DEF n
<1>3. plan.flop = <<n + 1, n + 2, n + 3>> /\ plan.turn = <<n + 5>> /\ plan.river = <<n + 7>>
  BY <1>1 DEF RunoutPlan
<1>4. BoardPositions(rules) = <<n + 1, n + 2, n + 3>> \o <<n + 5>> \o <<n + 7>>
  BY <1>2, <1>3 DEF BoardPositions
<1>5. BoardPositions(rules) = <<n + 1, n + 2, n + 3, n + 5, n + 7>>
  BY <1>1, <1>4, FiveCards
<1> QED
  <2> DEFINE cards == <<n + 1, n + 2, n + 3, n + 5, n + 7>>
  <2>1. n + 1 \in Nat /\ n + 2 \in Nat /\ n + 3 \in Nat /\ n + 5 \in Nat /\ n + 7 \in Nat
    BY <1>1
  <2>2. cards \in Seq(Nat) /\ Len(cards) = 5
    BY <2>1, FiveCards
  <2> HIDE DEF cards
  <2>3. BoardPositions(rules) = cards
    BY <1>5 DEF cards
  <2> QED
    BY <1>1, <2>2, <2>3 DEF n, cards

LEMMA DueIs ==
  ASSUME table \in TableType, table.betting \in Awaiting, Len(table.board) < 5
  PROVE  /\ DueCards \in 1..5 /\ Len(table.board) < DueCards
         /\ Wanted(table) = SubSeq(BoardPositions(table.rules), Len(table.board) + 1, DueCards)
<1>1. Len(table.board) \in Nat /\ (table.board = <<>> => Len(table.board) = 0)
  BY DEF TableType
<1>2. DueCards = IF table.betting = "AWAITING_RUNOUT" THEN 5
                 ELSE IF table.board = <<>> THEN 3 ELSE Len(table.board) + 1
  BY DEF Awaiting, DueCards
<1> QED
  BY <1>1, <1>2 DEF Wanted

LEMMA WantedTyped ==
  ASSUME table \in TableType, table.betting \in Awaiting, Len(table.board) < 5, table.rules \in Rules
  PROVE  Wanted(table) \in Seq(Nat) /\ Len(Wanted(table)) = DueCards - Len(table.board)
<1>1. Len(table.board) \in Nat
  BY DEF TableType
<1>2. BoardPositions(table.rules) \in Seq(Nat) /\ Len(BoardPositions(table.rules)) = 5
  BY BoardIs
<1> DEFINE cards == BoardPositions(table.rules)
           n == Len(table.board)
<1>3. DueCards \in 1..5 /\ n < DueCards /\ Wanted(table) = SubSeq(cards, n + 1, DueCards)
  BY DueIs
<1>4. n \in Nat /\ cards \in Seq(Nat) /\ Len(cards) = 5
  BY <1>1, <1>2
<1> HIDE DEF cards, n
<1>5. ASSUME NEW k \in 1..5, n < k
      PROVE  SubSeq(cards, n + 1, k) \in Seq(Nat) /\ Len(SubSeq(cards, n + 1, k)) = k - n
  <2>1. n + 1 \in Int /\ k \in Int /\ n + 1 <= k /\ k - (n + 1) + 1 = k - n
    BY <1>4, <1>5
  <2>2. \A i \in (n + 1)..k : cards[i] \in Nat
    <3> TAKE i \in (n + 1)..k
    <3>1. i \in 1..Len(cards)
      BY <1>4
    <3> QED
      BY <1>4, <3>1, ElementOfSeq, Zenon
  <2>3. /\ SubSeq(cards, n + 1, k) \in Seq(Nat)
        /\ Len(SubSeq(cards, n + 1, k)) = IF n + 1 <= k THEN k - (n + 1) + 1 ELSE 0
    BY <2>1, <2>2, SubSeqProperties, Zenon
  <2> QED
    BY <2>1, <2>3
<1> QED
  BY <1>3, <1>5 DEF cards, n

----------------------------------------------------------------------------
(* The setup of a hand *)

LEMMA PlayersAreNumbers == Players \subseteq 1..9 /\ Players \subseteq Nat
BY PlayersAssumption

LEMMA CountPlayers ==
  ASSUME NEW S, S \subseteq Players
  PROVE  IsFiniteSet(S) /\ Cardinality(S) \in 0..9 /\ (Cardinality(S) >= 1 => S # {})
<1>1. IsFiniteSet(1..9) /\ Cardinality(1..9) = 9
  <2>1. \A a, b \in Int : IsFiniteSet(a..b) /\ Cardinality(a..b) = IF a > b THEN 0 ELSE b - a + 1
    BY FS_Interval
  <2>2. 1 \in Int /\ 9 \in Int /\ ~(1 > 9) /\ 9 - 1 + 1 = 9
    OBVIOUS
  <2> QED
    BY <2>1, <2>2, Zenon
<1>2. S \subseteq 1..9
  BY PlayersAssumption
<1>3. IsFiniteSet(S) /\ Cardinality(S) <= 9 /\ Cardinality(S) \in Nat
  BY ZenonT(60), <1>1, <1>2, FS_Subset, FS_CardinalityType
<1> QED
  BY <1>3, FS_EmptySet

LEMMA SetupOK ==
  ASSUME NEW t \in TableType, Cardinality(t.active) >= 2
  PROVE  LET setup == NextHandSetup(t)
         IN  /\ setup.handId = t.handNumber + 1 /\ setup.players = t.active
             /\ setup.players \in SUBSET Players
             /\ setup.buttonSeat \in t.active /\ setup.buttonSeat \in 0..9
             /\ setup.rules \in Rules /\ setup.rules.seats = Cardinality(t.active)
             /\ setup.rules.buttonSeat < setup.rules.seats
<1> DEFINE after == {p \in t.active : p > t.button}
           below == {p \in t.active : p < ButtonOf(t)}
<1>1. t.active \subseteq Players /\ t.active \subseteq Nat /\ after \subseteq Nat
  <2>1. t.active \subseteq Players
    BY DEF TableType
  <2> QED
    BY <2>1, PlayersAreNumbers
<1>2. IsFiniteSet(t.active) /\ Cardinality(t.active) \in 0..9 /\ t.active # {}
  BY <1>1, CountPlayers
<1>3. ButtonOf(t) \in t.active
  <2>1. Min(t.active) \in t.active
    BY <1>1, <1>2, MinOfNaturals
  <2>2. after # {} => Min(after) \in after
    BY <1>1, MinOfNaturals
  <2> QED
    BY <2>1, <2>2 DEF ButtonOf
<1>4. ButtonOf(t) \in 0..9
  BY <1>1, <1>3, PlayersAreNumbers
<1>5. below \subseteq t.active /\ below # t.active
  BY <1>1, <1>3, <1>4
<1>6. Cardinality(below) \in 0..9 /\ Cardinality(below) < Cardinality(t.active)
  <2>1. below \subseteq Players
    BY <1>1
  <2>2. Cardinality(below) <= Cardinality(t.active) /\ Cardinality(below) \in 0..9
    BY <1>2, <1>5, <2>1, CountPlayers, FS_Subset
  <2>3. Cardinality(below) # Cardinality(t.active)
    BY <1>2, <1>5, FS_Subset
  <2> QED
    BY <1>2, <2>2, <2>3
<1> QED
  BY <1>1, <1>2, <1>3, <1>4, <1>6 DEF NextHandSetup, Rules

----------------------------------------------------------------------------
(* Steps that add to a transcript *)

\* An event that the transcript of a hand may take next.
Allowed(h, e) ==
    LET s == transcript[h]
    IN  /\ e \in Event
        /\ e.type = "HAND_OPENED" <=> s = <<>>
        /\ e.type = "HAND_OPENED" => preparation[h] # NoPreparation
        /\ e.type \in {"PLAYER_COMMITTED", "BEACON_RESERVED"} => Hand(h).status = "COMMITTING"
        /\ e.type = "BEACON_RESERVED" => Hand(h).playerCommitments = Hand(h).players
        /\ e.type = "DECK_COMMITTED" =>
              /\ Has(s, "BEACON_RESERVED") /\ preparation[h] = Hand(h).playerCommitments
              /\ e.deckRoot = DeckOf(h)
        /\ e.type \in {"PUBLIC_CARD_REVEALED", "HAND_COMPLETED"} => Hand(h).status = "DEALING"

\* What a hand had is still there.
Grows(h) ==
    /\ Begins(transcript[h], transcript'[h])
    /\ preparation[h] # NoPreparation => preparation'[h] = preparation[h]
    /\ Has(transcript[h], "BEACON_RESERVED") =>
          ReduceHand(transcript'[h]).playerCommitments = Hand(h).playerCommitments

LEMMA QuietSteps ==
  ASSUME TypesInv, UNCHANGED <<transcript, redis>>
  PROVE  /\ transcript' \in [Hands -> Seq(Event)]
         /\ preparation' \in [Hands -> (SUBSET Players) \cup {NoPreparation}]
         /\ committed' \in [Hands -> Decks \cup {NoDeck}]
         /\ \A h \in Hands : Grows(h) /\ LogOK(h)'
<1>1. ASSUME NEW h \in Hands PROVE Grows(h)
  <2>1. Begins(transcript[h], transcript[h])
    BY DEF TypesInv, Begins
  <2> QED
    BY <2>1 DEF Grows, redis, Hand
<1>2. ASSUME NEW h \in Hands PROVE LogOK(h)'
  BY DEF TypesInv, redis, LogOK, DeckOf, Hand
<1> QED
  BY <1>1, <1>2 DEF TypesInv, redis

LEMMA AppendSteps ==
  ASSUME TypesInv, UNCHANGED redis, NEW h \in Hands, NEW e, Allowed(h, e), Append1(h, e)
  PROVE  /\ transcript' \in [Hands -> Seq(Event)]
         /\ transcript'[h] = Append(transcript[h], e)
         /\ \A k \in Hands : k # h => transcript'[k] = transcript[k]
         /\ preparation' \in [Hands -> (SUBSET Players) \cup {NoPreparation}]
         /\ committed' \in [Hands -> Decks \cup {NoDeck}]
         /\ \A k \in Hands : Grows(k) /\ LogOK(k)'
<1> DEFINE s == transcript[h]
           t == Append(s, e)
<1>1. s \in Seq(Event) /\ e \in Event /\ LogOK(h)
  BY DEF TypesInv, Allowed
<1>2. transcript' = [transcript EXCEPT ![h] = t]
  BY DEF Append1
<1>3. /\ t \in Seq(Event) /\ t # <<>> /\ Begins(s, t)
      /\ \A type : Has(t, type) <=> Has(s, type) \/ e.type = type
      /\ s = <<>> => t[1] = e
      /\ ReduceHand(t).playerCommitments = ReduceHand(s).playerCommitments \cup
            (IF e.type = "PLAYER_COMMITTED" THEN {e.playerId} ELSE {})
      /\ ~Has(s, "BEACON_RESERVED") /\ e.type = "BEACON_RESERVED" =>
            ReduceHand(t).beaconReservation = e.round
      /\ Len(t) = Len(s) + 1 /\ t[Len(s) + 1] = e
  <2>1. Len(t) = Len(s) + 1 /\ t[Len(s) + 1] = e
    BY <1>1, AppendBegins
  <2> QED
    BY <1>1, <2>1, HandGrows
<1> HIDE DEF t
<1>4. transcript' \in [Hands -> Seq(Event)] /\ transcript'[h] = t
      /\ \A k \in Hands : k # h => transcript'[k] = transcript[k]
  BY <1>2, <1>3 DEF TypesInv
<1>5. ReduceHand(s) = Hand(h)
  BY DEF Hand
<1>6. Has(s, "BEACON_RESERVED") \/ e.type = "BEACON_RESERVED" =>
         ReduceHand(t).playerCommitments = ReduceHand(s).playerCommitments
  <2>1. Has(s, "BEACON_RESERVED") => e.type # "PLAYER_COMMITTED"
    BY <1>1, <1>5, Status DEF Allowed
  <2> QED
    BY <1>3, <2>1
<1>7. ASSUME NEW k \in Hands PROVE Grows(k)
  <2>1. CASE k = h
    BY <1>3, <1>4, <1>5, <1>6, <2>1 DEF Grows, redis
  <2>2. CASE k # h
    <3>1. Begins(transcript[k], transcript[k])
      BY DEF TypesInv, Begins
    <3> QED
      BY <1>4, <2>2, <3>1 DEF Grows, redis, Hand
  <2> QED
    BY <2>1, <2>2
<1>8. ASSUME NEW k \in Hands, k # h PROVE LogOK(k)'
  BY <1>4, <1>8 DEF TypesInv, redis, LogOK, DeckOf, Hand
<1>9. LogOK(h)'
  <2> DEFINE old == ReduceHand(s)
             new == ReduceHand(t)
             Deck1(r) == CommittedHand(r.rules, preparation[h], r.beaconReservation)
  <2>1. /\ s # <<>> => new.rules = old.rules /\ new.players = old.players /\ t[1] = s[1]
        /\ Has(s, "BEACON_RESERVED") => new.beaconReservation = old.beaconReservation
    BY <1>1, <1>3, HandStays
  <2>2. s = <<>> => \A type : ~Has(s, type)
    BY DEF Has
  <2>3. DeckOf(h) = Deck1(old) /\ DeckOf(h)' = Deck1(new)
    BY <1>4, <1>5 DEF DeckOf, Hand, redis
  <2>4. Has(s, "BEACON_RESERVED") => Deck1(new) = Deck1(old)
    BY <2>1, <2>2
  <2>5. t[1].type = "HAND_OPENED" /\ preparation[h] # NoPreparation
    BY <1>1, <1>3, <2>1 DEF LogOK, Allowed
  <2>6. Has(t, "BEACON_RESERVED") => new.playerCommitments = new.players
    <3>1. CASE Has(s, "BEACON_RESERVED")
      BY <1>1, <1>5, <1>6, <2>1, <2>2, <3>1 DEF LogOK
    <3>2. CASE ~Has(s, "BEACON_RESERVED") /\ e.type = "BEACON_RESERVED"
      <4>1. s # <<>> /\ old.playerCommitments = old.players
        BY <1>1, <1>5, <3>2, Status DEF Allowed
      <4> QED
        BY <1>6, <2>1, <3>2, <4>1
    <3> QED
      BY <1>3, <3>1, <3>2
  <2>7. Has(t, "DECK_COMMITTED") =>
           Has(t, "BEACON_RESERVED") /\ preparation[h] = new.playerCommitments
    BY <1>1, <1>3, <1>5, <1>6 DEF LogOK, Allowed
  <2>8. ASSUME NEW i \in 1..Len(t), t[i].type = "DECK_COMMITTED" PROVE t[i].deckRoot = Deck1(new)
    <3>1. CASE i \in 1..Len(s)
      <4>1. t[i] = s[i]
        BY <1>3, <3>1 DEF Begins
      <4>2. Has(s, "DECK_COMMITTED")
        BY <2>8, <3>1, <4>1 DEF Has
      <4> QED
        BY <1>1, <2>3, <2>4, <2>8, <3>1, <4>1, <4>2 DEF LogOK
    <3>2. CASE i = Len(s) + 1
      BY <1>3, <2>3, <2>4, <2>8, <3>2 DEF Allowed
    <3> QED
      BY <1>1, <1>3, <3>1, <3>2
  <2>9. Has(t, "PUBLIC_CARD_REVEALED") \/ Has(t, "HAND_COMPLETED") => Has(t, "DECK_COMMITTED")
    <3>1. e.type \in {"PUBLIC_CARD_REVEALED", "HAND_COMPLETED"} => Has(s, "DECK_COMMITTED")
      BY <1>1, <1>5, Status DEF Allowed
    <3> QED
      BY <1>1, <1>3, <3>1 DEF LogOK
  <2>10. committed[h] # NoDeck => Has(t, "BEACON_RESERVED") /\ committed[h] = Deck1(new)
    BY <1>1, <1>3, <2>3, <2>4 DEF LogOK
  <2>11. Hand(h)' = new /\ transcript'[h] = t /\ preparation' = preparation /\ committed' = committed
    BY <1>4 DEF Hand, redis
  <2> HIDE DEF old, new, Deck1
  <2> QED
    BY <2>3, <2>5, <2>6, <2>7, <2>8, <2>9, <2>10, <2>11 DEF LogOK
<1> QED
  BY <1>4, <1>7, <1>8, <1>9 DEF TypesInv, redis, s, t

----------------------------------------------------------------------------
(* The types are kept *)

\* A run that does not move keeps what it holds true.
LEMMA OtherRun ==
  ASSUME TypesInv, transcript' \in [Hands -> Seq(Event)], \A h \in Hands : Grows(h),
         NEW d \in Dealers, dealer'[d] = dealer[d]
  PROVE  RunOK(d)' /\ (dealer[d].pc \in Logging => Read(d)' = Read(d))
<1> DEFINE h == Id(d)
           n == dealer[d].seen
<1>1. RunOK(d)
  BY DEF TypesInv
<1>2. Id(d)' = Id(d)
  BY DEF Id
<1>3. ASSUME h \in Hands, n \in 0..Len(transcript[h])
      PROVE  n \in 0..Len(transcript'[h]) /\ SubSeq(transcript'[h], 1, n) = SubSeq(transcript[h], 1, n)
  <2>1. transcript[h] \in Seq(Event) /\ transcript'[h] \in Seq(Event) /\ Begins(transcript[h], transcript'[h])
    BY <1>3 DEF TypesInv, Grows
  <2> HIDE DEF h, n
  <2> QED
    BY <1>3, <2>1, SamePart
<1>4. dealer[d].pc \in Logging =>
         /\ h \in Hands /\ n \in 0..Len(transcript[h])
         /\ preparation[h] # NoPreparation /\ preparation'[h] = preparation[h]
  BY <1>1 DEF RunOK, Log, Logging, Preparing, Grows
<1>5. dealer[d].pc \in Logging => Read(d)' = Read(d)
  BY <1>2, <1>3, <1>4 DEF Read, Log
<1>6. dealer[d].pc \in {"find", "append"} =>
         Has(Read(d), "BEACON_RESERVED")' /\ (Seeds(d) = Hand(Id(d)).playerCommitments)'
  <2> HAVE dealer[d].pc \in {"find", "append"}
  <2>1. Has(Read(d), "BEACON_RESERVED") /\ Seeds(d) = Hand(h).playerCommitments
    BY <1>1 DEF RunOK
  <2>2. Begins(Read(d), transcript[h]) /\ Read(d) \in Seq(Event) /\ transcript[h] \in Seq(Event)
    BY <1>4, PartBegins DEF Read, Log, Logging, TypesInv
  <2>3. Has(transcript[h], "BEACON_RESERVED")
    BY <2>1, <2>2, HandStays
  <2>4. ReduceHand(transcript'[h]).playerCommitments = Hand(h).playerCommitments
    BY <1>4, <2>3 DEF Grows, Logging
  <2> QED
    BY <1>2, <1>4, <1>5, <2>1, <2>4 DEF Hand, Seeds, Logging
<1>7. dealer[d].pc \in {"reveal", "complete"} => n \in 0..Len(transcript'[h])
  BY <1>1, <1>3 DEF RunOK, Log
<1> QED
  BY <1>1, <1>2, <1>3, <1>4, <1>5, <1>6, <1>7 DEF RunOK, Log, Logging, Preparing, Viewing

Simple == {"idle", "run", "advance", "release", "failed"}
LEMMA SimpleRun ==
  ASSUME NEW d \in Dealers, "pc" \in DOMAIN dealer'[d], dealer'[d].pc \in Simple
  PROVE  RunOK(d)'
BY DEF RunOK, Simple, Preparing, Logging, Viewing

LEMMA TypesFrom ==
  ASSUME TypesInv, table' \in TableType, table'.dealtAt < table'.version,
         transcript' \in [Hands -> Seq(Event)],
         preparation' \in [Hands -> (SUBSET Players) \cup {NoPreparation}],
         committed' \in [Hands -> Decks \cup {NoDeck}],
         \A h \in Hands : Grows(h) /\ LogOK(h)',
         NEW d \in Dealers, NEW call, dealer' = [dealer EXCEPT ![d] = call], RunOK(d)',
         scheduled' \subseteq Dealers, doubted' \in BOOLEAN, reseated' \in BOOLEAN,
         unannounced' \subseteq Players \cup {0}
  PROVE  TypesInv'
<1>1. dealer = [e \in Dealers |-> dealer[e]]
  BY DEF TypesInv
<1>2. dealer' = [e \in Dealers |-> dealer'[e]] /\ \A e \in Dealers : e # d => dealer'[e] = dealer[e]
  BY <1>1
<1>3. \A e \in Dealers : RunOK(e)'
  <2> TAKE e \in Dealers
  <2>1. CASE e = d
    BY <2>1
  <2>2. CASE e # d
    BY <1>2, <2>2, OtherRun
  <2> QED
    BY <2>1, <2>2
<1> QED
  BY <1>2, <1>3 DEF TypesInv

LEMMA RunTo ==
  ASSUME TypesInv, NEW d \in Dealers, NEW call, dealer' = [dealer EXCEPT ![d] = call]
  PROVE  dealer'[d] = call /\ \A e \in Dealers : e # d => dealer'[e] = dealer[e]
BY DEF TypesInv

\* A step of the table alone.
LEMMA TableTypes ==
  ASSUME TypesInv, table' \in TableType, table'.dealtAt < table'.version,
         UNCHANGED <<transcript, redis, dealer>>,
         scheduled' \subseteq Dealers, doubted' \in BOOLEAN, reseated' \in BOOLEAN,
         unannounced' \subseteq Players \cup {0}
  PROVE  TypesInv'
<1>1. \A d \in Dealers : RunOK(d)'
  BY QuietSteps, OtherRun
<1> QED
  BY <1>1, QuietSteps DEF TypesInv

\* A step of a run that writes neither to the transcript nor to Redis.
LEMMA RunTypes ==
  ASSUME TypesInv, table' \in TableType, table'.dealtAt < table'.version,
         UNCHANGED <<transcript, redis>>,
         NEW d \in Dealers, NEW call, dealer' = [dealer EXCEPT ![d] = call], RunOK(d)',
         scheduled' \subseteq Dealers, doubted' \in BOOLEAN, reseated' \in BOOLEAN,
         unannounced' \subseteq Players \cup {0}
  PROVE  TypesInv'
BY QuietSteps, TypesFrom

\* The record of a run with another point.
LEMMA GotoIs ==
  ASSUME TypesInv, NEW d \in Dealers, NEW pc, Goto(d, pc)
  PROVE  /\ dealer' = [dealer EXCEPT ![d] = [dealer[d] EXCEPT !.pc = pc]]
         /\ dealer'[d].pc = pc /\ "pc" \in DOMAIN dealer'[d]
         /\ \A e \in Dealers : e # d => dealer'[e] = dealer[e]
BY DEF TypesInv, RunOK, Goto

\* The step to a simple point.
LEMMA SimpleTypes ==
  ASSUME TypesInv, table' \in TableType, table'.dealtAt < table'.version,
         UNCHANGED <<transcript, redis>>, NEW d \in Dealers, NEW pc \in Simple,
         Goto(d, pc) \/ dealer' = [dealer EXCEPT ![d] = [pc |-> pc]],
         scheduled' \subseteq Dealers, doubted' \in BOOLEAN, reseated' \in BOOLEAN,
         unannounced' \subseteq Players \cup {0}
  PROVE  TypesInv'
<1>1. CASE Goto(d, pc)
  <2>1. RunOK(d)'
    BY <1>1, GotoIs, SimpleRun
  <2> QED
    BY <1>1, <2>1, GotoIs, RunTypes
<1>2. CASE dealer' = [dealer EXCEPT ![d] = [pc |-> pc]]
  <2>1. dealer'[d] = [pc |-> pc]
    BY <1>2, RunTo
  <2>2. RunOK(d)'
    BY <2>1, SimpleRun
  <2> QED
    BY <1>2, <2>2, RunTypes
<1> QED
  BY <1>1, <1>2

LEMMA FailTypes ==
  ASSUME TypesInv, NEW d \in Dealers, Fail(d), Keep
  PROVE  TypesInv'
<1>1. UNCHANGED <<table, scheduled, doubted, reseated, unannounced, transcript, redis>>
  BY DEF Fail, Keep, bounds
<1> QED
  BY <1>1, SimpleTypes DEF Fail, TypesInv, Simple

\* A run that read the transcript again.
LEMMA LookRun ==
  ASSUME TypesInv, NEW d \in Dealers, dealer[d].pc \in Preparing,
         Look(d, "hand", transcript'[Id(d)]), preparation'[Id(d)] # NoPreparation,
         transcript' \in [Hands -> Seq(Event)]
  PROVE  /\ dealer' = [dealer EXCEPT ![d] = [pc |-> "hand", setup |-> dealer[d].setup,
                                             seen |-> Len(transcript'[Id(d)])]]
         /\ RunOK(d)'
<1> DEFINE call == [pc |-> "hand", setup |-> dealer[d].setup, seen |-> Len(transcript'[Id(d)])]
<1>1. dealer' = [dealer EXCEPT ![d] = call]
  BY DEF Look
<1>2. dealer'[d] = call
  BY <1>1, RunTo
<1>3. Id(d)' = Id(d) /\ Id(d) \in Hands /\ call.setup.players \in SUBSET Players /\ call.setup.rules \in Rules
  BY <1>2 DEF TypesInv, RunOK, Id
<1>4. Len(transcript'[Id(d)]) \in Nat
  BY <1>3
<1>5. call.seen \in 0..Len(Log(d)')
  BY <1>2, <1>3, <1>4 DEF Log
<1> QED
  BY <1>1, <1>2, <1>3, <1>5 DEF RunOK, Preparing, Logging, Viewing

LEMMA LookTypes ==
  ASSUME TypesInv, NEW d \in Dealers, dealer[d].pc \in Logging,
         UNCHANGED <<table, redis, scheduled>>, doubted' \in BOOLEAN, reseated' \in BOOLEAN,
         unannounced' \subseteq Players \cup {0},
         Look(d, "hand", transcript'[Id(d)]),
         UNCHANGED transcript \/ \E e \in Event : Allowed(Id(d), e) /\ Append1(Id(d), e)
  PROVE  TypesInv'
<1>1. Id(d) \in Hands /\ preparation[Id(d)] # NoPreparation
  BY DEF TypesInv, RunOK, Logging, Preparing
<1>2. /\ transcript' \in [Hands -> Seq(Event)]
      /\ preparation' \in [Hands -> (SUBSET Players) \cup {NoPreparation}]
      /\ committed' \in [Hands -> Decks \cup {NoDeck}]
      /\ \A h \in Hands : Grows(h) /\ LogOK(h)'
  <2>1. CASE UNCHANGED transcript
    BY <2>1, QuietSteps
  <2>2. CASE \E e \in Event : Allowed(Id(d), e) /\ Append1(Id(d), e)
    <3>1. PICK e \in Event : Allowed(Id(d), e) /\ Append1(Id(d), e)
      BY <2>2
    <3> DEFINE h == Id(d)
    <3>2. h \in Hands /\ Allowed(h, e) /\ Append1(h, e)
      BY <1>1, <3>1
    <3> HIDE DEF h
    <3> QED
      BY <3>2, AppendSteps
  <2> QED
    BY <2>1, <2>2
<1>3. /\ dealer' = [dealer EXCEPT ![d] = [pc |-> "hand", setup |-> dealer[d].setup,
                                          seen |-> Len(transcript'[Id(d)])]]
      /\ RunOK(d)'
  BY <1>1, <1>2, LookRun DEF redis, Logging, Preparing
<1> QED
  BY <1>2, <1>3, TypesFrom DEF TypesInv

LEMMA TableFields ==
  ASSUME TypesInv
  PROVE  /\ table \in TableType /\ table.version \in Nat /\ table.dealtAt \in Nat
         /\ table.dealtAt < table.version
         /\ table.handNumber \in 0..MaxHands /\ table.active \subseteq Players
         /\ table.players \subseteq Players /\ table.board \in Seq(Nat)
         /\ table.status \in {"WAITING", "HAND_ACTIVE"}
         /\ table.rules \in Rules \cup {NoHand} /\ table.deckRoot \in Decks \cup {NoDeck}
         /\ table.betting \in {"BETTING", "NONE"} \cup Awaiting \cup Ended
<1>1. table \in TableType /\ table.dealtAt < table.version
  BY DEF TypesInv
<1> QED
  BY <1>1 DEF TableType

\* Who sits, and what the betting has become, may change.
LEMMA TableMoves ==
  ASSUME NEW t \in TableType, t.dealtAt < t.version
  PROVE  /\ \A active \in SUBSET Players :
               LET u == [t EXCEPT !.version = @ + 1, !.active = active]
               IN  u \in TableType /\ u.dealtAt < u.version
         /\ \A betting \in Awaiting \cup Ended :
               LET u == [t EXCEPT !.version = @ + 1, !.betting = betting]
               IN  u \in TableType /\ u.dealtAt < u.version
<1>1. t.version \in Nat /\ t.version + 1 \in Nat /\ t.dealtAt \in Nat /\ t.dealtAt < t.version + 1
  BY DEF TableType
<1> QED
  BY <1>1 DEF TableType

LEMMA SeatTypes ==
  ASSUME TypesInv, NEW p \in Players,
         Return(p) \/ Go(p) \/ \E d \in Dealers : Seat(p, d)
  PROVE  TypesInv'
<1>1. reseated' \in BOOLEAN /\ doubted' \in BOOLEAN
  BY DEF TypesInv, Return, Go, Seat, Move
<1>2. table' \in TableType /\ table'.dealtAt < table'.version
  <2>1. \E active \in SUBSET Players : table' = [table EXCEPT !.version = @ + 1, !.active = active]
    <3>1. table.active \cup {p} \in SUBSET Players /\ table.active \ {p} \in SUBSET Players
          /\ table.active \in SUBSET Players
      BY TableFields
    <3>2. CASE Return(p) \/ \E d \in Dealers : Seat(p, d)
      BY <3>1, <3>2 DEF Return, Seat
    <3>3. CASE Go(p)
      BY <3>1, <3>3 DEF Go
    <3> QED
      BY <3>2, <3>3
  <2> QED
    <3>1. PICK active \in SUBSET Players : table' = [table EXCEPT !.version = @ + 1, !.active = active]
      BY <2>1
    <3>2. table \in TableType /\ table.dealtAt < table.version
      BY TableFields
    <3> QED
      BY <3>1, <3>2, TableMoves
<1>3. scheduled' \subseteq Dealers /\ unannounced' \subseteq Players \cup {0}
  BY DEF TypesInv, Return, Go, Seat, Committed
<1> QED
  BY <1>1, <1>2, <1>3, TableTypes DEF Return, Go, Seat

LEMMA ActTypes ==
  ASSUME TypesInv, NEW d \in Dealers, Act(d)
  PROVE  TypesInv'
<1>1. PICK next \in RoundEnds(table.board) :
         table' = [table EXCEPT !.version = @ + 1, !.betting = next]
  BY DEF Act
<1>2. next \in Awaiting \cup Ended
  BY DEF RoundEnds, Awaiting, Ended
<1>3. table' \in TableType /\ table'.dealtAt < table'.version
  BY <1>1, <1>2, TableFields, TableMoves
<1>4. scheduled' \subseteq Dealers /\ unannounced' \subseteq Players \cup {0}
      /\ doubted' \in BOOLEAN /\ reseated' \in BOOLEAN
  BY DEF TypesInv, Act, Committed
<1> QED
  BY <1>3, <1>4, TableTypes DEF Act

LEMMA AnnounceTypes ==
  ASSUME TypesInv, AnnouncedTypes, NEW a \in announcing, Announce(a)
  PROVE  TypesInv'
<1>1. a.by \in Dealers
  BY DEF AnnouncedTypes
<1>2. scheduled' \subseteq Dealers
  BY <1>1 DEF TypesInv, Announce, Wake, Listens
<1> QED
  BY <1>2, TableTypes DEF Announce, TypesInv, bounds

LEMMA AnnouncedNext ==
  ASSUME TypesInv', AnnouncedTypes, [Next]_vars
  PROVE  AnnouncedTypes'
<1> DEFINE Announcement ==
             [by : Dealers, type : {"PLAYER_SEATED", "ACTION_APPLIED"}, version : Nat]
<1>1. table'.version \in Nat
  BY DEF TypesInv, TableType
<1>2. ASSUME NEW d \in Dealers, NEW type \in {"PLAYER_SEATED", "ACTION_APPLIED"}, NEW of,
             Committed(d, type, of)
      PROVE  AnnouncedTypes'
  <2>1. [by |-> d, type |-> type, version |-> table'.version] \in Announcement
    BY <1>1
  <2> QED
    BY <1>2, <2>1 DEF AnnouncedTypes, Committed
<1>3. ASSUME announcing' \subseteq announcing PROVE AnnouncedTypes'
  BY <1>3 DEF AnnouncedTypes
<1>4. CASE \E p \in Players : Return(p) \/ Go(p) \/ \E d \in Dealers : Seat(p, d)
  BY <1>2, <1>3, <1>4 DEF Return, Go, Seat
<1>5. CASE Expire \/ \E a \in announcing : Announce(a)
  BY <1>3, <1>5 DEF Expire, Announce
<1>6. ASSUME NEW d \in Dealers, Act(d) \/ RunStep(d) \/ Crash(d) \/ Fault(d)
      PROVE  AnnouncedTypes'
  <2>1. CASE Act(d)
    BY <1>2, <2>1 DEF Act
  <2>2. CASE Crash(d) \/ Fault(d) \/ Acquire(d) \/ ReadTable(d) \/ Release(d)
    BY <1>3, <2>2 DEF Crash, Fault, Acquire, ReadTable, Release
  <2>3. CASE GetPreparation(d) \/ PutPreparation(d) \/ StoreDeck(d) \/ FindDeck(d) \/ UndoDeck(d)
    BY <1>3, <2>3 DEF GetPreparation, PutPreparation, StoreDeck, FindDeck, UndoDeck, Keep
  <2>4. CASE OpenHand(d) \/ SubmitPlayerCommitment(d) \/ ReserveBeacon(d) \/ AppendDeck(d)
    BY <1>3, <2>4 DEF OpenHand, SubmitPlayerCommitment, ReserveBeacon, AppendDeck, Keep
  <2>5. CASE ReadForStart(d) \/ StartHand(d) \/ Advance(d) \/ RevealPublicCard(d)
    BY <1>3, <2>5 DEF ReadForStart, StartHand, Advance, RevealPublicCard, Keep
  <2>6. CASE DealBoard(d) \/ CompleteHand(d) \/ FinishHand(d)
    BY <1>3, <2>6 DEF DealBoard, CompleteHand, FinishHand, Keep
  <2> QED
    BY <1>6, <2>1, <2>2, <2>3, <2>4, <2>5, <2>6 DEF RunStep
<1>7. CASE UNCHANGED vars
  BY <1>3, <1>7 DEF vars
<1> QED
  BY <1>4, <1>5, <1>6, <1>7 DEF Next

LEMMA ExpireTypes ==
  ASSUME TypesInv, Expire
  PROVE  TypesInv'
BY TableTypes DEF Expire, TypesInv

LEMMA FaultTypes ==
  ASSUME TypesInv, NEW d \in Dealers, Fault(d)
  PROVE  TypesInv'
<1>1. CASE dealer[d].pc \notin {"find", "append"}
  BY <1>1, SimpleTypes DEF Fault, TypesInv, Simple
<1>2. CASE dealer[d].pc \in {"find", "append"}
  <2>1. Goto(d, "undo") /\ UNCHANGED <<table, transcript, redis, scheduled, doubted, reseated, unannounced>>
    BY <1>2 DEF Fault
  <2>2. dealer[d] = [pc |-> dealer[d].pc, setup |-> dealer[d].setup, seen |-> dealer[d].seen,
                     inserted |-> dealer[d].inserted]
        /\ RunOK(d)
    BY <1>2 DEF TypesInv, RunOK
  <2>3. dealer'[d] = [pc |-> "undo", setup |-> dealer[d].setup, seen |-> dealer[d].seen,
                      inserted |-> dealer[d].inserted]
        /\ dealer' = [dealer EXCEPT ![d] = [dealer[d] EXCEPT !.pc = "undo"]]
    <3>1. dealer' = [dealer EXCEPT ![d] = [dealer[d] EXCEPT !.pc = "undo"]]
      BY <2>1, GotoIs
    <3>2. dealer'[d] = [dealer[d] EXCEPT !.pc = "undo"]
      BY <3>1, RunTo
    <3> QED
      BY <2>2, <3>1, <3>2
  <2>4. RunOK(d)'
    BY <1>2, <2>1, <2>2, <2>3 DEF RunOK, Preparing, Logging, Viewing, Id, Log, redis
  <2> QED
    BY <2>1, <2>3, <2>4, RunTypes DEF TypesInv
<1> QED
  BY <1>1, <1>2

LEMMA LockTypes ==
  ASSUME TypesInv, NEW d \in Dealers, Acquire(d) \/ Release(d) \/ Crash(d)
  PROVE  TypesInv'
<1>1. CASE Acquire(d)
  <2>1. scheduled' \subseteq Dealers
    BY <1>1 DEF Acquire, TypesInv
  <2> QED
    BY <1>1, <2>1, SimpleTypes DEF Acquire, TypesInv, Simple, bounds
<1>2. CASE Release(d) \/ Crash(d)
  <2>1. scheduled' \subseteq Dealers
    BY <1>2 DEF Release, Crash, Wake, TypesInv
  <2>2. dealer' = [dealer EXCEPT ![d] = [pc |-> "idle"]]
    BY <1>2 DEF Release, Crash, Idle
  <2>3. UNCHANGED <<table, transcript, redis, doubted, reseated, unannounced>>
    BY <1>2 DEF Release, Crash, bounds
  <2> QED
    BY <2>1, <2>2, <2>3, SimpleTypes DEF TypesInv, Simple
<1> QED
  BY <1>1, <1>2

LEMMA ReadTableTypes ==
  ASSUME TypesInv, NEW d \in Dealers, ReadTable(d)
  PROVE  TypesInv'
<1>1. UNCHANGED <<table, transcript, redis, scheduled, doubted, reseated>> /\ unannounced' = {}
  BY DEF ReadTable, bounds
<1>2. CASE \E pc \in Simple : dealer' = [dealer EXCEPT ![d] = [pc |-> pc]]
  BY <1>1, <1>2, SimpleTypes DEF TypesInv
<1>3. CASE /\ table.status # "HAND_ACTIVE" /\ Cardinality(table.active) >= 2 /\ table.handNumber # MaxHands
           /\ dealer' = [dealer EXCEPT ![d] = [pc |-> "prepare", setup |-> NextHandSetup(table)]]
  <2> DEFINE call == [pc |-> "prepare", setup |-> NextHandSetup(table)]
  <2>1. table \in TableType
    BY DEF TypesInv
  <2>2. call.setup.players \in SUBSET Players /\ call.setup.rules \in Rules
        /\ call.setup.handId = table.handNumber + 1
    BY <1>3, <2>1, SetupOK
  <2>3. table.handNumber + 1 \in Hands
    BY <1>3, <2>1, BoundsAssumption DEF TableType, Hands
  <2>4. dealer'[d] = call
    BY <1>3, RunTo
  <2>5. RunOK(d)'
    BY <2>2, <2>3, <2>4 DEF RunOK, Preparing, Logging, Viewing, Id
  <2> QED
    BY <1>1, <1>3, <2>5, RunTypes DEF TypesInv
<1>4. Cardinality(table.active) \in Nat
  <2>1. Cardinality(table.active) \in 0..9
    BY TableFields, CountPlayers
  <2> QED
    BY <2>1
<1>5. CASE table.status = "HAND_ACTIVE"
  BY <1>2, <1>5 DEF ReadTable, Simple
<1>6. CASE table.status # "HAND_ACTIVE" /\ (Cardinality(table.active) < 2 \/ table.handNumber = MaxHands)
  BY <1>2, <1>6 DEF ReadTable, Simple
<1>7. CASE table.status # "HAND_ACTIVE" /\ Cardinality(table.active) >= 2 /\ table.handNumber # MaxHands
  <2>1. ~(Cardinality(table.active) < 2)
    BY <1>4, <1>7
  <2> QED
    BY <1>3, <1>7, <2>1 DEF ReadTable
<1> QED
  BY <1>4, <1>5, <1>6, <1>7

LEMMA PreparationTypes ==
  ASSUME TypesInv, NEW d \in Dealers, GetPreparation(d) \/ PutPreparation(d)
  PROVE  TypesInv'
<1>1. /\ RunOK(d) /\ dealer[d].pc \in Preparing /\ Id(d) \in Hands
      /\ dealer[d].setup.players \in SUBSET Players
  BY DEF TypesInv, RunOK, GetPreparation, PutPreparation, At, Preparing
<1>2. CASE GetPreparation(d) /\ preparation[Id(d)] = NoPreparation
  <2>1. Goto(d, "put") /\ UNCHANGED <<table, transcript, redis, scheduled, doubted, reseated, unannounced>>
    BY <1>2 DEF GetPreparation, Keep, bounds
  <2>2. dealer[d] = [pc |-> dealer[d].pc, setup |-> dealer[d].setup]
    BY <1>1, <1>2 DEF RunOK, GetPreparation, At
  <2>3. dealer'[d] = [pc |-> "put", setup |-> dealer[d].setup]
        /\ dealer' = [dealer EXCEPT ![d] = [dealer[d] EXCEPT !.pc = "put"]]
    <3>1. dealer' = [dealer EXCEPT ![d] = [dealer[d] EXCEPT !.pc = "put"]]
      BY <2>1, GotoIs
    <3>2. dealer'[d] = [dealer[d] EXCEPT !.pc = "put"]
      BY <3>1, RunTo
    <3> QED
      BY <2>2, <3>1, <3>2
  <2>4. RunOK(d)'
    BY <1>1, <2>3 DEF RunOK, Preparing, Logging, Viewing, Id
  <2> QED
    BY <2>1, <2>3, <2>4, RunTypes DEF TypesInv
<1>3. CASE GetPreparation(d) /\ preparation[Id(d)] # NoPreparation
  <2>1. Look(d, "hand", transcript'[Id(d)])
        /\ UNCHANGED <<table, transcript, redis, scheduled, doubted, reseated, unannounced>>
    BY <1>3 DEF GetPreparation, Keep, bounds
  <2>2. transcript' \in [Hands -> Seq(Event)] /\ preparation'[Id(d)] # NoPreparation
    BY <1>3, <2>1 DEF TypesInv, redis
  <2>3. /\ dealer' = [dealer EXCEPT ![d] = [pc |-> "hand", setup |-> dealer[d].setup,
                                            seen |-> Len(transcript'[Id(d)])]]
        /\ RunOK(d)'
    BY <1>1, <2>1, <2>2, LookRun
  <2> QED
    BY <2>1, <2>3, RunTypes DEF TypesInv
<1>4. CASE PutPreparation(d) /\ preparation[Id(d)] # NoPreparation
  BY <1>4, FailTypes DEF PutPreparation
<1>5. CASE PutPreparation(d) /\ preparation[Id(d)] = NoPreparation
  <2> DEFINE h == Id(d)
  <2>1. /\ preparation' = [preparation EXCEPT ![h] = dealer[d].setup.players]
        /\ Look(d, "hand", transcript'[h])
        /\ UNCHANGED <<table, transcript, committed, scheduled, doubted, reseated, unannounced>>
    BY <1>5 DEF PutPreparation, Keep, bounds
  <2>2. transcript' \in [Hands -> Seq(Event)] /\ preparation'[h] = dealer[d].setup.players
        /\ preparation' \in [Hands -> (SUBSET Players) \cup {NoPreparation}]
        /\ \A k \in Hands : k # h => preparation'[k] = preparation[k]
    BY <1>1, <2>1 DEF TypesInv
  <2>3. preparation'[h] # NoPreparation
    BY <1>1, <2>2, NamesAssumption
  <2>4. /\ dealer' = [dealer EXCEPT ![d] = [pc |-> "hand", setup |-> dealer[d].setup,
                                            seen |-> Len(transcript'[Id(d)])]]
        /\ RunOK(d)'
    BY <1>1, <2>1, <2>2, <2>3, LookRun
  <2>5. ASSUME NEW k \in Hands PROVE Grows(k)
    <3>1. Begins(transcript[k], transcript[k])
      BY DEF TypesInv, Begins
    <3> QED
      BY <1>5, <2>1, <2>2, <3>1 DEF Grows, Hand
  <2>6. ASSUME NEW k \in Hands PROVE LogOK(k)'
    <3>1. CASE k # h
      BY <2>1, <2>2, <3>1 DEF TypesInv, LogOK, DeckOf, Hand
    <3>2. CASE k = h
      <4>1. transcript[h] = <<>> /\ LogOK(h)
        BY <1>1, <1>5 DEF TypesInv, LogOK
      <4>2. \A type : ~Has(transcript[h], type)
        BY <4>1 DEF Has
      <4>3. committed[h] = NoDeck
        BY <4>1, <4>2 DEF LogOK
      <4>4. transcript'[k] = <<>> /\ committed'[k] = NoDeck /\ \A type : ~Has(transcript'[k], type)
        BY <2>1, <3>2, <4>1, <4>2, <4>3
      <4>5. \A i \in 1..Len(transcript'[k]) : FALSE
        BY <4>4
      <4> QED
        BY <4>4, <4>5 DEF LogOK
    <3> QED
      BY <3>1, <3>2
  <2>7. committed' \in [Hands -> Decks \cup {NoDeck}]
    BY <2>1 DEF TypesInv
  <2> QED
    BY <2>1, <2>2, <2>4, <2>5, <2>6, <2>7, TypesFrom DEF TypesInv
<1> QED
  BY <1>2, <1>3, <1>4, <1>5

----------------------------------------------------------------------------
(* What a run knows of a transcript it has read *)

LEMMA SeenPart ==
  ASSUME TypesInv, NEW d \in Dealers, dealer[d].pc \in Logging
  PROVE  /\ Id(d) \in Hands /\ Log(d) \in Seq(Event) /\ LogOK(Id(d)) /\ preparation[Id(d)] \in SUBSET Players
         /\ Read(d) \in Seq(Event) /\ Begins(Read(d), Log(d))
         /\ Seen(d) = ReduceHand(Read(d)) /\ Hand(Id(d)) = ReduceHand(Log(d))
         /\ Fresh(d) => Read(d) = Log(d)
         /\ dealer[d].setup.players \in SUBSET Players /\ dealer[d].setup.rules \in Rules
<1>1. /\ Id(d) \in Hands /\ dealer[d].seen \in 0..Len(Log(d)) /\ preparation[Id(d)] # NoPreparation
      /\ dealer[d].setup.players \in SUBSET Players /\ dealer[d].setup.rules \in Rules
  BY DEF TypesInv, RunOK, Logging, Preparing
<1>2. Log(d) \in Seq(Event) /\ LogOK(Id(d)) /\ preparation[Id(d)] \in SUBSET Players
  <2>1. transcript \in [Hands -> Seq(Event)] /\ preparation \in [Hands -> (SUBSET Players) \cup {NoPreparation}]
        /\ \A h \in Hands : LogOK(h)
    BY DEF TypesInv
  <2>2. preparation[Id(d)] \in (SUBSET Players) \cup {NoPreparation}
    BY <1>1, <2>1
  <2>3. transcript[Id(d)] \in Seq(Event) /\ LogOK(Id(d))
    BY <1>1, <2>1
  <2>4. preparation[Id(d)] \in SUBSET Players
    <3>1. preparation[Id(d)] # NoPreparation
      BY <1>1
    <3> QED
      BY <2>2, <3>1, Zenon
  <2>5. Log(d) = transcript[Id(d)]
    BY SMTT(60) DEF Log
  <2> QED
    BY <2>3, <2>4, <2>5
<1>3. Read(d) \in Seq(Event) /\ Begins(Read(d), Log(d)) /\ (Fresh(d) => Read(d) = Log(d))
  <2> DEFINE s == Log(d)
             n == dealer[d].seen
  <2>1. s \in Seq(Event) /\ n \in 0..Len(s) /\ Read(d) = SubSeq(s, 1, n) /\ (Fresh(d) => n = Len(s))
    BY <1>1, <1>2 DEF Read, Fresh, Log
  <2> HIDE DEF s, n
  <2>2. SubSeq(s, 1, n) \in Seq(Event) /\ Begins(SubSeq(s, 1, n), s)
    BY <2>1, PartBegins
  <2>3. SubSeq(s, 1, Len(s)) = s
    BY <2>1, SubSeqFull
  <2> QED
    BY ZenonT(20), <2>1, <2>2, <2>3 DEF s
<1> QED
  BY <1>1, <1>2, <1>3 DEF Seen, Read, Hand, Log

\* A deck that is derived from what the run has read is that of the hand.
LEMMA DeckSeen ==
  ASSUME TypesInv, NEW d \in Dealers, dealer[d].pc \in Logging, Has(Read(d), "BEACON_RESERVED")
  PROVE  Deck(d) = DeckOf(Id(d)) /\ Deck(d) \in Decks /\ Has(Log(d), "BEACON_RESERVED")
<1>1. Read(d) # <<>>
  BY DEF Has
<1>2. /\ Has(Log(d), "BEACON_RESERVED") /\ Log(d) # <<>>
      /\ Seen(d).rules = Hand(Id(d)).rules
      /\ Seen(d).beaconReservation = Hand(Id(d)).beaconReservation
  BY <1>1, SeenPart, HandStays
<1>3. Hand(Id(d)).rules \in Rules /\ Hand(Id(d)).beaconReservation \in Dealers
  BY <1>2, SeenPart, HandTypes DEF LogOK, Log
<1>4. Deck(d) = DeckOf(Id(d))
  BY <1>2 DEF Deck, DeckOf, Seeds
<1>5. DeckOf(Id(d)) \in Decks
  BY <1>3, SeenPart DEF DeckOf, CommittedHand, Decks
<1> QED
  BY <1>2, <1>4, <1>5

----------------------------------------------------------------------------
(* The steps that prepare a hand keep the types *)

LEMMA LookStep ==
  ASSUME TypesInv, NEW d \in Dealers, dealer[d].pc \in Logging, Look(d, "hand", transcript[Id(d)]),
         UNCHANGED <<table, transcript, redis, scheduled>>, Keep
  PROVE  TypesInv'
BY LookTypes DEF Keep, bounds, TypesInv

LEMMA AppendStep ==
  ASSUME TypesInv, NEW d \in Dealers, dealer[d].pc \in Logging, Look(d, "hand", transcript'[Id(d)]),
         UNCHANGED <<table, redis, scheduled, reseated, unannounced>>, doubted' \in BOOLEAN,
         NEW e, Allowed(Id(d), e), Append1(Id(d), e)
  PROVE  TypesInv'
<1>1. e \in Event
  BY DEF Allowed
<1> QED
  BY <1>1, LookTypes DEF TypesInv

\* The three events of a preparation that are recorded by their key.
LEMMA RecordAllowed ==
  ASSUME TypesInv, NEW d \in Dealers, At(d, "hand"), Fresh(d)
  PROVE  LET open == Seeds(d) \ Seen(d).playerCommitments
             hand == Hand(Id(d))
         IN  /\ Seen(d).status = "MISSING" =>
                   Allowed(Id(d), [type |-> "HAND_OPENED", rules |-> dealer[d].setup.rules,
                                   players |-> dealer[d].setup.players])
             /\ hand.status = "COMMITTING" /\ open # {} =>
                   Allowed(Id(d), [type |-> "PLAYER_COMMITTED", playerId |-> Min(open)])
             /\ hand.status = "COMMITTING" /\ hand.playerCommitments = hand.players =>
                   Allowed(Id(d), [type |-> "BEACON_RESERVED", round |-> d])
<1> DEFINE open == Seeds(d) \ Seen(d).playerCommitments
           e1 == [type |-> "HAND_OPENED", rules |-> dealer[d].setup.rules,
                  players |-> dealer[d].setup.players]
           e2 == [type |-> "PLAYER_COMMITTED", playerId |-> Min(open)]
           e3 == [type |-> "BEACON_RESERVED", round |-> d]
<1>1. dealer[d].pc \in Logging
  BY DEF At, Logging
<1>2. /\ Log(d) \in Seq(Event) /\ Hand(Id(d)) = ReduceHand(Log(d)) /\ Read(d) = Log(d)
      /\ dealer[d].setup.players \in SUBSET Players /\ dealer[d].setup.rules \in Rules
      /\ preparation[Id(d)] \in SUBSET Players /\ Seen(d) = ReduceHand(Read(d))
  BY <1>1, SeenPart
<1>3. preparation[Id(d)] # NoPreparation
  BY <1>2, NamesAssumption
<1>4. Seen(d).status = "MISSING" => Log(d) = <<>>
  BY <1>2, Status
<1>5. Hand(Id(d)).status = "COMMITTING" => Log(d) # <<>>
  BY <1>2, Status
<1>6. open # {} => Min(open) \in Players
  <2> HAVE open # {}
  <2>1. open \subseteq Players /\ open \subseteq Nat
    BY <1>2, PlayersAreNumbers DEF Seeds
  <2> HIDE DEF open
  <2>2. Min(open) \in open
    BY <2>1, MinOfNaturals
  <2> QED
    BY <2>1, <2>2
<1>7. e1 \in Event /\ (open # {} => e2 \in Event) /\ e3 \in Event
  BY <1>2, <1>6 DEF Event
<1> HIDE DEF open
<1>8. Seen(d).status = "MISSING" => Allowed(Id(d), e1)
  BY <1>3, <1>4, <1>7 DEF Allowed, Log
<1>9. Hand(Id(d)).status = "COMMITTING" /\ open # {} => Allowed(Id(d), e2)
  BY <1>5, <1>7 DEF Allowed, Log
<1>10. Hand(Id(d)).status = "COMMITTING" /\ Hand(Id(d)).playerCommitments = Hand(Id(d)).players =>
          Allowed(Id(d), e3)
  BY <1>5, <1>7 DEF Allowed, Log
<1> QED
  BY <1>8, <1>9, <1>10 DEF open

\* What the records of a preparation do.
LEMMA RecordSteps ==
  ASSUME TypesInv, NEW d \in Dealers, OpenHand(d) \/ SubmitPlayerCommitment(d) \/ ReserveBeacon(d)
  PROVE  /\ At(d, "hand") /\ Keep
         /\ \/ /\ Look(d, "hand", transcript[Id(d)])
               /\ UNCHANGED <<table, transcript, redis, scheduled>>
            \/ /\ Look(d, "hand", transcript'[Id(d)])
               /\ UNCHANGED <<table, redis, scheduled>>
               /\ Fresh(d)
               /\ \E e : /\ Allowed(Id(d), e) /\ Append1(Id(d), e)
                         /\ e.type \in {"HAND_OPENED", "PLAYER_COMMITTED", "BEACON_RESERVED"}
                         /\ e.type = "HAND_OPENED" => e.rules = dealer[d].setup.rules
                                                      /\ e.players = dealer[d].setup.players
            \/ Fail(d)
<1>1. CASE OpenHand(d)
  <2> DEFINE e == [type |-> "HAND_OPENED", rules |-> dealer[d].setup.rules,
                  players |-> dealer[d].setup.players]
             allowed == TRUE
  <2>1. At(d, "hand") /\ Keep /\ Record(d, e, allowed, "hand")
    BY <1>1 DEF OpenHand
  <2>2. allowed /\ Fresh(d) => Allowed(Id(d), e)
    BY <1>1, <2>1, RecordAllowed DEF OpenHand
  <2>3. /\ e.type \in {"HAND_OPENED", "PLAYER_COMMITTED", "BEACON_RESERVED"}
        /\ e.type = "HAND_OPENED" => e.rules = dealer[d].setup.rules
                                     /\ e.players = dealer[d].setup.players
    OBVIOUS
  <2> HIDE DEF e, allowed
  <2> QED
    BY <2>1, <2>2, <2>3 DEF Record
<1>2. CASE SubmitPlayerCommitment(d)
  <2> DEFINE e == [type |-> "PLAYER_COMMITTED", playerId |-> Min(Seeds(d) \ Seen(d).playerCommitments)]
             allowed == Hand(Id(d)).status = "COMMITTING" /\ Min(Seeds(d) \ Seen(d).playerCommitments) \in Hand(Id(d)).players
  <2>1. At(d, "hand") /\ Keep /\ Record(d, e, allowed, "hand")
    BY <1>2 DEF SubmitPlayerCommitment
  <2>2. allowed /\ Fresh(d) => Allowed(Id(d), e)
    BY <1>2, <2>1, RecordAllowed DEF SubmitPlayerCommitment
  <2>3. /\ e.type \in {"HAND_OPENED", "PLAYER_COMMITTED", "BEACON_RESERVED"}
        /\ e.type = "HAND_OPENED" => e.rules = dealer[d].setup.rules
                                     /\ e.players = dealer[d].setup.players
    OBVIOUS
  <2> HIDE DEF e, allowed
  <2> QED
    BY <2>1, <2>2, <2>3 DEF Record
<1>3. CASE ReserveBeacon(d)
  <2> DEFINE e == [type |-> "BEACON_RESERVED", round |-> d]
             allowed == /\ Hand(Id(d)).status = "COMMITTING"
                       /\ Hand(Id(d)).playerCommitments = Hand(Id(d)).players
  <2>1. At(d, "hand") /\ Keep /\ Record(d, e, allowed, "hand")
    BY <1>3 DEF ReserveBeacon
  <2>2. allowed /\ Fresh(d) => Allowed(Id(d), e)
    BY <1>3, <2>1, RecordAllowed DEF ReserveBeacon
  <2>3. /\ e.type \in {"HAND_OPENED", "PLAYER_COMMITTED", "BEACON_RESERVED"}
        /\ e.type = "HAND_OPENED" => e.rules = dealer[d].setup.rules
                                     /\ e.players = dealer[d].setup.players
    OBVIOUS
  <2> HIDE DEF e, allowed
  <2> QED
    BY <2>1, <2>2, <2>3 DEF Record
<1> QED
  BY <1>1, <1>2, <1>3

LEMMA RecordTypes ==
  ASSUME TypesInv, NEW d \in Dealers, OpenHand(d) \/ SubmitPlayerCommitment(d) \/ ReserveBeacon(d)
  PROVE  TypesInv'
<1>1. dealer[d].pc \in Logging /\ Keep
  BY RecordSteps DEF At, Logging
<1>2. CASE Look(d, "hand", transcript[Id(d)]) /\ UNCHANGED <<table, transcript, redis, scheduled>>
  BY <1>1, <1>2, LookStep
<1>3. CASE /\ Look(d, "hand", transcript'[Id(d)]) /\ UNCHANGED <<table, redis, scheduled>>
           /\ \E e : Allowed(Id(d), e) /\ Append1(Id(d), e)
  <2>1. PICK e : Allowed(Id(d), e) /\ Append1(Id(d), e)
    BY <1>3
  <2>2. UNCHANGED <<reseated, unannounced>> /\ doubted' \in BOOLEAN
    BY <1>1 DEF Keep, bounds, TypesInv
  <2> QED
    BY <1>1, <1>3, <2>1, <2>2, AppendStep
<1>4. CASE Fail(d)
  BY <1>1, <1>4, FailTypes
<1> QED
  BY <1>2, <1>3, <1>4, RecordSteps

\* The deck of a hand may be recorded by a run that has stored its secret.
LEMMA DeckAllowed ==
  ASSUME TypesInv, NEW d \in Dealers, At(d, "append") \/ At(d, "find")
  PROVE  /\ Has(Read(d), "BEACON_RESERVED") /\ Has(Log(d), "BEACON_RESERVED")
         /\ Deck(d) = DeckOf(Id(d)) /\ Allowed(Id(d), DeckEvent(d))
<1>1. dealer[d].pc \in Logging /\ dealer[d].pc \in {"find", "append"}
  BY DEF At, Logging
<1>2. Has(Read(d), "BEACON_RESERVED") /\ Seeds(d) = Hand(Id(d)).playerCommitments
  BY <1>1 DEF TypesInv, RunOK
<1>3. Deck(d) = DeckOf(Id(d)) /\ Deck(d) \in Decks /\ Has(Log(d), "BEACON_RESERVED")
  BY <1>1, <1>2, DeckSeen
<1>4. Log(d) # <<>>
  BY <1>3 DEF Has
<1>5. DeckEvent(d) \in Event
  BY <1>3 DEF Event, DeckEvent
<1> QED
  BY <1>2, <1>3, <1>4, <1>5 DEF Allowed, DeckEvent, Log, Seeds

LEMMA StoreTypes ==
  ASSUME TypesInv, NEW d \in Dealers, StoreDeck(d)
  PROVE  TypesInv'
<1>1. At(d, "hand") /\ dealer[d].pc \in Logging /\ Seen(d).status = "BEACON_RESERVED" /\ Keep
  BY DEF StoreDeck, At, Logging
<1>2. /\ Id(d) \in Hands /\ Read(d) \in Seq(Event) /\ Seen(d) = ReduceHand(Read(d))
      /\ LogOK(Id(d)) /\ RunOK(d)
  BY <1>1, SeenPart DEF TypesInv
<1>3. Has(Read(d), "BEACON_RESERVED")
  BY <1>1, <1>2, Status
<1>4. Deck(d) = DeckOf(Id(d)) /\ Deck(d) \in Decks /\ Has(Log(d), "BEACON_RESERVED")
  BY <1>1, <1>3, DeckSeen
<1>5. CASE Look(d, "hand", transcript[Id(d)]) /\ UNCHANGED <<table, transcript, redis, scheduled>>
  BY <1>1, <1>5, LookStep
<1>6. CASE Fail(d)
  BY <1>1, <1>6, FailTypes
<1>7. CASE /\ Seeds(d) = Hand(Id(d)).playerCommitments
           /\ committed' = [committed EXCEPT ![Id(d)] = Deck(d)]
           /\ dealer' = [dealer EXCEPT ![d] =
                [pc |-> "find", setup |-> @.setup, seen |-> @.seen,
                 inserted |-> committed[Id(d)] = NoDeck]]
           /\ UNCHANGED <<table, transcript, preparation, scheduled>>
  <2> DEFINE h == Id(d)
             call == [pc |-> "find", setup |-> dealer[d].setup, seen |-> dealer[d].seen,
                      inserted |-> committed[h] = NoDeck]
  <2>1. dealer' = [dealer EXCEPT ![d] = call]
    BY <1>7
  <2>2. dealer'[d] = call
    <3> HIDE DEF call
    <3> QED
      BY <2>1, RunTo
  <2>3. /\ committed' \in [Hands -> Decks \cup {NoDeck}] /\ committed'[h] = Deck(d)
        /\ \A k \in Hands : k # h => committed'[k] = committed[k]
    BY <1>2, <1>4, <1>7 DEF TypesInv
  <2>4. ASSUME NEW k \in Hands PROVE Grows(k)
    <3>1. Begins(transcript[k], transcript[k])
      BY DEF TypesInv, Begins
    <3> QED
      BY <1>7, <3>1 DEF Grows, Hand
  <2>5. ASSUME NEW k \in Hands PROVE LogOK(k)'
    <3>1. CASE k # h
      BY <1>7, <2>3, <3>1 DEF TypesInv, LogOK, DeckOf, Hand
    <3>2. CASE k = h
      BY <1>2, <1>4, <1>7, <2>3, <3>2 DEF LogOK, DeckOf, Hand, Log
    <3> QED
      BY <3>1, <3>2
  <2>6. Id(d)' = h /\ dealer'[d].pc = "find" /\ dealer'[d].seen = dealer[d].seen
        /\ dealer'[d].setup = dealer[d].setup /\ UNCHANGED <<transcript, preparation>>
    BY <1>7, <2>2 DEF Id
  <2>7. Has(Read(d), "BEACON_RESERVED")' /\ (Seeds(d) = Hand(Id(d)).playerCommitments)'
    BY <1>3, <1>7, <2>6 DEF Read, Log, Seeds, Hand
  <2>8. RunOK(d)'
    <3>1. /\ call.setup.players \in SUBSET Players /\ call.setup.rules \in Rules
          /\ preparation[h] # NoPreparation /\ call.seen \in 0..Len(Log(d))
      BY <1>1, <1>2 DEF RunOK, Preparing, Logging
    <3>2. Log(d)' = Log(d)
      BY <2>6 DEF Log
    <3> QED
      BY <1>2, <2>2, <2>6, <2>7, <3>1, <3>2 DEF RunOK, Preparing, Logging, Viewing
  <2>9. UNCHANGED <<table, scheduled, doubted, reseated, unannounced>>
    BY <1>1, <1>7 DEF Keep, bounds
  <2>10. transcript' \in [Hands -> Seq(Event)]
         /\ preparation' \in [Hands -> (SUBSET Players) \cup {NoPreparation}]
    BY <1>7 DEF TypesInv
  <2> QED
    BY <2>1, <2>3, <2>4, <2>5, <2>8, <2>9, <2>10, TypesFrom DEF TypesInv
<1> QED
  BY <1>5, <1>6, <1>7 DEF StoreDeck, PutSecret

LEMMA FindTypes ==
  ASSUME TypesInv, NEW d \in Dealers, FindDeck(d)
  PROVE  TypesInv'
<1>1. At(d, "find") /\ dealer[d].pc \in Logging /\ Keep /\ UNCHANGED <<table, transcript, redis, scheduled>>
  BY DEF FindDeck, At, Logging
<1>2. CASE Look(d, "hand", transcript[Id(d)])
  BY <1>1, <1>2, LookStep
<1>3. CASE Goto(d, "append")
  <2>1. RunOK(d) /\ dealer[d] = [pc |-> dealer[d].pc, setup |-> dealer[d].setup, seen |-> dealer[d].seen,
                                 inserted |-> dealer[d].inserted]
    BY <1>1 DEF TypesInv, RunOK, At
  <2>2. dealer' = [dealer EXCEPT ![d] = [dealer[d] EXCEPT !.pc = "append"]]
    BY <1>3, GotoIs
  <2>3. dealer'[d] = [dealer[d] EXCEPT !.pc = "append"]
    BY <2>2, RunTo
  <2>4. dealer'[d] = [pc |-> "append", setup |-> dealer[d].setup, seen |-> dealer[d].seen,
                      inserted |-> dealer[d].inserted]
    BY <2>1, <2>3
  <2>5. /\ Id(d)' = Id(d) /\ Read(d)' = Read(d) /\ Log(d)' = Log(d) /\ Seeds(d)' = Seeds(d)
        /\ Hand(Id(d))' = Hand(Id(d))
    <3>1. dealer'[d].setup = dealer[d].setup /\ dealer'[d].seen = dealer[d].seen
      BY <2>4
    <3>2. UNCHANGED <<transcript, preparation>>
      BY <1>1 DEF redis
    <3>3. Id(d)' = Id(d)
      BY <3>1 DEF Id
    <3> QED
      BY <3>1, <3>2, <3>3 DEF Read, Log, Seeds, Hand
  <2>6. RunOK(d)'
    BY <1>1, <2>1, <2>4, <2>5 DEF RunOK, Preparing, Logging, Viewing, At, redis
  <2> QED
    BY <1>1, <2>2, <2>6, RunTypes DEF TypesInv, Keep, bounds
<1> QED
  BY <1>2, <1>3 DEF FindDeck

LEMMA UndoableTypes ==
  ASSUME TypesInv, NEW d \in Dealers, At(d, "append"), Goto(d, "undo"),
         transcript' \in [Hands -> Seq(Event)], preparation' = preparation,
         \A k \in Hands : Grows(k)
  PROVE  /\ RunOK(d)' /\ dealer' = [dealer EXCEPT ![d] = [dealer[d] EXCEPT !.pc = "undo"]]
         /\ dealer'[d] = [pc |-> "undo", setup |-> dealer[d].setup, seen |-> dealer[d].seen,
                          inserted |-> dealer[d].inserted]
<1>1. RunOK(d) /\ dealer[d] = [pc |-> dealer[d].pc, setup |-> dealer[d].setup, seen |-> dealer[d].seen,
                               inserted |-> dealer[d].inserted]
  BY DEF TypesInv, RunOK, At
<1>2. dealer' = [dealer EXCEPT ![d] = [dealer[d] EXCEPT !.pc = "undo"]]
  BY GotoIs
<1>3. dealer'[d] = [dealer[d] EXCEPT !.pc = "undo"]
  BY <1>2, RunTo
<1>4. dealer'[d] = [pc |-> "undo", setup |-> dealer[d].setup, seen |-> dealer[d].seen,
                    inserted |-> dealer[d].inserted]
  BY <1>1, <1>3
<1>5. Id(d)' = Id(d) /\ Id(d) \in Hands /\ dealer[d].seen \in 0..Len(Log(d))
  BY <1>1, <1>4 DEF Id, RunOK, At, Logging, Preparing
<1>6. dealer[d].seen \in 0..Len(Log(d)')
  <2>1. Len(Log(d)) <= Len(Log(d)') /\ Len(Log(d)) \in Nat /\ Len(Log(d)') \in Nat
    BY <1>5 DEF Grows, Begins, Log, TypesInv
  <2> QED
    BY <1>5, <2>1
<1>7. RunOK(d)'
  BY <1>1, <1>4, <1>5, <1>6 DEF RunOK, Preparing, Logging, Viewing, At
<1> QED
  BY <1>2, <1>4, <1>7

LEMMA AppendDeckTypes ==
  ASSUME TypesInv, NEW d \in Dealers, AppendDeck(d)
  PROVE  TypesInv'
<1> DEFINE h == Id(d)
           e == DeckEvent(d)
<1>1. At(d, "append") /\ dealer[d].pc \in Logging /\ UNCHANGED <<table, redis, scheduled, reseated, unannounced>>
  BY DEF AppendDeck, At, Logging
<1>2. doubted' \in BOOLEAN
  BY DEF AppendDeck, TypesInv
<1>3. h \in Hands /\ Allowed(h, e)
  BY <1>1, SeenPart, DeckAllowed
<1>4. CASE Append1(h, e) /\ Look(d, "hand", transcript'[h])
  BY <1>1, <1>2, <1>3, <1>4, AppendStep
<1>5. CASE (Append1(h, e) \/ UNCHANGED transcript) /\ Goto(d, "undo")
  <2>1. /\ transcript' \in [Hands -> Seq(Event)]
        /\ preparation' \in [Hands -> (SUBSET Players) \cup {NoPreparation}]
        /\ committed' \in [Hands -> Decks \cup {NoDeck}]
        /\ \A k \in Hands : Grows(k) /\ LogOK(k)'
    <3>1. CASE Append1(h, e)
      <4> HIDE DEF h, e
      <4> QED
        BY <1>1, <1>3, <3>1, AppendSteps
    <3>2. CASE UNCHANGED transcript
      BY <1>1, <3>2, QuietSteps
    <3> QED
      BY <1>5, <3>1, <3>2
  <2>2. RunOK(d)' /\ dealer' = [dealer EXCEPT ![d] = [dealer[d] EXCEPT !.pc = "undo"]]
    BY <1>1, <1>5, <2>1, UndoableTypes DEF redis
  <2> QED
    BY <1>1, <1>2, <2>1, <2>2, TypesFrom DEF TypesInv
<1> QED
  BY <1>4, <1>5 DEF AppendDeck

LEMMA UndoTypes ==
  ASSUME TypesInv, NEW d \in Dealers, UndoDeck(d)
  PROVE  TypesInv'
<1> DEFINE h == Id(d)
<1>1. At(d, "undo") /\ dealer[d].pc \in Logging /\ Keep /\ UNCHANGED <<table, transcript, preparation, scheduled>>
      /\ Goto(d, "failed")
      /\ (committed' = committed \/ committed' = [committed EXCEPT ![h] = NoDeck])
  BY DEF UndoDeck, At, Logging, TypesInv
<1>2. h \in Hands
  BY <1>1, SeenPart
<1>3. committed' \in [Hands -> Decks \cup {NoDeck}]
      /\ \A k \in Hands : committed'[k] = committed[k] \/ committed'[k] = NoDeck
  BY <1>1, <1>2 DEF TypesInv
<1>4. ASSUME NEW k \in Hands PROVE Grows(k)
  <2>1. Begins(transcript[k], transcript[k])
    BY DEF TypesInv, Begins
  <2> QED
    BY <1>1, <2>1 DEF Grows, Hand
<1>5. ASSUME NEW k \in Hands PROVE LogOK(k)'
  BY <1>1, <1>3 DEF TypesInv, LogOK, DeckOf, Hand
<1>6. RunOK(d)'
  BY <1>1, GotoIs, SimpleRun DEF Simple
<1>7. dealer' = [dealer EXCEPT ![d] = [dealer[d] EXCEPT !.pc = "failed"]]
  BY <1>1, GotoIs
<1>8. transcript' \in [Hands -> Seq(Event)] /\ preparation' \in [Hands -> (SUBSET Players) \cup {NoPreparation}]
  BY <1>1 DEF TypesInv
<1> QED
  BY <1>1, <1>3, <1>4, <1>5, <1>6, <1>7, <1>8, TypesFrom DEF TypesInv, Keep, bounds

----------------------------------------------------------------------------
(* The steps that play a hand keep the types *)

LEMMA ReadForStartTypes ==
  ASSUME TypesInv, NEW d \in Dealers, ReadForStart(d)
  PROVE  TypesInv'
<1>1. At(d, "hand") /\ dealer[d].pc \in Logging /\ dealer[d].pc \in Preparing /\ Keep
      /\ UNCHANGED <<table, transcript, redis, scheduled>>
  BY DEF ReadForStart, At, Logging, Preparing
<1>2. CASE dealer' = [dealer EXCEPT ![d] = [pc |-> "advance"]]
  BY <1>1, <1>2, SimpleTypes DEF TypesInv, Keep, bounds, Simple
<1>3. CASE dealer' = [dealer EXCEPT ![d] = [pc |-> "start", setup |-> @.setup, seen |-> @.seen,
                                            view |-> table.version]]
  <2>1. dealer'[d] = [pc |-> "start", setup |-> dealer[d].setup, seen |-> dealer[d].seen,
                      view |-> table.version]
    <3> DEFINE call == [pc |-> "start", setup |-> dealer[d].setup, seen |-> dealer[d].seen,
                        view |-> table.version]
    <3>1. dealer' = [dealer EXCEPT ![d] = call]
      BY <1>3
    <3> HIDE DEF call
    <3>2. dealer'[d] = call
      BY <3>1, RunTo
    <3> QED
      BY <3>2 DEF call
  <2>2. RunOK(d) /\ table.version \in Nat
    BY TableFields DEF TypesInv
  <2>3. RunOK(d)'
    BY <1>1, <2>1, <2>2 DEF RunOK, Preparing, Logging, Viewing, Id, Log, redis
  <2> QED
    BY <1>1, <1>3, <2>3, RunTypes DEF TypesInv, Keep, bounds
<1> QED
  BY <1>2, <1>3 DEF ReadForStart

\* What StartHand does to the table.
Started(d, setup, betting) ==
    [table EXCEPT
        !.version = @ + 1, !.dealtAt = table.version,
        !.status = "HAND_ACTIVE", !.handNumber = setup.handId,
        !.button = setup.buttonSeat, !.players = setup.players,
        !.rules = setup.rules, !.deckRoot = Seen(d).deckRoot,
        !.board = <<>>, !.betting = betting]

LEMMA StartSteps ==
  ASSUME TypesInv, NEW d \in Dealers, StartHand(d)
  PROVE  /\ At(d, "start") /\ Keep
         /\ \/ /\ table.version = dealer[d].view
               /\ Cardinality(table.active) >= 2 /\ table.handNumber + 1 = Id(d)
               /\ \E betting \in {"BETTING", "AWAITING_RUNOUT"} :
                     table' = Started(d, NextHandSetup(table), betting)
               /\ dealer' = [dealer EXCEPT ![d] = [pc |-> "advance"]]
               /\ UNCHANGED <<transcript, redis, scheduled>>
            \/ /\ table.version # dealer[d].view /\ table.dealtAt = dealer[d].view
               /\ dealer' = [dealer EXCEPT ![d] = [pc |-> "advance"]]
               /\ UNCHANGED <<table, transcript, redis, scheduled>>
            \/ /\ table.version = dealer[d].view =>
                     ~(Cardinality(table.active) >= 2 /\ table.handNumber + 1 = Id(d))
               /\ table.version # dealer[d].view => table.dealtAt # dealer[d].view
               /\ Fail(d)
<1>1. NextHandSetup(table).handId = table.handNumber + 1
  BY DEF NextHandSetup
<1> QED
  BY <1>1 DEF StartHand, TableCommand, Started

LEMMA StartedTyped ==
  ASSUME TypesInv, NEW d \in Dealers, At(d, "start"), Cardinality(table.active) >= 2,
         table.handNumber + 1 = Id(d), NEW betting \in {"BETTING", "AWAITING_RUNOUT"}
  PROVE  LET t == Started(d, NextHandSetup(table), betting)
         IN  t \in TableType /\ t.dealtAt < t.version
<1> DEFINE setup == NextHandSetup(table)
<1>1. setup.handId = table.handNumber + 1 /\ setup.players \in SUBSET Players
      /\ setup.buttonSeat \in 0..9 /\ setup.rules \in Rules
  BY TableFields, SetupOK
<1>2. dealer[d].pc \in Logging
  BY DEF At, Logging
<1>3. setup.handId \in 0..MaxHands
  BY <1>1, <1>2, SeenPart, BoundsAssumption DEF Hands
<1>4. Seen(d).deckRoot \in Decks \cup {NoDeck}
  BY <1>2, SeenPart, HandTypes
<1>5. table.version \in Nat /\ table.version + 1 \in Nat /\ table.version < table.version + 1
  BY TableFields
<1>6. table \in TableType /\ betting \in {"BETTING", "NONE"} \cup Awaiting \cup Ended /\ <<>> \in Seq(Nat)
  BY TableFields DEF Awaiting
<1> HIDE DEF setup
<1>7. Started(d, setup, betting) \in TableType
  BY <1>1, <1>3, <1>4, <1>5, <1>6 DEF Started, TableType
<1>8. Started(d, setup, betting).dealtAt = table.version
      /\ Started(d, setup, betting).version = table.version + 1
  BY <1>6 DEF Started, TableType
<1> QED
  BY <1>5, <1>7, <1>8 DEF setup

LEMMA StartTypes ==
  ASSUME TypesInv, NEW d \in Dealers, StartHand(d)
  PROVE  TypesInv'
<1>1. At(d, "start") /\ UNCHANGED <<doubted, reseated, unannounced>>
  BY StartSteps DEF Keep, bounds
<1>2. CASE Fail(d)
  BY <1>2, FailTypes, StartSteps
<1>3. CASE dealer' = [dealer EXCEPT ![d] = [pc |-> "advance"]] /\ UNCHANGED <<table, transcript, redis, scheduled>>
  BY <1>1, <1>3, SimpleTypes DEF TypesInv, Simple
<1>4. CASE /\ Cardinality(table.active) >= 2 /\ table.handNumber + 1 = Id(d)
           /\ \E betting \in {"BETTING", "AWAITING_RUNOUT"} :
                 table' = Started(d, NextHandSetup(table), betting)
           /\ dealer' = [dealer EXCEPT ![d] = [pc |-> "advance"]]
           /\ UNCHANGED <<transcript, redis, scheduled>>
  <2>1. table' \in TableType /\ table'.dealtAt < table'.version
    BY <1>1, <1>4, StartedTyped
  <2> QED
    BY <1>1, <1>4, <2>1, SimpleTypes DEF TypesInv, Simple
<1> QED
  BY <1>2, <1>3, <1>4, StartSteps

LEMMA AdvanceTypes ==
  ASSUME TypesInv, PlayInv, NEW d \in Dealers, Advance(d)
  PROVE  TypesInv'
<1>1. /\ UNCHANGED <<table, transcript, redis, scheduled, doubted, reseated>>
      /\ unannounced' \subseteq Players \cup {0}
  BY DEF Advance, bounds, TypesInv
<1>2. CASE ~Active \/ table.betting = "BETTING"
  BY <1>1, <1>2, SimpleTypes DEF Advance, TypesInv, Simple, Active
<1>3. CASE Active /\ table.betting # "BETTING"
  <2> DEFINE h == table.handNumber
             ends == table.betting \in {"COMPLETE", "SHOWDOWN"}
             wanted == IF ends THEN <<>> ELSE Wanted(table)
             call == [pc |-> IF ends THEN "complete" ELSE "reveal", setup |-> [handId |-> h],
                      seen |-> Len(transcript[h]), view |-> table.version, wanted |-> wanted]
  <2>1. dealer' = [dealer EXCEPT ![d] = call]
    BY <1>3 DEF Advance, Active
  <2>2. h # 0 /\ BoardOK
    BY <1>3 DEF PlayInv, TablePlays
  <2>3. h \in Hands /\ table.version \in Nat
    BY <2>2, TableFields, BoundsAssumption DEF Hands
  <2>4. wanted \in Seq(Nat)
    <3>1. CASE ends
      BY <3>1
    <3>2. CASE ~ends
      <4>1. table.betting \in Awaiting
        BY <1>3, <2>2, <3>2, TableFields DEF BoardOK, Ended
      <4> QED
        BY <2>2, <3>2, <4>1, WantedTyped, TableFields DEF BoardOK
    <3> QED
      BY <3>1, <3>2
  <2>5. dealer'[d] = call
    <3> HIDE DEF call
    <3> QED
      BY <2>1, RunTo
  <2>6. Len(transcript[h]) \in Nat /\ Len(transcript[h]) \in 0..Len(transcript[h])
    BY <2>3 DEF TypesInv
  <2>7. Id(d)' = h /\ Log(d)' = transcript[h]
    BY <1>1, <2>5 DEF Id, Log
  <2> HIDE DEF wanted, ends
  <2>8. RunOK(d)'
    BY <2>3, <2>4, <2>5, <2>6, <2>7 DEF RunOK, Preparing, Logging, Viewing
  <2> QED
    BY <1>1, <2>1, <2>8, RunTypes DEF TypesInv
<1> QED
  BY <1>2, <1>3

LEMMA RevealCall ==
  ASSUME NEW b, NEW c, NEW v, NEW w, NEW x, NEW y
  PROVE  LET r == [pc |-> "reveal", setup |-> b, seen |-> c, view |-> v, wanted |-> w]
         IN  /\ [[r EXCEPT !.wanted = x] EXCEPT !.seen = y] =
                    [pc |-> "reveal", setup |-> b, seen |-> y, view |-> v, wanted |-> x]
             /\ r = [pc |-> r.pc, setup |-> r.setup, seen |-> r.seen, view |-> r.view, wanted |-> r.wanted]
             /\ "pc" \in DOMAIN r
             /\ r.pc = "reveal" /\ r.setup = b /\ r.seen = c /\ r.view = v /\ r.wanted = w
<1> DEFINE r == [pc |-> "reveal", setup |-> b, seen |-> c, view |-> v, wanted |-> w]
           q == [pc |-> "reveal", setup |-> b, seen |-> c, view |-> v, wanted |-> x]
<1>1. [r EXCEPT !.wanted = x] = q
  OBVIOUS
<1>2. [q EXCEPT !.seen = y] = [pc |-> "reveal", setup |-> b, seen |-> y, view |-> v, wanted |-> x]
  OBVIOUS
<1>3. "pc" \in DOMAIN r
  OBVIOUS
<1>4. r.pc = "reveal" /\ r.setup = b /\ r.seen = c /\ r.view = v /\ r.wanted = w
  OBVIOUS
<1>5. r = [pc |-> r.pc, setup |-> r.setup, seen |-> r.seen, view |-> r.view, wanted |-> r.wanted]
  BY <1>4
<1> HIDE DEF q
<1> QED
  BY <1>1, <1>2, <1>3, <1>4, <1>5, Zenon DEF q

\* What a run of dealing does when a card is revealed, or was before.
LEMMA RevealedRun ==
  ASSUME TypesInv, NEW d \in Dealers, At(d, "reveal"), dealer[d].wanted # <<>>,
         transcript' \in [Hands -> Seq(Event)],
         dealer' = [dealer EXCEPT ![d].wanted = Tail(@), ![d].seen = Len(transcript'[Id(d)])]
  PROVE  /\ dealer' = [dealer EXCEPT ![d] = dealer'[d]]
         /\ dealer'[d] = [pc |-> "reveal", setup |-> dealer[d].setup,
                          seen |-> Len(transcript'[Id(d)]), view |-> dealer[d].view,
                          wanted |-> Tail(dealer[d].wanted)]
         /\ RunOK(d)'
<1> DEFINE n == Len(transcript'[Id(d)])
           call == [pc |-> "reveal", setup |-> dealer[d].setup, seen |-> n,
                    view |-> dealer[d].view, wanted |-> Tail(dealer[d].wanted)]
<1>1. /\ dealer[d] = [pc |-> "reveal", setup |-> dealer[d].setup, seen |-> dealer[d].seen,
                      view |-> dealer[d].view, wanted |-> dealer[d].wanted]
      /\ dealer[d].wanted \in Seq(Nat) /\ Id(d) \in Hands /\ dealer[d].view \in Nat
      /\ dealer = [e \in Dealers |-> dealer[e]]
  BY DEF TypesInv, RunOK, At, Viewing
<1> HIDE DEF n
<1>2. dealer' = [dealer EXCEPT ![d].wanted = Tail(@), ![d].seen = n]
  BY DEF n
<1>3. dealer'[d] = call /\ dealer' = [dealer EXCEPT ![d] = call]
  <2> DEFINE c1 == [dealer[d] EXCEPT !.wanted = Tail(dealer[d].wanted)]
             c2 == [c1 EXCEPT !.seen = n]
             f1 == [dealer EXCEPT ![d] = c1]
  <2>1. dealer' = [f1 EXCEPT ![d] = [f1[d] EXCEPT !.seen = n]]
    BY <1>2
  <2>2. f1 = [e \in Dealers |-> f1[e]] /\ f1[d] = c1 /\ \A e \in Dealers : e # d => f1[e] = dealer[e]
    BY <1>1
  <2>3. c2 = call
    <3>1. PICK b, c, v, w : dealer[d] = [pc |-> "reveal", setup |-> b, seen |-> c, view |-> v, wanted |-> w]
      BY <1>1
    <3>2. dealer[d].setup = b /\ dealer[d].view = v
      BY <3>1
    <3> DEFINE x == Tail(dealer[d].wanted)
               r == [pc |-> "reveal", setup |-> b, seen |-> c, view |-> v, wanted |-> w]
    <3>3. c1 = [r EXCEPT !.wanted = x]
      BY <3>1
    <3>4. call = [pc |-> "reveal", setup |-> b, seen |-> n, view |-> v, wanted |-> x]
      BY <3>2
    <3> HIDE DEF x
    <3> DEFINE q == [pc |-> "reveal", setup |-> b, seen |-> c, view |-> v, wanted |-> x]
    <3>5. [r EXCEPT !.wanted = x] = q
      OBVIOUS
    <3>6. [q EXCEPT !.seen = n] =
             [pc |-> "reveal", setup |-> b, seen |-> n, view |-> v, wanted |-> x]
      OBVIOUS
    <3> HIDE DEF c1, r, q, call
    <3> QED
      BY <3>3, <3>4, <3>5, <3>6
  <2> HIDE DEF f1, c1, call
  <2>4. dealer' = [e \in Dealers |-> dealer'[e]] /\ dealer'[d] = c2
        /\ \A e \in Dealers : e # d => dealer'[e] = dealer[e]
    BY <2>1, <2>2
  <2>5. dealer' = [e \in Dealers |-> IF e = d THEN call ELSE dealer[e]]
    BY <2>3, <2>4
  <2>6. [dealer EXCEPT ![d] = call] = [e \in Dealers |-> IF e = d THEN call ELSE dealer[e]]
    BY <1>1
  <2> QED
    BY <2>3, <2>4, <2>5, <2>6
<1>4. Id(d)' = Id(d)
  BY <1>3 DEF Id
<1>5. n \in 0..Len(Log(d)')
  <2>1. Log(d)' = transcript'[Id(d)] /\ Len(transcript'[Id(d)]) \in Nat
    BY <1>1, <1>4 DEF Log
  <2> QED
    BY <2>1 DEF n
<1>6. Tail(dealer[d].wanted) \in Seq(Nat)
  BY <1>1
<1>7. RunOK(d)'
  <2>1. /\ dealer'[d] = [pc |-> dealer'[d].pc, setup |-> dealer'[d].setup, seen |-> dealer'[d].seen,
                         view |-> dealer'[d].view, wanted |-> dealer'[d].wanted]
        /\ "pc" \in DOMAIN dealer'[d] /\ dealer'[d].pc = "reveal" /\ dealer'[d].seen = n
        /\ dealer'[d].view = dealer[d].view /\ dealer'[d].wanted = Tail(dealer[d].wanted)
    <3> DEFINE b == dealer[d].setup
               v == dealer[d].view
               w == Tail(dealer[d].wanted)
               r == [pc |-> "reveal", setup |-> b, seen |-> n, view |-> v, wanted |-> w]
    <3>1. dealer'[d] = r
      BY <1>3
    <3> HIDE DEF b, v, w
    <3>2. /\ r = [pc |-> r.pc, setup |-> r.setup, seen |-> r.seen, view |-> r.view, wanted |-> r.wanted]
          /\ "pc" \in DOMAIN r
          /\ r.pc = "reveal" /\ r.seen = n /\ r.view = v /\ r.wanted = w
      BY RevealCall
    <3> HIDE DEF r
    <3> QED
      BY <3>1, <3>2 DEF b, v, w
  <2> HIDE DEF call
  <2> QED
    BY <1>1, <1>4, <1>5, <1>6, <2>1 DEF RunOK, Preparing, Logging, Viewing
<1> QED
  BY <1>3, <1>7 DEF n

\* The public card that may be revealed next.
LEMMA RevealSteps ==
  ASSUME TypesInv, NEW d \in Dealers, RevealPublicCard(d)
  PROVE  LET h == Id(d)
             hand == Hand(h)
             position == Head(dealer[d].wanted)
             event == [type |-> "PUBLIC_CARD_REVEALED", position |-> position]
         IN  /\ At(d, "reveal") /\ dealer[d].wanted # <<>> /\ h \in Hands /\ Keep
             /\ dealer[d].wanted \in Seq(Nat) /\ position \in Nat
             /\ UNCHANGED <<table, redis, scheduled>>
             /\ \/ /\ Recorded(h, event) /\ UNCHANGED transcript
                   /\ dealer' = [dealer EXCEPT ![d].wanted = Tail(@), ![d].seen = Len(transcript'[h])]
                \/ /\ Allowed(h, event) /\ Append1(h, event)
                   /\ position \in Range(BoardPositions(hand.rules))
                   /\ IsPrefix(Append(hand.publicPositions, position), BoardPositions(hand.rules))
                   /\ ~Recorded(h, event)
                   /\ dealer' = [dealer EXCEPT ![d].wanted = Tail(@), ![d].seen = Len(transcript'[h])]
                \/ Goto(d, "failed") /\ UNCHANGED transcript
<1> DEFINE h == Id(d)
           hand == Hand(h)
           position == Head(dealer[d].wanted)
           event == [type |-> "PUBLIC_CARD_REVEALED", position |-> position]
<1>1. At(d, "reveal") /\ dealer[d].wanted # <<>> /\ h \in Hands /\ dealer[d].wanted \in Seq(Nat)
  BY DEF RevealPublicCard, At, TypesInv, RunOK
<1>2. position \in Nat
  BY <1>1
<1>3. event \in Event
  <2> HIDE DEF position
  <2> QED
    BY <1>2 DEF Event
<1>4. hand.status = "DEALING" => Allowed(h, event)
  <2>1. transcript[h] \in Seq(Event)
    BY <1>1 DEF TypesInv
  <2>2. hand.status = "DEALING" => transcript[h] # <<>>
    BY <2>1, Status DEF Hand, Has
  <2> HIDE DEF h, hand, position
  <2> QED
    BY <1>3, <2>2 DEF Allowed, hand
<1> HIDE DEF event, position
<1> QED
  BY <1>1, <1>2, <1>4 DEF RevealPublicCard, event, position

LEMMA RevealTypes ==
  ASSUME TypesInv, NEW d \in Dealers, RevealPublicCard(d)
  PROVE  TypesInv'
<1> DEFINE h == Id(d)
<1>1. At(d, "reveal") /\ dealer[d].wanted # <<>> /\ h \in Hands
      /\ UNCHANGED <<table, redis, scheduled, doubted, reseated, unannounced>>
  BY RevealSteps DEF Keep, bounds
<1>2. CASE Goto(d, "failed") /\ UNCHANGED transcript
  BY <1>1, <1>2, SimpleTypes DEF TypesInv, Simple
<1>3. CASE /\ UNCHANGED transcript \/ \E e : Allowed(h, e) /\ Append1(h, e)
           /\ dealer' = [dealer EXCEPT ![d].wanted = Tail(@), ![d].seen = Len(transcript'[h])]
  <2>1. /\ transcript' \in [Hands -> Seq(Event)]
        /\ preparation' \in [Hands -> (SUBSET Players) \cup {NoPreparation}]
        /\ committed' \in [Hands -> Decks \cup {NoDeck}]
        /\ \A k \in Hands : Grows(k) /\ LogOK(k)'
    <3>1. CASE UNCHANGED transcript
      BY <1>1, <3>1, QuietSteps
    <3>2. CASE \E e : Allowed(h, e) /\ Append1(h, e)
      <4> HIDE DEF h
      <4> QED
        BY <1>1, <3>2, AppendSteps
    <3> QED
      BY <1>3, <3>1, <3>2
  <2>2. RunOK(d)' /\ dealer' = [dealer EXCEPT ![d] = dealer'[d]]
    BY <1>1, <1>3, <2>1, RevealedRun
  <2> QED
    BY <1>1, <2>1, <2>2, TypesFrom DEF TypesInv
<1> QED
  BY <1>2, <1>3, RevealSteps

\* What DealBoard does to the table.
Dealt ==
    [table EXCEPT
        !.version = @ + 1, !.dealtAt = table.version,
        !.board = @ \o Wanted(table),
        !.betting = IF @ = "AWAITING_RUNOUT" THEN "SHOWDOWN" ELSE "BETTING"]

LEMMA DealSteps ==
  ASSUME NEW d \in Dealers, DealBoard(d)
  PROVE  /\ At(d, "reveal") /\ dealer[d].wanted = <<>> /\ Keep
         /\ \/ /\ table.version = dealer[d].view
               /\ table' = Dealt
               /\ scheduled' = scheduled \cup {d}
               /\ dealer' = [dealer EXCEPT ![d] = [pc |-> "advance"]]
               /\ UNCHANGED <<transcript, redis>>
            \/ /\ table.version # dealer[d].view /\ table.dealtAt = dealer[d].view
               /\ dealer' = [dealer EXCEPT ![d] = [pc |-> "advance"]]
               /\ UNCHANGED <<table, transcript, redis, scheduled>>
            \/ /\ table.version # dealer[d].view /\ table.dealtAt # dealer[d].view
               /\ Fail(d)
BY DEF DealBoard, TableCommand, Dealt, Wake, Listens

LEMMA DealtTyped ==
  ASSUME TypesInv, PlayInv, Active, table.betting \in Awaiting
  PROVE  /\ Dealt \in TableType /\ Dealt.dealtAt < Dealt.version
         /\ Dealt.version = table.version + 1 /\ Dealt.dealtAt = table.version
         /\ Dealt.board = table.board \o Wanted(table)
         /\ Dealt.betting = IF table.betting = "AWAITING_RUNOUT" THEN "SHOWDOWN" ELSE "BETTING"
         /\ Dealt.status = table.status /\ Dealt.handNumber = table.handNumber
         /\ Dealt.players = table.players /\ Dealt.rules = table.rules
         /\ Dealt.deckRoot = table.deckRoot /\ Dealt.active = table.active
<1>1. BoardOK
  BY DEF PlayInv, TablePlays
<1>2. Wanted(table) \in Seq(Nat)
  BY <1>1, WantedTyped, TableFields DEF BoardOK
<1>3. table \in TableType /\ table.board \in Seq(Nat) /\ table.version \in Nat
  BY TableFields
<1>4. table.board \o Wanted(table) \in Seq(Nat) /\ table.version + 1 \in Nat
      /\ table.version < table.version + 1
  BY <1>2, <1>3
<1> QED
  BY <1>3, <1>4 DEF Dealt, TableType, Ended

LEMMA DealTypes ==
  ASSUME TypesInv, PlayInv, NEW d \in Dealers, DealBoard(d)
  PROVE  TypesInv'
<1>1. At(d, "reveal") /\ UNCHANGED <<doubted, reseated, unannounced>> /\ Keep
  BY DealSteps DEF Keep, bounds
<1>2. CASE Fail(d)
  BY <1>1, <1>2, FailTypes
<1>3. CASE dealer' = [dealer EXCEPT ![d] = [pc |-> "advance"]] /\ UNCHANGED <<table, transcript, redis, scheduled>>
  BY <1>1, <1>3, SimpleTypes DEF TypesInv, Simple
<1>4. CASE /\ table.version = dealer[d].view /\ table' = Dealt /\ scheduled' = scheduled \cup {d}
           /\ dealer' = [dealer EXCEPT ![d] = [pc |-> "advance"]]
           /\ UNCHANGED <<transcript, redis>>
  <2>1. Active /\ table.betting \in Awaiting
    BY <1>1, <1>4 DEF PlayInv, RunPlays, At
  <2>2. table' \in TableType /\ table'.dealtAt < table'.version
    BY <1>4, <2>1, DealtTyped
  <2>3. scheduled' \subseteq Dealers
    BY <1>4 DEF TypesInv
  <2> QED
    BY <1>1, <1>4, <2>2, <2>3, SimpleTypes DEF TypesInv, Simple
<1> QED
  BY <1>2, <1>3, <1>4, DealSteps

LEMMA CompleteSteps ==
  ASSUME TypesInv, NEW d \in Dealers, CompleteHand(d)
  PROVE  LET h == Id(d)
             event == [type |-> "HAND_COMPLETED"]
             call == [pc |-> "finish", view |-> dealer[d].view, bundle |-> AuditBundle(committed[h])]
         IN  /\ At(d, "complete") /\ h \in Hands /\ Keep
             /\ \/ /\ Recorded(h, event)
                   /\ dealer' = [dealer EXCEPT ![d] = call]
                   /\ UNCHANGED <<table, transcript, redis, scheduled>>
                \/ /\ Allowed(h, event) /\ Append1(h, event)
                   /\ dealer' = [dealer EXCEPT ![d] = call]
                   /\ UNCHANGED <<table, redis, scheduled>>
                \/ Fail(d)
<1> DEFINE h == Id(d)
           event == [type |-> "HAND_COMPLETED"]
<1>1. At(d, "complete") /\ h \in Hands
  BY DEF CompleteHand, At, TypesInv, RunOK
<1>2. Hand(h).status = "DEALING" => Allowed(h, event)
  <2>1. transcript[h] \in Seq(Event) /\ event \in Event
    BY <1>1 DEF TypesInv, Event
  <2>2. Hand(h).status = "DEALING" => transcript[h] # <<>>
    BY <2>1, Status DEF Hand, Has
  <2> HIDE DEF h
  <2> QED
    BY <2>1, <2>2 DEF Allowed
<1> HIDE DEF event
<1> QED
  BY <1>1, <1>2 DEF CompleteHand, event

LEMMA CompleteTypes ==
  ASSUME TypesInv, NEW d \in Dealers, CompleteHand(d)
  PROVE  TypesInv'
<1> DEFINE h == Id(d)
           call == [pc |-> "finish", view |-> dealer[d].view, bundle |-> AuditBundle(committed[h])]
<1>1. At(d, "complete") /\ h \in Hands /\ Keep /\ UNCHANGED <<doubted, reseated, unannounced>>
  BY CompleteSteps DEF Keep, bounds
<1>2. CASE Fail(d)
  BY <1>1, <1>2, FailTypes
<1>3. CASE /\ UNCHANGED transcript \/ \E e : Allowed(h, e) /\ Append1(h, e)
           /\ dealer' = [dealer EXCEPT ![d] = call] /\ UNCHANGED <<table, redis, scheduled>>
  <2>1. /\ transcript' \in [Hands -> Seq(Event)]
        /\ preparation' \in [Hands -> (SUBSET Players) \cup {NoPreparation}]
        /\ committed' \in [Hands -> Decks \cup {NoDeck}]
        /\ \A k \in Hands : Grows(k) /\ LogOK(k)'
    <3>1. CASE UNCHANGED transcript
      BY <1>3, <3>1, QuietSteps
    <3>2. CASE \E e : Allowed(h, e) /\ Append1(h, e)
      <4> HIDE DEF h
      <4> QED
        BY <1>1, <1>3, <3>2, AppendSteps
    <3> QED
      BY <1>3, <3>1, <3>2
  <2>2. dealer'[d].pc = "finish" /\ dealer'[d].view = dealer[d].view /\ "pc" \in DOMAIN dealer'[d]
    <3>1. dealer'[d] = call
      <4> HIDE DEF call
      <4> QED
        BY <1>3, RunTo
    <3> QED
      BY <3>1
  <2>3. dealer[d].view \in Nat
    BY <1>1 DEF TypesInv, RunOK, Viewing, At
  <2>4. RunOK(d)'
    BY <2>2, <2>3 DEF RunOK, Preparing, Logging, Viewing
  <2> HIDE DEF call
  <2> QED
    BY <1>1, <1>3, <2>1, <2>4, TypesFrom DEF TypesInv
<1> QED
  BY <1>2, <1>3, CompleteSteps

\* What FinishHand does to the table.
Finished(gone) ==
    [table EXCEPT
        !.version = @ + 1, !.dealtAt = table.version,
        !.status = "WAITING", !.active = @ \ gone, !.players = {},
        !.rules = NoHand, !.deckRoot = NoDeck, !.board = <<>>, !.betting = "NONE"]

LEMMA FinishSteps ==
  ASSUME NEW d \in Dealers, FinishHand(d)
  PROVE  /\ At(d, "finish") /\ Keep
         /\ \/ /\ table.version = dealer[d].view
               /\ \E gone \in SUBSET table.players : table' = Finished(gone)
               /\ scheduled' = scheduled \cup {d}
               /\ dealer' = [dealer EXCEPT ![d] = [pc |-> "release"]]
               /\ UNCHANGED <<transcript, redis>>
            \/ /\ table.version # dealer[d].view /\ table.dealtAt = dealer[d].view
               /\ dealer' = [dealer EXCEPT ![d] = [pc |-> "release"]]
               /\ UNCHANGED <<table, transcript, redis, scheduled>>
            \/ /\ table.version # dealer[d].view => table.dealtAt # dealer[d].view
               /\ Fail(d)
BY DEF FinishHand, TableCommand, Finished, Wake, Listens

LEMMA FinishedTyped ==
  ASSUME TypesInv, NEW gone
  PROVE  /\ Finished(gone) \in TableType /\ Finished(gone).dealtAt < Finished(gone).version
         /\ Finished(gone).version = table.version + 1 /\ Finished(gone).dealtAt = table.version
         /\ Finished(gone).status = "WAITING" /\ Finished(gone).handNumber = table.handNumber
         /\ Finished(gone).active = table.active \ gone /\ Finished(gone).betting = "NONE"
<1>1. table \in TableType /\ table.version \in Nat /\ table.active \subseteq Players
  BY TableFields
<1>2. table.active \ gone \in SUBSET Players /\ table.version + 1 \in Nat
      /\ table.version < table.version + 1 /\ <<>> \in Seq(Nat)
  BY <1>1
<1> QED
  BY <1>1, <1>2 DEF Finished, TableType

LEMMA FinishTypes ==
  ASSUME TypesInv, NEW d \in Dealers, FinishHand(d)
  PROVE  TypesInv'
<1>1. At(d, "finish") /\ UNCHANGED <<doubted, reseated, unannounced>> /\ Keep
  BY FinishSteps DEF Keep, bounds
<1>2. CASE Fail(d)
  BY <1>1, <1>2, FailTypes
<1>3. CASE dealer' = [dealer EXCEPT ![d] = [pc |-> "release"]] /\ UNCHANGED <<table, transcript, redis, scheduled>>
  BY <1>1, <1>3, SimpleTypes DEF TypesInv, Simple
<1>4. CASE /\ \E gone \in SUBSET table.players : table' = Finished(gone)
           /\ scheduled' = scheduled \cup {d}
           /\ dealer' = [dealer EXCEPT ![d] = [pc |-> "release"]]
           /\ UNCHANGED <<transcript, redis>>
  <2>1. table' \in TableType /\ table'.dealtAt < table'.version
    BY <1>4, FinishedTyped
  <2>2. scheduled' \subseteq Dealers
    BY <1>4 DEF TypesInv
  <2> QED
    BY <1>1, <1>4, <2>1, <2>2, SimpleTypes DEF TypesInv, Simple
<1> QED
  BY <1>2, <1>3, <1>4, FinishSteps

LEMMA TypesInit == ASSUME Init PROVE TypesInv
<1>1. Players # {} /\ Players \subseteq Nat
  <2>1. Cardinality(Players) >= 1
    <3>1. Cardinality(Players) \in 0..9
      BY CountPlayers
    <3> QED
      BY <3>1, PlayersAssumption
  <2> QED
    BY <2>1, CountPlayers, PlayersAreNumbers
<1>2. Min(Players) \in Players
  BY <1>1, MinOfNaturals
<1>3. table \in TableType /\ table.dealtAt < table.version
  BY <1>2, BoundsAssumption DEF Init, TableType
<1>4. /\ transcript = [h \in Hands |-> <<>>] /\ preparation = [h \in Hands |-> NoPreparation]
      /\ committed = [h \in Hands |-> NoDeck] /\ dealer = [d \in Dealers |-> [pc |-> "idle"]]
      /\ scheduled = {} /\ doubted = FALSE /\ reseated = FALSE /\ unannounced = {}
  BY DEF Init, Hands, Idle
<1>5. \A d \in Dealers : RunOK(d)
  BY <1>4 DEF RunOK, Preparing, Logging, Viewing
<1>6. ASSUME NEW h \in Hands PROVE LogOK(h)
  <2>1. transcript[h] = <<>> /\ committed[h] = NoDeck /\ \A type : ~Has(<<>>, type)
    BY <1>4 DEF Has
  <2>2. \A i \in 1..Len(transcript[h]) : FALSE
    BY <2>1
  <2> QED
    BY <2>1, <2>2 DEF LogOK
<1>7. <<>> \in Seq(Event)
  OBVIOUS
<1> QED
  BY <1>3, <1>4, <1>5, <1>6, <1>7 DEF TypesInv

LEMMA TypesNext ==
  ASSUME TypesInv, AnnouncedTypes, PlayInv, Next
  PROVE  TypesInv'
<1>1. CASE \E p \in Players : Return(p) \/ Go(p) \/ \E d \in Dealers : Seat(p, d)
  BY <1>1, SeatTypes
<1>2. CASE Expire
  BY <1>2, ExpireTypes
<1>3. ASSUME NEW d \in Dealers, Act(d) \/ RunStep(d) \/ Crash(d) \/ Fault(d) PROVE TypesInv'
  <2>1. CASE Act(d) \/ Crash(d) \/ Fault(d)
    BY <2>1, ActTypes, LockTypes, FaultTypes
  <2>2. CASE Acquire(d) \/ ReadTable(d) \/ Release(d) \/ GetPreparation(d) \/ PutPreparation(d)
    BY <2>2, LockTypes, ReadTableTypes, PreparationTypes
  <2>3. CASE OpenHand(d) \/ SubmitPlayerCommitment(d) \/ ReserveBeacon(d)
    BY <2>3, RecordTypes
  <2>4. CASE StoreDeck(d) \/ FindDeck(d) \/ AppendDeck(d) \/ UndoDeck(d)
    BY <2>4, StoreTypes, FindTypes, AppendDeckTypes, UndoTypes
  <2>5. CASE ReadForStart(d) \/ StartHand(d) \/ Advance(d) \/ RevealPublicCard(d)
    BY <2>5, ReadForStartTypes, StartTypes, AdvanceTypes, RevealTypes
  <2>6. CASE DealBoard(d) \/ CompleteHand(d) \/ FinishHand(d)
    BY <2>6, DealTypes, CompleteTypes, FinishTypes
  <2> QED
    BY <1>3, <2>1, <2>2, <2>3, <2>4, <2>5, <2>6 DEF RunStep
<1>4. CASE \E a \in announcing : Announce(a)
  BY <1>4, AnnounceTypes
<1> QED
  BY <1>1, <1>2, <1>3, <1>4 DEF Next

----------------------------------------------------------------------------
(* What the steps of a preparation do to a run and to the transcript *)

\* An event of a preparation.
Opens(d, e) ==
    /\ Allowed(Id(d), e) /\ e.type \notin {"PUBLIC_CARD_REVEALED", "HAND_COMPLETED"}
    /\ e.type = "HAND_OPENED" => e.rules = dealer[d].setup.rules
                                 /\ e.players = dealer[d].setup.players

Prepares(d) ==
    \/ GetPreparation(d) \/ PutPreparation(d)
    \/ OpenHand(d) \/ SubmitPlayerCommitment(d) \/ ReserveBeacon(d)
    \/ StoreDeck(d) \/ FindDeck(d) \/ AppendDeck(d) \/ UndoDeck(d)

\* Where a run is after a step of a preparation.
Prepared(d) ==
    \/ dealer'[d].pc = "failed"
    \/ /\ dealer'[d].pc \in Preparing \ {"start"}
       /\ dealer'[d].setup = dealer[d].setup

LEMMA LookPrepared ==
  ASSUME TypesInv, NEW d \in Dealers, NEW log, Look(d, "hand", log)
  PROVE  /\ dealer'[d] = [pc |-> "hand", setup |-> dealer[d].setup, seen |-> Len(log)]
         /\ dealer'[d].pc = "hand" /\ Prepared(d)
         /\ \A e \in Dealers : e # d => dealer'[e] = dealer[e]
<1> DEFINE call == [pc |-> "hand", setup |-> dealer[d].setup, seen |-> Len(log)]
<1>1. dealer' = [dealer EXCEPT ![d] = call]
  BY DEF Look
<1>2. dealer'[d] = call /\ \A e \in Dealers : e # d => dealer'[e] = dealer[e]
  <2> HIDE DEF call
  <2> QED
    BY <1>1, RunTo
<1> QED
  BY <1>2 DEF Prepared, Preparing

LEMMA GotoPrepared ==
  ASSUME TypesInv, NEW d \in Dealers, NEW pc, Goto(d, pc),
         \/ pc = "failed"
         \/ pc = "put" /\ At(d, "prepare")
         \/ pc \in {"append", "undo"} /\ dealer[d].pc \in {"find", "append"}
  PROVE  /\ Prepared(d) /\ dealer'[d].pc = pc
         /\ pc \in {"append", "undo"} => /\ dealer'[d].setup = dealer[d].setup
                                         /\ dealer'[d].inserted = dealer[d].inserted
         /\ \A e \in Dealers : e # d => dealer'[e] = dealer[e]
<1>1. /\ dealer' = [dealer EXCEPT ![d] = [dealer[d] EXCEPT !.pc = pc]] /\ dealer'[d].pc = pc
      /\ \A e \in Dealers : e # d => dealer'[e] = dealer[e]
  BY GotoIs
<1>2. dealer'[d] = [dealer[d] EXCEPT !.pc = pc]
  BY <1>1, RunTo
<1>3. CASE pc = "failed"
  BY <1>1, <1>3 DEF Prepared
<1>4. CASE pc = "put" /\ At(d, "prepare")
  <2>1. dealer[d] = [pc |-> dealer[d].pc, setup |-> dealer[d].setup]
    BY <1>4 DEF TypesInv, RunOK, At
  <2>2. dealer'[d].setup = dealer[d].setup
    BY <1>2, <2>1
  <2> QED
    BY <1>1, <1>4, <2>2 DEF Prepared, Preparing
<1>5. CASE pc \in {"append", "undo"} /\ dealer[d].pc \in {"find", "append"}
  <2>1. dealer[d] = [pc |-> dealer[d].pc, setup |-> dealer[d].setup, seen |-> dealer[d].seen,
                     inserted |-> dealer[d].inserted]
    BY <1>5 DEF TypesInv, RunOK
  <2>2. dealer'[d].setup = dealer[d].setup /\ dealer'[d].inserted = dealer[d].inserted
    BY <1>2, <2>1
  <2> QED
    BY <1>1, <1>5, <2>2 DEF Prepared, Preparing
<1> QED
  BY <1>3, <1>4, <1>5

\* What StoreDeck does when it stores the secret.
LEMMA StoreSteps ==
  ASSUME TypesInv, NEW d \in Dealers, StoreDeck(d)
  PROVE  /\ At(d, "hand") /\ Keep /\ UNCHANGED <<table, transcript, preparation, scheduled>>
         /\ \/ Look(d, "hand", transcript[Id(d)]) /\ UNCHANGED committed
            \/ Goto(d, "failed") /\ UNCHANGED committed
            \/ /\ committed' = [committed EXCEPT ![Id(d)] = Deck(d)] /\ Deck(d) \in Decks
               /\ dealer'[d] = [pc |-> "find", setup |-> dealer[d].setup, seen |-> dealer[d].seen,
                                inserted |-> committed[Id(d)] = NoDeck]
               /\ \A e \in Dealers : e # d => dealer'[e] = dealer[e]
<1>1. At(d, "hand") /\ dealer[d].pc \in Logging /\ Seen(d).status = "BEACON_RESERVED" /\ Keep
  BY DEF StoreDeck, At, Logging
<1>2. Read(d) \in Seq(Event) /\ Seen(d) = ReduceHand(Read(d))
  BY <1>1, SeenPart
<1>3. Has(Read(d), "BEACON_RESERVED")
  BY <1>1, <1>2, Status
<1>4. Deck(d) \in Decks
  BY <1>1, <1>3, DeckSeen
<1> DEFINE call == [pc |-> "find", setup |-> dealer[d].setup, seen |-> dealer[d].seen,
                    inserted |-> committed[Id(d)] = NoDeck]
<1>5. dealer' = [dealer EXCEPT ![d] = call] =>
         dealer'[d] = call /\ \A e \in Dealers : e # d => dealer'[e] = dealer[e]
  <2> HIDE DEF call
  <2> QED
    BY RunTo
<1> QED
  BY <1>1, <1>4, <1>5 DEF StoreDeck, PutSecret, Fail, redis

LEMMA PrepareSteps ==
  ASSUME TypesInv, NEW d \in Dealers, Prepares(d)
  PROVE  /\ dealer[d].pc \in Preparing \ {"start"} /\ Id(d) \in Hands /\ Prepared(d)
         /\ \A e \in Dealers : e # d => dealer'[e] = dealer[e]
         /\ UNCHANGED <<table, scheduled, lock, moves, reseated, announcing, unannounced>>
         /\ \/ UNCHANGED <<transcript, preparation>>
            \/ UNCHANGED redis /\ \E e : Opens(d, e) /\ Append1(Id(d), e)
            \/ /\ UNCHANGED transcript
               /\ preparation[Id(d)] = NoPreparation
               /\ preparation' = [preparation EXCEPT ![Id(d)] = dealer[d].setup.players]
<1>1. dealer[d].pc \in Preparing \ {"start"} => Id(d) \in Hands
  BY DEF TypesInv, RunOK
<1>2. CASE GetPreparation(d)
  <2>1. At(d, "prepare") /\ UNCHANGED <<table, transcript, redis, scheduled>> /\ Keep
    BY <1>2 DEF GetPreparation
  <2>2. Goto(d, "put") \/ Look(d, "hand", transcript[Id(d)])
    BY <1>2 DEF GetPreparation
  <2> QED
    BY <1>1, <2>1, <2>2, LookPrepared, GotoPrepared DEF At, Preparing, Keep, bounds, redis
<1>3. CASE PutPreparation(d)
  <2>1. At(d, "put") /\ Keep /\ UNCHANGED <<table, transcript, scheduled>>
    BY <1>3 DEF PutPreparation, Fail
  <2>2. \/ /\ preparation[Id(d)] = NoPreparation
           /\ preparation' = [preparation EXCEPT ![Id(d)] = dealer[d].setup.players]
           /\ Look(d, "hand", transcript[Id(d)])
        \/ UNCHANGED preparation /\ Goto(d, "failed")
    BY <1>3 DEF PutPreparation, Fail, redis
  <2> QED
    BY <1>1, <2>1, <2>2, LookPrepared, GotoPrepared DEF At, Preparing, Keep, bounds
<1>4. CASE OpenHand(d) \/ SubmitPlayerCommitment(d) \/ ReserveBeacon(d)
  <2>1. At(d, "hand") /\ Keep
    BY <1>4, RecordSteps
  <2>2. CASE Look(d, "hand", transcript[Id(d)]) /\ UNCHANGED <<table, transcript, redis, scheduled>>
    BY <1>1, <2>1, <2>2, LookPrepared DEF At, Preparing, Keep, bounds, redis
  <2>3. CASE Fail(d)
    BY <1>1, <2>1, <2>3, GotoPrepared DEF At, Preparing, Keep, bounds, redis, Fail
  <2>4. CASE /\ Look(d, "hand", transcript'[Id(d)]) /\ UNCHANGED <<table, redis, scheduled>>
             /\ \E e : /\ Allowed(Id(d), e) /\ Append1(Id(d), e)
                       /\ e.type \in {"HAND_OPENED", "PLAYER_COMMITTED", "BEACON_RESERVED"}
                       /\ e.type = "HAND_OPENED" => e.rules = dealer[d].setup.rules
                                                    /\ e.players = dealer[d].setup.players
    <3>1. \E e : Opens(d, e) /\ Append1(Id(d), e)
      BY <2>4 DEF Opens
    <3> QED
      BY <1>1, <2>1, <2>4, <3>1, LookPrepared DEF At, Preparing, Keep, bounds
  <2> QED
    BY <1>4, <2>2, <2>3, <2>4, RecordSteps
<1>5. CASE StoreDeck(d)
  <2>1. At(d, "hand") /\ Keep /\ UNCHANGED <<table, transcript, preparation, scheduled>>
    BY <1>5, StoreSteps
  <2>2. Prepared(d) /\ \A e \in Dealers : e # d => dealer'[e] = dealer[e]
    <3>1. CASE Look(d, "hand", transcript[Id(d)]) \/ Goto(d, "failed")
      BY <3>1, LookPrepared, GotoPrepared
    <3>2. CASE /\ dealer'[d] = [pc |-> "find", setup |-> dealer[d].setup, seen |-> dealer[d].seen,
                                inserted |-> committed[Id(d)] = NoDeck]
               /\ \A e \in Dealers : e # d => dealer'[e] = dealer[e]
      BY <3>2 DEF Prepared, Preparing
    <3> QED
      BY <1>5, <3>1, <3>2, StoreSteps
  <2> QED
    BY <1>1, <2>1, <2>2 DEF At, Preparing, Keep, bounds
<1>6. CASE FindDeck(d)
  <2>1. At(d, "find") /\ UNCHANGED <<table, transcript, redis, scheduled>> /\ Keep
    BY <1>6 DEF FindDeck
  <2>2. Look(d, "hand", transcript[Id(d)]) \/ Goto(d, "append")
    BY <1>6 DEF FindDeck
  <2> QED
    BY <1>1, <2>1, <2>2, LookPrepared, GotoPrepared DEF At, Preparing, Keep, bounds, redis
<1>7. CASE AppendDeck(d)
  <2>1. At(d, "append") /\ UNCHANGED <<table, redis, scheduled, lock, moves, reseated, announcing, unannounced>>
    BY <1>7 DEF AppendDeck
  <2>2. Look(d, "hand", transcript'[Id(d)]) \/ Goto(d, "undo")
    BY <1>7 DEF AppendDeck
  <2>3. UNCHANGED transcript \/ Append1(Id(d), DeckEvent(d))
    BY <1>7 DEF AppendDeck
  <2>4. Opens(d, DeckEvent(d))
    <3>1. Allowed(Id(d), DeckEvent(d)) /\ DeckEvent(d).type = "DECK_COMMITTED"
      BY <2>1, DeckAllowed DEF DeckEvent
    <3> QED
      BY <3>1 DEF Opens
  <2> QED
    BY <1>1, <2>1, <2>2, <2>3, <2>4, LookPrepared, GotoPrepared DEF At, Preparing, redis
<1>8. CASE UndoDeck(d)
  <2>1. At(d, "undo") /\ UNCHANGED <<table, transcript, preparation, scheduled>> /\ Keep /\ Goto(d, "failed")
    BY <1>8 DEF UndoDeck
  <2> QED
    BY <1>1, <2>1, GotoPrepared DEF At, Preparing, Keep, bounds
<1> QED
  BY <1>2, <1>3, <1>4, <1>5, <1>6, <1>7, <1>8 DEF Prepares

----------------------------------------------------------------------------
(* Boards and prefixes *)

LEMMA PrefixIs ==
  ASSUME NEW s \in Seq(Nat), NEW t \in Seq(Nat)
  PROVE  IsPrefix(s, t) <=> Begins(s, t)
<1>1. Len(s) \in Nat /\ Len(t) \in Nat
  OBVIOUS
<1>2. CASE Len(s) <= Len(t)
  <2>1. SubSeq(t, 1, Len(s)) \in Seq(Nat) /\ Len(SubSeq(t, 1, Len(s))) = Len(s)
        /\ Begins(SubSeq(t, 1, Len(s)), t)
    BY <1>1, <1>2, PartBegins
  <2>2. SubSeq(s, 1, Len(s)) = s
    BY SubSeqFull
  <2> DEFINE u == SubSeq(t, 1, Len(s))
  <2>3. u \in Seq(Nat) /\ Len(u) = Len(s) /\ \A i \in 1..Len(s) : u[i] = t[i]
    BY <2>1 DEF Begins
  <2> HIDE DEF u
  <2>4. s = u <=> \A i \in 1..Len(s) : t[i] = s[i]
    <3>1. (\A i \in 1..Len(s) : u[i] = s[i]) => s = u
      BY <2>3, SeqEqual
    <3> QED
      BY <2>3, <3>1
  <2> QED
    BY <1>2, <2>2, <2>4 DEF IsPrefix, Begins, u
<1>3. CASE ~(Len(s) <= Len(t))
  BY <1>3 DEF IsPrefix, Begins
<1> QED
  BY <1>2, <1>3

LEMMA BoardDiffers ==
  ASSUME NEW rules \in Rules
  PROVE  LET cards == BoardPositions(rules)
         IN  /\ cards \in Seq(Nat) /\ Len(cards) = 5
             /\ \A i, j \in 1..5 : cards[i] = cards[j] => i = j
             /\ \A other \in Rules : BoardPositions(other)[1] = cards[1] => BoardPositions(other) = cards
<1> DEFINE n == 2 * rules.seats
           cards == BoardPositions(rules)
<1>1. n \in Nat /\ cards = <<n + 1, n + 2, n + 3, n + 5, n + 7>> /\ cards \in Seq(Nat) /\ Len(cards) = 5
  BY BoardIs
<1> HIDE DEF n
<1>2. cards[1] = n + 1 /\ cards[2] = n + 2 /\ cards[3] = n + 3 /\ cards[4] = n + 5 /\ cards[5] = n + 7
  <2> HIDE DEF cards
  <2> QED
    BY <1>1
<1>3. \A i, j \in 1..5 : cards[i] = cards[j] => i = j
  <2> HIDE DEF cards
  <2> QED
    BY <1>1, <1>2
<1>4. ASSUME NEW other \in Rules, BoardPositions(other)[1] = cards[1] PROVE BoardPositions(other) = cards
  <2> DEFINE m == 2 * other.seats
             board == BoardPositions(other)
  <2>1. m \in Nat /\ board = <<m + 1, m + 2, m + 3, m + 5, m + 7>>
    BY BoardIs
  <2> HIDE DEF m
  <2>2. board[1] = m + 1
    BY <2>1
  <2>3. m = n
    BY <1>1, <1>2, <1>4, <2>1, <2>2
  <2> QED
    BY <1>1, <2>1, <2>3
<1> QED
  BY <1>1, <1>3, <1>4

LEMMA ShownTyped ==
  ASSUME TypesInv, NEW h \in Hands
  PROVE  Hand(h).publicPositions \in Seq(Nat) /\ Len(Hand(h).publicPositions) \in Nat
BY HandTypes DEF TypesInv, Hand

\* A card that was revealed is among those shown.
LEMMA RevealedHas ==
  ASSUME NEW s \in Seq(Event), NEW i \in 1..Len(s), s[i].type = "PUBLIC_CARD_REVEALED"
  PROVE  \E j \in 1..Len(Revealed(s)) : Revealed(s)[j] = s[i].position
<1>1. PICK f : IsReveals(s, Len(s), f) /\ Revealed(s) = f[Len(s)]
  BY RevealedIs
<1> DEFINE Shows(m) == f[m] \in Seq(Nat) /\ \E j \in 1..Len(f[m]) : f[m][j] = s[i].position
           Short == {m \in 0..Len(s) : f[m] \notin Seq(Nat)}
           Bad == {m \in i..Len(s) : ~Shows(m)}
<1>2. Len(s) \in Nat /\ i \in Nat /\ i >= 1
  OBVIOUS
<1>3. \A m \in 1..Len(s) : s[m] \in Event
  OBVIOUS
<1>4. \A m \in 1..Len(s) : s[m].type = "PUBLIC_CARD_REVEALED" => s[m].position \in Nat
  BY <1>3 DEF Event
<1>5. \A m \in 0..Len(s) : f[m] = ShownBy(s, f, m)
  BY <1>1, <1>2, RevealsAt
<1>6. \A m \in 0..Len(s) : f[m] \in Seq(Nat)
  <2> SUFFICES ASSUME Short # {} PROVE FALSE
    OBVIOUS
  <2>1. PICK m \in Short : \A k \in Short : m <= k
    <3>1. Short \subseteq Nat
      OBVIOUS
    <3> HIDE DEF Short
    <3> QED
      BY <3>1, MinOfNaturals
  <2>2. m = 0 \/ (m - 1 \in 0..Len(s) /\ f[m - 1] \in Seq(Nat))
    <3>1. m # 0 => m - 1 \in 0..Len(s) /\ ~(m <= m - 1)
      BY <1>2
    <3> QED
      BY <2>1, <3>1
  <2>3. f[m] = ShownBy(s, f, m) /\ (m # 0 => m \in 1..Len(s))
    BY <1>2, <1>5
  <2>4. ShownBy(s, f, m) \in Seq(Nat)
    BY <1>4, <2>2, <2>3 DEF ShownBy
  <2> QED
    BY <2>1, <2>3, <2>4
<1>7. Shows(i)
  <2>1. i - 1 \in 0..Len(s) /\ i \in 0..Len(s) /\ i # 0
    BY <1>2
  <2> DEFINE g == f[i - 1]
             x == s[i].position
  <2>2. g \in Seq(Nat) /\ x \in Nat
    BY <1>4, <1>6, <2>1
  <2>3. f[i] = Append(g, x)
    BY <1>5, <2>1 DEF ShownBy
  <2> HIDE DEF g, x
  <2>4. f[i] \in Seq(Nat) /\ Len(f[i]) = Len(g) + 1 /\ f[i][Len(g) + 1] = x
    BY <2>2, <2>3, AppendBegins
  <2>5. Len(g) + 1 \in 1..Len(f[i])
    BY <2>2, <2>4
  <2> QED
    BY <2>4, <2>5 DEF x
<1>8. ASSUME NEW m \in i..Len(s), m # i, Shows(m - 1) PROVE Shows(m)
  <2>1. m - 1 \in 0..Len(s) /\ m \in 0..Len(s) /\ m # 0 /\ m \in 1..Len(s)
    BY <1>2, <1>8
  <2> DEFINE g == f[m - 1]
  <2>2. PICK j \in 1..Len(g) : g[j] = s[i].position
    BY <1>8
  <2>3. g \in Seq(Nat)
    BY <1>8
  <2>4. f[m] = g \/ (s[m].position \in Nat /\ f[m] = Append(g, s[m].position))
    BY <1>4, <1>5, <2>1 DEF ShownBy
  <2> HIDE DEF g
  <2>5. CASE f[m] = g
    BY <2>2, <2>3, <2>5
  <2>6. CASE s[m].position \in Nat /\ f[m] = Append(g, s[m].position)
    <3>1. f[m] \in Seq(Nat) /\ Len(f[m]) = Len(g) + 1 /\ Begins(g, f[m])
      BY <2>3, <2>6, AppendBegins
    <3>2. j \in 1..Len(f[m]) /\ f[m][j] = g[j]
      BY <2>2, <2>3, <3>1 DEF Begins
    <3> QED
      BY <2>2, <3>1, <3>2
  <2> QED
    BY <2>4, <2>5, <2>6
<1>9. \A m \in i..Len(s) : Shows(m)
  <2> SUFFICES ASSUME Bad # {} PROVE FALSE
    OBVIOUS
  <2> HIDE DEF Shows
  <2>1. PICK m \in Bad : \A k \in Bad : m <= k
    <3>1. Bad \subseteq Nat
      BY <1>2
    <3> HIDE DEF Bad
    <3> QED
      BY <3>1, MinOfNaturals
  <2>2. m # i
    BY <1>7, <2>1
  <2>3. m - 1 \in i..Len(s) /\ ~(m <= m - 1)
    BY <1>2, <2>1, <2>2
  <2>4. Shows(m - 1)
    BY <2>1, <2>3
  <2> QED
    BY <1>8, <2>1, <2>2, <2>4
<1>10. Len(s) \in i..Len(s)
  BY <1>2
<1> QED
  BY <1>1, <1>9, <1>10

----------------------------------------------------------------------------
(* The table follows the transcript *)

LEMMA LogSteps ==
  ASSUME TypesInv, UNCHANGED redis, NEW h \in Hands, NEW e, Allowed(h, e), Append1(h, e)
  PROVE  /\ transcript' \in [Hands -> Seq(Event)]
         /\ \A k \in Hands :
               /\ Begins(transcript[k], transcript'[k])
               /\ \A type : Has(transcript'[k], type) <=> Has(transcript[k], type) \/ (k = h /\ e.type = type)
               /\ Has(transcript[k], "DECK_COMMITTED") => Hand(k)'.deckRoot = Hand(k).deckRoot
               /\ transcript[k] # <<>> => /\ transcript'[k] # <<>>
                                          /\ Hand(k)'.players = Hand(k).players
                                          /\ Hand(k)'.rules = Hand(k).rules
               /\ Hand(k)'.publicPositions =
                     IF k = h /\ e.type = "PUBLIC_CARD_REVEALED"
                     THEN Append(Hand(k).publicPositions, e.position) ELSE Hand(k).publicPositions
               /\ k # h => transcript'[k] = transcript[k] /\ Hand(k)' = Hand(k)
         /\ Recorded(h, e)'
         /\ transcript[h] = <<>> => Hand(h)'.players = e.players /\ Hand(h)'.rules = e.rules
<1> DEFINE s == transcript[h]
           t == Append(s, e)
<1>1. s \in Seq(Event) /\ e \in Event
  BY DEF TypesInv, Allowed
<1>2. /\ transcript' \in [Hands -> Seq(Event)] /\ transcript'[h] = t
      /\ \A k \in Hands : k # h => transcript'[k] = transcript[k]
  BY AppendSteps
<1>3. /\ t \in Seq(Event) /\ t # <<>> /\ Begins(s, t) /\ Len(t) = Len(s) + 1
      /\ \A type : Has(t, type) <=> Has(s, type) \/ e.type = type
      /\ s = <<>> => ReduceHand(t).rules = e.rules /\ ReduceHand(t).players = e.players
      /\ ReduceHand(t).publicPositions = IF e.type = "PUBLIC_CARD_REVEALED"
                                         THEN Append(ReduceHand(s).publicPositions, e.position)
                                         ELSE ReduceHand(s).publicPositions
  BY <1>1, HandGrows
<1>4. t[Len(s) + 1] = e
  BY <1>1, AppendBegins
<1> HIDE DEF t
<1>5. /\ Has(s, "DECK_COMMITTED") => ReduceHand(t).deckRoot = ReduceHand(s).deckRoot
      /\ s # <<>> => /\ ReduceHand(t).rules = ReduceHand(s).rules
                     /\ ReduceHand(t).players = ReduceHand(s).players
  BY <1>1, <1>3, HandStays
<1>6. Recorded(h, e)'
  <2>1. DOMAIN t = 1..Len(t) /\ Len(s) + 1 \in 1..Len(t)
    BY <1>1, <1>3
  <2> QED
    BY <1>2, <1>4, <2>1 DEF Recorded
<1>7. Hand(h) = ReduceHand(s) /\ Hand(h)' = ReduceHand(t)
  BY <1>2 DEF Hand
<1>8. ASSUME NEW k \in Hands, k # h
      PROVE  transcript'[k] = transcript[k] /\ Hand(k)' = Hand(k) /\ Begins(transcript[k], transcript'[k])
  <2>1. transcript'[k] = transcript[k] /\ transcript[k] \in Seq(Event)
    BY <1>2, <1>8 DEF TypesInv
  <2> QED
    BY <2>1 DEF Hand, Begins
<1> HIDE DEF s
<1>9. s = transcript[h]
  BY DEF s
<1>10. ASSUME NEW k \in Hands
       PROVE  /\ Begins(transcript[k], transcript'[k])
              /\ \A type : Has(transcript'[k], type) <=> Has(transcript[k], type) \/ (k = h /\ e.type = type)
              /\ Has(transcript[k], "DECK_COMMITTED") => Hand(k)'.deckRoot = Hand(k).deckRoot
              /\ transcript[k] # <<>> => /\ transcript'[k] # <<>>
                                         /\ Hand(k)'.players = Hand(k).players
                                         /\ Hand(k)'.rules = Hand(k).rules
              /\ Hand(k)'.publicPositions =
                    IF k = h /\ e.type = "PUBLIC_CARD_REVEALED"
                    THEN Append(Hand(k).publicPositions, e.position) ELSE Hand(k).publicPositions
              /\ k # h => transcript'[k] = transcript[k] /\ Hand(k)' = Hand(k)
  <2>1. CASE k = h
    BY <1>2, <1>3, <1>5, <1>7, <1>9, <2>1
  <2>2. CASE k # h
    BY <1>8, <2>2
  <2> QED
    BY <2>1, <2>2
<1>11. transcript[h] = <<>> => Hand(h)'.players = e.players /\ Hand(h)'.rules = e.rules
  BY <1>3, <1>7, <1>9
<1> QED
  BY <1>2, <1>6, <1>10, <1>11

LEMMA NotViewing ==
  ASSUME NEW d \in Dealers, dealer'[d].pc \notin Viewing
  PROVE  RunPlays(d)'
BY DEF RunPlays, Viewing

\* A step that leaves the table and the transcript alone.
LEMMA QuietPlay ==
  ASSUME PlayInv, UNCHANGED <<table, transcript>>,
         NEW d \in Dealers, \A e \in Dealers : e # d => dealer'[e] = dealer[e], RunPlays(d)'
  PROVE  PlayInv'
<1>1. ASSUME NEW e \in Dealers, e # d PROVE RunPlays(e)'
  <2>1. RunPlays(e) /\ dealer'[e] = dealer[e]
    BY <1>1 DEF PlayInv
  <2> QED
    BY <2>1 DEF RunPlays, WantsOK, Id, Read, Log, Hand, DueCards, Active
<1>2. TablePlays'
  BY DEF PlayInv, TablePlays, BoardOK, Active, DueCards, Hand
<1>3. HandsPlayed'
  BY DEF PlayInv, HandsPlayed, Active, Hand
<1> QED
  BY SMTT(60), <1>1, <1>2, <1>3 DEF PlayInv

\* What a run that does not move may count on while a transcript grows.
LEMMA RunWaits ==
  ASSUME TypesInv, PlayInv, UNCHANGED <<table, redis>>,
         NEW h \in Hands, NEW v, Allowed(h, v), Append1(h, v),
         NEW e \in Dealers, dealer'[e] = dealer[e]
  PROVE  RunPlays(e)'
<1>1. RunPlays(e) /\ UNCHANGED <<table>> /\ Id(e)' = Id(e)
  BY DEF PlayInv, Id
<1>2. /\ transcript' \in [Hands -> Seq(Event)]
      /\ \A k \in Hands : Grows(k)
  BY AppendSteps
<1>3. dealer[e].pc \in Logging => Read(e)' = Read(e)
  BY <1>2, OtherRun
<1>4. table.handNumber \in Hands =>
        (Has(transcript[table.handNumber], "HAND_COMPLETED")
           => Has(transcript'[table.handNumber], "HAND_COMPLETED"))
  BY LogSteps
<1>5. table.handNumber \in Hands => Len(Hand(table.handNumber).publicPositions)
                                       <= Len(Hand(table.handNumber)'.publicPositions)
  <2> DEFINE s == Hand(table.handNumber).publicPositions
             t == Hand(table.handNumber)'.publicPositions
  <2> HAVE table.handNumber \in Hands
  <2>1. s \in Seq(Nat) /\ (v.type = "PUBLIC_CARD_REVEALED" => v.position \in Nat)
    <3>1. v \in Event
      BY DEF Allowed
    <3> QED
      BY <3>1, ShownTyped DEF Event
  <2>2. t = s \/ (v.type = "PUBLIC_CARD_REVEALED" /\ t = Append(s, v.position))
    <3>1. \A k \in Hands : Hand(k)'.publicPositions =
             IF k = h /\ v.type = "PUBLIC_CARD_REVEALED"
             THEN Append(Hand(k).publicPositions, v.position) ELSE Hand(k).publicPositions
      BY LogSteps
    <3> QED
      BY <3>1
  <2> HIDE DEF s, t
  <2>3. v.type = "PUBLIC_CARD_REVEALED" => Len(Append(s, v.position)) = Len(s) + 1
    BY <2>1, AppendBegins
  <2>4. Len(s) <= Len(t)
    BY <2>1, <2>2, <2>3
  <2> QED
    BY <2>4 DEF s, t
<1>6. Active => table.handNumber \in Hands
  BY TableFields, BoundsAssumption DEF PlayInv, TablePlays, Hands
<1>7. Active' = Active /\ DueCards' = DueCards
  BY DEF Active, DueCards
<1>8. dealer[e].pc = "reveal" => (Active /\ Id(e) = table.handNumber => WantsOK(e)')
  <2> HAVE dealer[e].pc = "reveal"
  <2> HAVE Active /\ Id(e) = table.handNumber
  <2>1. WantsOK(e)
    BY <1>1 DEF RunPlays
  <2>2. PICK k, n \in 0..5 :
           /\ k <= n /\ k <= Len(Hand(table.handNumber).publicPositions) /\ n <= DueCards
           /\ dealer[e].wanted = SubSeq(BoardPositions(table.rules), k + 1, n)
           /\ dealer[e].view = table.version => n = DueCards
    BY <2>1 DEF WantsOK
  <2>3. Len(Hand(table.handNumber).publicPositions) \in Nat /\ Len(Hand(table.handNumber)'.publicPositions) \in Nat
        /\ Len(Hand(table.handNumber).publicPositions) <= Len(Hand(table.handNumber)'.publicPositions)
    <3>1. table.handNumber \in Hands
      BY <1>6
    <3>2. transcript'[table.handNumber] \in Seq(Event)
      BY <1>2, <3>1
    <3>3. Hand(table.handNumber)'.publicPositions \in Seq(Nat)
      BY <3>2, HandTypes DEF Hand
    <3> QED
      BY <1>5, <3>1, <3>3, ShownTyped
  <2>4. k <= Len(Hand(table.handNumber)'.publicPositions)
    BY <2>2, <2>3
  <2> QED
    BY <1>7, <2>2, <2>4 DEF WantsOK, Hand
<1> QED
  <2>1. dealer[e].pc = "start" => Has(Read(e), "DECK_COMMITTED")'
    BY <1>1, <1>3 DEF RunPlays, Logging
  <2>2. dealer[e].pc = "finish" /\ dealer[e].view = table.version => Has(transcript'[table.handNumber], "HAND_COMPLETED")
    BY <1>1, <1>4, <1>6 DEF RunPlays
  <2> QED
    BY <1>1, <1>7, <1>8, <2>1, <2>2 DEF RunPlays

\* An event of a preparation.
LEMMA OpensPlay ==
  ASSUME TypesInv, PlayInv, UNCHANGED <<table, redis>>, NEW d \in Dealers,
         NEW v, Id(d) \in Hands, Opens(d, v), Append1(Id(d), v),
         \A e \in Dealers : e # d => dealer'[e] = dealer[e], dealer'[d].pc \notin Viewing
  PROVE  PlayInv'
<1> DEFINE h == Id(d)
<1>1. h \in Hands /\ Allowed(h, v) /\ Append1(h, v)
      /\ v.type # "PUBLIC_CARD_REVEALED" /\ v.type # "HAND_COMPLETED"
  BY DEF Opens
<1> HIDE DEF h
<1>2. \A e \in Dealers : RunPlays(e)'
  <2> TAKE e \in Dealers
  <2>1. CASE e = d
    BY <2>1, NotViewing
  <2>2. CASE e # d
    BY <1>1, <2>2, RunWaits
  <2> QED
    BY <2>1, <2>2
<1>3. \A k \in Hands :
         /\ Hand(k)'.publicPositions = Hand(k).publicPositions
         /\ Has(transcript'[k], "HAND_COMPLETED") <=> Has(transcript[k], "HAND_COMPLETED")
         /\ Has(transcript[k], "DECK_COMMITTED") =>
               Has(transcript'[k], "DECK_COMMITTED") /\ Hand(k)'.deckRoot = Hand(k).deckRoot
  <2> TAKE k \in Hands
  <2>1. v.type # "HAND_COMPLETED" =>
           (Has(transcript'[k], "HAND_COMPLETED") <=> Has(transcript[k], "HAND_COMPLETED"))
    BY SMTT(60), <1>1, LogSteps
  <2>2. Has(transcript[k], "DECK_COMMITTED") => Has(transcript'[k], "DECK_COMMITTED")
    BY <1>1, LogSteps
  <2>3. Has(transcript[k], "DECK_COMMITTED") => Hand(k)'.deckRoot = Hand(k).deckRoot
    BY <1>1, LogSteps
  <2>4. Hand(k)'.publicPositions = IF k = h /\ v.type = "PUBLIC_CARD_REVEALED"
                                  THEN Append(Hand(k).publicPositions, v.position)
                                  ELSE Hand(k).publicPositions
    BY <1>1, LogSteps
  <2> QED
    BY <1>1, <2>1, <2>2, <2>3, <2>4
<1>4. Active => table.handNumber \in Hands
  BY TableFields, BoundsAssumption DEF PlayInv, TablePlays, Hands
<1>5. TablePlays'
  <2> SUFFICES ASSUME Active PROVE TablePlays'
    BY DEF TablePlays, Active
  <2>1. TablePlays /\ table.handNumber \in Hands
    BY <1>4 DEF PlayInv
  <2>2. Hand(table.handNumber)'.publicPositions = Hand(table.handNumber).publicPositions
    BY <1>3, <2>1
  <2>3. BoardOK'
    BY <2>1, <2>2 DEF TablePlays, BoardOK, DueCards, Hand
  <2> QED
    BY <1>3, <2>1, <2>3 DEF TablePlays, Hand, Active
<1>6. HandsPlayed'
  <2>1. \A k \in 1..table.handNumber : k \in Hands
    BY TableFields, BoundsAssumption DEF Hands
  <2>2. HandsPlayed /\ table' = table
    BY DEF PlayInv
  <2> QED
    BY <1>3, <2>1, <2>2 DEF HandsPlayed, Active, Hand
<1> QED
  BY <1>2, <1>5, <1>6 DEF PlayInv

LEMMA PreparePlay ==
  ASSUME TypesInv, PlayInv, NEW d \in Dealers, Prepares(d)
  PROVE  PlayInv'
<1>1. dealer'[d].pc \notin Viewing /\ (\A e \in Dealers : e # d => dealer'[e] = dealer[e])
      /\ UNCHANGED table /\ Id(d) \in Hands
  BY PrepareSteps DEF Prepared, Preparing, Viewing
<1>2. CASE UNCHANGED transcript
  BY <1>1, <1>2, QuietPlay, NotViewing
<1>3. CASE UNCHANGED redis /\ \E v : Opens(d, v) /\ Append1(Id(d), v)
  BY <1>1, <1>3, OpensPlay
<1> QED
  BY <1>2, <1>3, PrepareSteps

LEMMA PartOfBoard ==
  ASSUME NEW c \in Seq(Nat), Len(c) = 5, NEW k \in 0..5, NEW n \in 0..5, k <= n
  PROVE  LET s == SubSeq(c, k + 1, n)
         IN  /\ s \in Seq(Nat) /\ Len(s) = n - k
             /\ \A i \in 1..(n - k) : s[i] = c[k + i]
             /\ s = <<>> <=> k = n
             /\ k < n => Head(s) = c[k + 1] /\ Tail(s) = SubSeq(c, (k + 1) + 1, n)
<1> DEFINE s == SubSeq(c, k + 1, n)
<1>1. ASSUME NEW a \in 1..6, a <= n + 1
      PROVE  /\ SubSeq(c, a, n) \in Seq(Nat) /\ Len(SubSeq(c, a, n)) = n - a + 1
             /\ \A i \in 1..(n - a + 1) : SubSeq(c, a, n)[i] = c[a + i - 1]
  <2>1. \A i \in a..n : c[i] \in Nat
    <3> TAKE i \in a..n
    <3>1. i \in 1..Len(c)
      OBVIOUS
    <3> QED
      BY <3>1, ElementOfSeq, Zenon
  <2>2. /\ SubSeq(c, a, n) \in Seq(Nat)
        /\ Len(SubSeq(c, a, n)) = IF a <= n THEN n - a + 1 ELSE 0
        /\ \A i \in 1..(n - a + 1) : SubSeq(c, a, n)[i] = c[a + i - 1]
    <3>1. a \in Int /\ n \in Int
      OBVIOUS
    <3> QED
      BY <2>1, <3>1, SubSeqProperties
  <2> QED
    BY <1>1, <2>2
<1>2. s \in Seq(Nat) /\ Len(s) = n - k /\ \A i \in 1..(n - k) : s[i] = c[k + i]
  <2>1. k + 1 \in 1..6 /\ k + 1 <= n + 1
    OBVIOUS
  <2>2. s \in Seq(Nat) /\ Len(s) = n - (k + 1) + 1
        /\ \A i \in 1..(n - (k + 1) + 1) : s[i] = c[(k + 1) + i - 1]
    BY <1>1, <2>1
  <2> HIDE DEF s
  <2>3. n - (k + 1) + 1 = n - k /\ \A i \in 1..(n - k) : (k + 1) + i - 1 = k + i
    OBVIOUS
  <2> QED
    BY <2>2, <2>3
<1> DEFINE r == SubSeq(c, (k + 1) + 1, n)
<1>3. k < n => r \in Seq(Nat) /\ Len(r) = n - k - 1 /\ \A i \in 1..(n - k - 1) : r[i] = c[k + 1 + i]
  <2> HAVE k < n
  <2>1. (k + 1) + 1 \in 1..6 /\ (k + 1) + 1 <= n + 1
    OBVIOUS
  <2>2. r \in Seq(Nat) /\ Len(r) = n - ((k + 1) + 1) + 1
        /\ \A i \in 1..(n - ((k + 1) + 1) + 1) : r[i] = c[((k + 1) + 1) + i - 1]
    BY <1>1, <2>1
  <2> HIDE DEF r
  <2>3. n - ((k + 1) + 1) + 1 = n - k - 1 /\ \A i \in 1..(n - k - 1) : ((k + 1) + 1) + i - 1 = k + 1 + i
    OBVIOUS
  <2> QED
    BY <2>2, <2>3
<1>4. s = <<>> <=> k = n
  <2> HIDE DEF s
  <2>1. s = <<>> <=> Len(s) = 0
    BY <1>2, EmptySeq
  <2> QED
    BY <1>2, <2>1
<1>5. k < n => Head(s) = c[k + 1] /\ Tail(s) = r
  <2> HAVE k < n
  <2> HIDE DEF s, r
  <2>1. s # <<>> /\ 1 \in 1..(n - k)
    BY <1>4
  <2>2. Head(s) = s[1] /\ Tail(s) \in Seq(Nat) /\ Len(Tail(s)) = Len(s) - 1
        /\ \A i \in 1..Len(Tail(s)) : Tail(s)[i] = s[i + 1]
    BY <1>2, <2>1, HeadTailProperties
  <2>3. Len(Tail(s)) = n - k - 1 /\ \A i \in 1..(n - k - 1) : Tail(s)[i] = r[i]
    <3>1. Len(Tail(s)) = n - k - 1
      BY <1>2, <2>2
    <3>2. ASSUME NEW i \in 1..(n - k - 1) PROVE Tail(s)[i] = r[i]
      <4>1. i + 1 \in 1..(n - k) /\ k + (i + 1) = k + 1 + i
        OBVIOUS
      <4>2. Tail(s)[i] = s[i + 1] /\ s[i + 1] = c[k + (i + 1)] /\ r[i] = c[k + 1 + i]
        BY <1>2, <1>3, <2>2, <3>1, <4>1
      <4> QED
        BY <4>1, <4>2
    <3> QED
      BY <3>1, <3>2
  <2>4. Tail(s) = r
    BY <1>3, <2>2, <2>3, SeqEqual
  <2> QED
    BY <1>2, <2>1, <2>2, <2>4
<1> QED
  BY <1>2, <1>4, <1>5

\* The next card a run wants.
LEMMA WantsNext ==
  ASSUME TypesInv, PlayInv, NEW d \in Dealers, At(d, "reveal"), Active, Id(d) = table.handNumber,
         dealer[d].wanted # <<>>
  PROVE  \E k, n \in 0..5 :
            /\ k < n /\ k <= Len(Hand(table.handNumber).publicPositions) /\ n <= DueCards
            /\ Head(dealer[d].wanted) = BoardPositions(table.rules)[k + 1]
            /\ Tail(dealer[d].wanted) = SubSeq(BoardPositions(table.rules), (k + 1) + 1, n)
            /\ dealer[d].view = table.version => n = DueCards
<1>1. WantsOK(d) /\ table.rules \in Rules
  BY DEF PlayInv, RunPlays, At, TablePlays, BoardOK
<1>2. PICK k, n \in 0..5 :
         /\ k <= n /\ k <= Len(Hand(table.handNumber).publicPositions) /\ n <= DueCards
         /\ dealer[d].wanted = SubSeq(BoardPositions(table.rules), k + 1, n)
         /\ dealer[d].view = table.version => n = DueCards
  BY <1>1 DEF WantsOK
<1> DEFINE c == BoardPositions(table.rules)
<1>3. c \in Seq(Nat) /\ Len(c) = 5
  BY <1>1, BoardDiffers
<1> HIDE DEF c
<1>4. k < n /\ Head(SubSeq(c, k + 1, n)) = c[k + 1] /\ Tail(SubSeq(c, k + 1, n)) = SubSeq(c, (k + 1) + 1, n)
  <2>1. SubSeq(c, k + 1, n) # <<>>
    BY <1>2 DEF c
  <2>2. SubSeq(c, k + 1, n) = <<>> <=> k = n
    BY <1>2, <1>3, PartOfBoard
  <2>3. k < n
    BY <1>2, <2>1, <2>2
  <2>4. k < n => /\ Head(SubSeq(c, k + 1, n)) = c[k + 1]
                 /\ Tail(SubSeq(c, k + 1, n)) = SubSeq(c, (k + 1) + 1, n)
    BY <1>2, <1>3, PartOfBoard
  <2> QED
    BY <2>3, <2>4
<1> QED
  BY <1>2, <1>4 DEF c

LEMMA RunReveals ==
  ASSUME TypesInv, PlayInv, NEW d \in Dealers, At(d, "reveal"), dealer[d].wanted # <<>>,
         UNCHANGED table, NEW n,
         dealer'[d] = [pc |-> "reveal", setup |-> dealer[d].setup, seen |-> n,
                       view |-> dealer[d].view, wanted |-> Tail(dealer[d].wanted)],
         Active /\ Id(d) = table.handNumber =>
            \A k \in 0..4 :
               /\ k <= Len(Hand(table.handNumber).publicPositions)
               /\ Head(dealer[d].wanted) = BoardPositions(table.rules)[k + 1]
               => k + 1 <= Len(Hand(table.handNumber)'.publicPositions)
  PROVE  RunPlays(d)'
<1>1. /\ dealer'[d].pc = "reveal" /\ dealer'[d].view = dealer[d].view
      /\ dealer'[d].setup = dealer[d].setup /\ dealer'[d].wanted = Tail(dealer[d].wanted)
  <2> DEFINE b == dealer[d].setup
             v == dealer[d].view
             w == Tail(dealer[d].wanted)
             r == [pc |-> "reveal", setup |-> b, seen |-> n, view |-> v, wanted |-> w]
  <2>1. dealer'[d] = r
    OBVIOUS
  <2> HIDE DEF b, v, w
  <2>2. r.pc = "reveal" /\ r.view = v /\ r.setup = b /\ r.wanted = w
    OBVIOUS
  <2> HIDE DEF r
  <2> QED
    BY <2>1, <2>2 DEF b, v, w
<1>2. Id(d)' = Id(d) /\ Active' = Active /\ DueCards' = DueCards
  BY <1>1 DEF Id, Active, DueCards
<1>3. RunPlays(d) /\ dealer[d].pc = "reveal"
  BY DEF PlayInv, At
<1>4. Active /\ Id(d) = table.handNumber => WantsOK(d)'
  <2> SUFFICES ASSUME Active, Id(d) = table.handNumber PROVE WantsOK(d)'
    OBVIOUS
  <2>1. PICK k, m \in 0..5 :
            /\ k < m /\ k <= Len(Hand(table.handNumber).publicPositions) /\ m <= DueCards
            /\ Head(dealer[d].wanted) = BoardPositions(table.rules)[k + 1]
            /\ Tail(dealer[d].wanted) = SubSeq(BoardPositions(table.rules), (k + 1) + 1, m)
            /\ dealer[d].view = table.version => m = DueCards
    BY WantsNext
  <2>2. k \in 0..4 /\ k + 1 \in 0..5 /\ k + 1 <= m
    BY <2>1
  <2>3. k + 1 <= Len(Hand(table.handNumber)'.publicPositions)
    BY <2>1, <2>2
  <2>4. \E j, l \in 0..5 :
           /\ j <= l /\ j <= Len(Hand(table.handNumber)'.publicPositions) /\ l <= DueCards'
           /\ dealer'[d].wanted = SubSeq(BoardPositions(table'.rules), j + 1, l)
           /\ dealer'[d].view = table'.version => l = DueCards'
    BY <1>1, <1>2, <2>1, <2>2, <2>3
  <2> QED
    BY <2>4 DEF WantsOK, Hand
<1> QED
  BY <1>1, <1>2, <1>3, <1>4 DEF RunPlays

\* A hand that is being dealt is the one the table plays.
LEMMA DealingIsActive ==
  ASSUME TypesInv, PlayInv, NEW h \in Hands, h <= table.handNumber, Hand(h).status = "DEALING"
  PROVE  Active /\ h = table.handNumber
<1>1. transcript[h] \in Seq(Event) /\ h \in 1..table.handNumber
  BY TableFields DEF TypesInv, Hands
<1>2. ~Has(transcript[h], "HAND_COMPLETED")
  BY <1>1, Status DEF Hand
<1>3. ~(h < table.handNumber)
  BY <1>1, <1>2 DEF PlayInv, HandsPlayed
<1>4. Active
  BY <1>1, <1>2 DEF PlayInv, HandsPlayed
<1> QED
  BY <1>3, <1>4, TableFields DEF Hands

LEMMA RevealPlay ==
  ASSUME TypesInv, PlayInv, NEW d \in Dealers, RevealPublicCard(d)
  PROVE  PlayInv'
<1> SUFFICES ASSUME NEW h \in Hands, h = Id(d) PROVE PlayInv'
  BY RevealSteps
<1> DEFINE position == Head(dealer[d].wanted)
           event == [type |-> "PUBLIC_CARD_REVEALED", position |-> position]
           shown == Hand(h).publicPositions
           cards == BoardPositions(table.rules)
           deal == BoardPositions(Hand(h).rules)
<1>1. /\ At(d, "reveal") /\ dealer[d].wanted # <<>> /\ h \in Hands /\ UNCHANGED <<table, redis>>
      /\ dealer[d].wanted \in Seq(Nat) /\ position \in Nat
  BY RevealSteps
<1>2. h <= table.handNumber /\ (Active => table.rules \in Rules)
  BY <1>1 DEF PlayInv, RunPlays, At, TablePlays, BoardOK
<1>3. shown \in Seq(Nat) /\ transcript[h] \in Seq(Event)
  BY <1>1, ShownTyped DEF TypesInv
<1>4. Active => /\ cards \in Seq(Nat) /\ Len(cards) = 5
                /\ \A i, j \in 1..5 : cards[i] = cards[j] => i = j
                /\ \A other \in Rules : BoardPositions(other)[1] = cards[1] => BoardPositions(other) = cards
  BY <1>2, BoardDiffers
<1>5. Active /\ h = table.handNumber => Begins(shown, cards)
  <2> HAVE Active /\ h = table.handNumber
  <2>1. IsPrefix(shown, cards)
    BY DEF PlayInv, TablePlays, BoardOK
  <2> QED
    BY <1>3, <1>4, <2>1, PrefixIs
<1>6. CASE Goto(d, "failed") /\ UNCHANGED transcript
  <2>1. dealer'[d].pc \notin Viewing /\ \A e \in Dealers : e # d => dealer'[e] = dealer[e]
    BY <1>6, GotoIs DEF Viewing
  <2> QED
    BY <1>1, <1>6, <2>1, QuietPlay, NotViewing
<1>7. CASE /\ Recorded(h, event) /\ UNCHANGED transcript
           /\ dealer' = [dealer EXCEPT ![d].wanted = Tail(@), ![d].seen = Len(transcript'[h])]
  <2>1. /\ dealer'[d] = [pc |-> "reveal", setup |-> dealer[d].setup,
                         seen |-> Len(transcript'[h]), view |-> dealer[d].view,
                         wanted |-> Tail(dealer[d].wanted)]
        /\ dealer' = [dealer EXCEPT ![d] = dealer'[d]]
    <3>1. transcript' \in [Hands -> Seq(Event)]
      BY <1>7 DEF TypesInv
    <3> QED
      BY <1>1, <1>7, <3>1, RevealedRun
  <2>2. Hand(table.handNumber)' = Hand(table.handNumber)
    BY <1>1, <1>7 DEF Hand
  <2>3. \E j \in 1..Len(shown) : shown[j] = position
    <3>1. PICK i \in 1..Len(transcript[h]) : transcript[h][i] = event
      BY SMTT(60), <1>3, <1>7 DEF Recorded
    <3>2. \E j \in 1..Len(Revealed(transcript[h])) : Revealed(transcript[h])[j] = position
      <4>1. transcript[h][i].type = "PUBLIC_CARD_REVEALED" /\ transcript[h][i].position = position
        BY <3>1
      <4> HIDE DEF position, event
      <4> QED
        BY <1>3, <4>1, RevealedHas
    <3>3. shown = Revealed(transcript[h])
      BY <1>3, Fields DEF Hand
    <3> QED
      BY <3>2, <3>3
  <2>4. ASSUME Active, h = table.handNumber, NEW k \in 0..4, position = cards[k + 1]
        PROVE  k + 1 <= Len(shown)
    <3>1. PICK j \in 1..Len(shown) : shown[j] = position
      BY <2>3
    <3>2. cards[j] = position /\ j \in 1..5 /\ k + 1 \in 1..5
      <4>1. Begins(shown, cards) /\ Len(cards) = 5 /\ Len(shown) \in Nat
        BY <1>3, <1>4, <1>5, <2>4
      <4> HIDE DEF shown, cards, position
      <4> QED
        BY <3>1, <4>1 DEF Begins
    <3>3. j = k + 1
      BY <1>4, <2>4, <3>2
    <3> QED
      BY <3>1, <3>3
  <2>5. Active /\ h = table.handNumber =>
           \A k \in 0..4 :
              /\ k <= Len(Hand(table.handNumber).publicPositions)
              /\ position = cards[k + 1]
              => k + 1 <= Len(Hand(table.handNumber)'.publicPositions)
    BY <2>2, <2>4
  <2>6. RunPlays(d)'
    BY <1>1, <2>1, <2>5, RunReveals
  <2>7. \A e \in Dealers : e # d => dealer'[e] = dealer[e]
    BY <2>1, RunTo
  <2> QED
    BY <1>1, <1>7, <2>6, <2>7, QuietPlay
<1>8. CASE /\ Allowed(h, event) /\ Append1(h, event)
           /\ IsPrefix(Append(shown, position), deal)
           /\ dealer' = [dealer EXCEPT ![d].wanted = Tail(@), ![d].seen = Len(transcript'[h])]
  <2>1. event.type = "PUBLIC_CARD_REVEALED" /\ event.position = position
    OBVIOUS
  <2>2. Hand(h).status = "DEALING"
    BY <1>8, <2>1 DEF Allowed
  <2>3. Active /\ h = table.handNumber /\ Hand(h).rules \in Rules
    <3>1. Active /\ h = table.handNumber
      BY <1>1, <1>2, <2>2, DealingIsActive
    <3>2. transcript[h] # <<>> /\ LogOK(h)
      BY <1>1, <1>3, <2>2, Status DEF Hand, Has, TypesInv
    <3> QED
      BY <1>3, <3>1, <3>2, HandTypes DEF LogOK, Hand
  <2> HIDE DEF event
  <2>4. /\ transcript' \in [Hands -> Seq(Event)] /\ Hand(h)'.publicPositions = Append(shown, position)
        /\ \A k \in Hands : k # h => Hand(k)' = Hand(k) /\ transcript'[k] = transcript[k]
        /\ Has(transcript[h], "DECK_COMMITTED") =>
              Has(transcript'[h], "DECK_COMMITTED") /\ Hand(h)'.deckRoot = Hand(h).deckRoot
    <3> HIDE DEF position
    <3>1. UNCHANGED redis /\ Allowed(h, event) /\ Append1(h, event)
      BY <1>1, <1>8
    <3>2. transcript' \in [Hands -> Seq(Event)] /\ Hand(h)'.publicPositions = Append(shown, position)
      BY <2>1, <3>1, LogSteps
    <3>3. \A k \in Hands : k # h => Hand(k)' = Hand(k) /\ transcript'[k] = transcript[k]
      BY <3>1, LogSteps
    <3>4. Has(transcript[h], "DECK_COMMITTED") => Has(transcript'[h], "DECK_COMMITTED")
      BY <3>1, LogSteps
    <3>5. Has(transcript[h], "DECK_COMMITTED") => Hand(h)'.deckRoot = Hand(h).deckRoot
      BY <3>1, LogSteps
    <3> QED
      BY <3>2, <3>3, <3>4, <3>5
  <2>5. Append(shown, position) \in Seq(Nat) /\ Len(Append(shown, position)) = Len(shown) + 1
        /\ Append(shown, position)[Len(shown) + 1] = position /\ Begins(shown, Append(shown, position))
    <3> HIDE DEF shown, position
    <3> QED
      BY <1>1, <1>3, AppendBegins
  <2>6. deal \in Seq(Nat) /\ Len(deal) = 5
    BY <2>3, BoardDiffers
  <2>7. Begins(Append(shown, position), deal)
    <3> HIDE DEF shown, position, deal
    <3> QED
      BY <1>8, <2>5, <2>6, PrefixIs
  <2>8. PICK k, n \in 0..5 :
            /\ k < n /\ k <= Len(shown) /\ n <= DueCards /\ position = cards[k + 1]
    BY <1>1, <2>3, WantsNext
  <2>9. k = Len(shown)
    <3> HIDE DEF position, cards, deal
    <3>1. Len(shown) \in Nat /\ Len(shown) + 1 <= 5 /\ deal[Len(shown) + 1] = position
      <4>1. Len(shown) \in Nat
        BY <1>3
      <4>2. Len(shown) + 1 \in 1..Len(Append(shown, position)) /\ Len(shown) + 1 <= 5
        BY <2>5, <2>6, <2>7, <4>1 DEF Begins
      <4> QED
        BY <2>5, <2>7, <4>1, <4>2 DEF Begins
    <3>2. CASE Len(shown) = 0
      BY <2>8, <3>2
    <3>3. CASE Len(shown) # 0
      <4>1. 1 \in 1..Len(shown) /\ 1 \in 1..Len(Append(shown, position))
        BY <2>5, <3>1, <3>3
      <4>2. cards[1] = shown[1]
        BY <1>5, <2>3, <4>1 DEF Begins
      <4>3. deal[1] = Append(shown, position)[1] /\ Append(shown, position)[1] = shown[1]
        BY <2>5, <2>7, <4>1 DEF Begins
      <4>4. deal = cards
        BY <1>4, <2>3, <4>2, <4>3 DEF deal
      <4>5. Len(shown) + 1 \in 1..5 /\ k + 1 \in 1..5 /\ cards[Len(shown) + 1] = cards[k + 1]
        BY <2>8, <3>1, <4>4
      <4>6. Len(shown) + 1 = k + 1
        BY <1>4, <2>3, <4>5
      <4> QED
        BY <3>1, <4>6
    <3> QED
      BY <3>2, <3>3
  <2>10. /\ Begins(Append(shown, position), cards) /\ Len(shown) + 1 <= DueCards
    <3> HIDE DEF position, cards
    <3>1. Len(shown) \in Nat /\ cards[Len(shown) + 1] = position /\ Len(shown) + 1 <= DueCards /\ Len(shown) + 1 <= 5
      <4>1. DueCards \in Nat
        <5>1. Len(table.board) \in Nat
          BY TableFields
        <5> QED
          BY <5>1 DEF DueCards
      <4> QED
        BY <1>3, <2>8, <2>9, <4>1
    <3>2. \A i \in 1..Len(Append(shown, position)) : cards[i] = Append(shown, position)[i]
      <4> TAKE i \in 1..Len(Append(shown, position))
      <4>1. i \in 1..Len(shown) \/ i = Len(shown) + 1
        BY <2>5, <3>1
      <4>2. CASE i \in 1..Len(shown)
        BY <1>5, <2>3, <2>5, <4>2 DEF Begins
      <4>3. CASE i = Len(shown) + 1
        BY <2>5, <3>1, <4>3
      <4> QED
        BY <4>1, <4>2, <4>3
    <3> QED
      BY <1>4, <2>3, <2>5, <3>1, <3>2 DEF Begins
  <2>11. TablePlays'
    <3>1. IsPrefix(Append(shown, position), cards)
      <4> HIDE DEF shown, position, cards
      <4> QED
        BY <1>4, <2>3, <2>5, <2>10, PrefixIs
    <3>2. BoardOK /\ TablePlays
      BY <2>3 DEF PlayInv, TablePlays
    <3>3. Hand(table.handNumber)'.publicPositions = Append(shown, position)
      BY <1>1, <2>3, <2>4 DEF Hand
    <3>4. Len(table.board) <= Len(Append(shown, position)) /\ Len(Append(shown, position)) <= DueCards
      <4>1. Len(table.board) <= Len(shown) /\ Len(table.board) \in Nat /\ Len(shown) \in Nat
        BY <1>3, <2>3, <3>2, TableFields DEF BoardOK
      <4> HIDE DEF shown, position
      <4> QED
        BY <2>5, <2>10, <4>1
    <3>5. BoardOK'
      BY <1>1, <3>1, <3>2, <3>3, <3>4 DEF BoardOK, DueCards, Hand
    <3> QED
      BY <1>1, <2>3, <2>4, <3>2, <3>5 DEF TablePlays, Hand, Active
  <2>12. HandsPlayed'
    <3>1. \A j \in 1..table.handNumber : j \in Hands
      BY TableFields, BoundsAssumption DEF Hands
    <3>2. HandsPlayed /\ table' = table
      BY <1>1 DEF PlayInv
    <3>3. \A j \in Hands : j > table.handNumber => j # h
      BY <1>2, TableFields DEF Hands
    <3>4. \A j \in 1..table.handNumber : j < table.handNumber \/ ~Active => j # h
      BY <2>3, TableFields
    <3> QED
      BY <2>4, <3>1, <3>2, <3>3, <3>4 DEF HandsPlayed, Active, Hand
  <2>13. /\ dealer'[d] = [pc |-> "reveal", setup |-> dealer[d].setup,
                         seen |-> Len(transcript'[h]), view |-> dealer[d].view,
                         wanted |-> Tail(dealer[d].wanted)]
        /\ dealer' = [dealer EXCEPT ![d] = dealer'[d]]
    BY <1>1, <1>8, <2>4, RevealedRun
  <2>14. \A e \in Dealers : e # d => dealer'[e] = dealer[e]
    BY <2>13, RunTo
  <2>15. RunPlays(d)'
    <3>1. Active /\ Id(d) = table.handNumber =>
            \A j \in 0..4 :
               /\ j <= Len(Hand(table.handNumber).publicPositions)
               /\ Head(dealer[d].wanted) = BoardPositions(table.rules)[j + 1]
               => j + 1 <= Len(Hand(table.handNumber)'.publicPositions)
      <4>1. Hand(table.handNumber)'.publicPositions = Append(shown, position)
            /\ Hand(table.handNumber).publicPositions = shown
        BY <1>1, <2>3, <2>4 DEF Hand
      <4>2. Len(shown) \in Nat
        BY <1>3
      <4> HIDE DEF shown, position
      <4> QED
        BY <2>5, <4>1, <4>2
    <3> QED
      BY <1>1, <2>13, <3>1, RunReveals
  <2>16. \A e \in Dealers : e # d => RunPlays(e)'
    <3> QED
      BY <1>1, <1>8, <2>14, RunWaits
  <2> QED
    BY <2>11, <2>12, <2>15, <2>16 DEF PlayInv
<1> QED
  BY <1>6, <1>7, <1>8, RevealSteps

LEMMA TableNumbers ==
  ASSUME TypesInv
  PROVE  /\ table.version \in Nat /\ table.handNumber \in Nat /\ Len(table.board) \in Nat
         /\ table.board = <<>> <=> Len(table.board) = 0
         /\ table.handNumber # 0 <=> table.handNumber \in Hands
         /\ DueCards \in Nat
<1>1. table.version \in Nat /\ table.handNumber \in 0..MaxHands /\ table.board \in Seq(Nat)
  BY TableFields
<1>2. Len(table.board) \in Nat /\ (table.board = <<>> <=> Len(table.board) = 0)
  BY <1>1, EmptySeq
<1>3. table.handNumber \in Nat /\ (table.handNumber # 0 <=> table.handNumber \in Hands)
  BY <1>1, BoundsAssumption DEF Hands
<1>4. DueCards \in Nat
  BY <1>2 DEF DueCards
<1> QED
  BY <1>1, <1>2, <1>3, <1>4

LEMMA StillPlay ==
  ASSUME PlayInv, UNCHANGED <<table, transcript, dealer>>
  PROVE  PlayInv'
<1>1. \A e \in Dealers : RunPlays(e)'
  BY DEF PlayInv, RunPlays, WantsOK, Id, Read, Log, Hand, DueCards, Active
<1>2. TablePlays'
  BY DEF PlayInv, TablePlays, BoardOK, Active, DueCards, Hand
<1>3. HandsPlayed'
  BY DEF PlayInv, HandsPlayed, Active, Hand
<1> QED
  BY <1>1, <1>2, <1>3 DEF PlayInv

\* What a run that does not move may count on when the table changes: that what
\* it knows is not current.
LEMMA RunFallsBehind ==
  ASSUME TypesInv, PlayInv, UNCHANGED transcript, table'.version = table.version + 1,
         table'.handNumber \in Nat, table.handNumber <= table'.handNumber,
         table'.status = "HAND_ACTIVE" /\ table'.handNumber = table.handNumber =>
            Active /\ table'.rules = table.rules /\ DueCards' \in Nat /\ DueCards <= DueCards',
         NEW e \in Dealers, dealer'[e] = dealer[e]
  PROVE  RunPlays(e)'
<1>1. RunPlays(e) /\ RunOK(e) /\ Id(e)' = Id(e) /\ Read(e)' = Read(e)
  BY DEF PlayInv, TypesInv, Id, Read, Log
<1>2. table.version \in Nat /\ table.handNumber \in Nat
  BY TableFields, BoundsAssumption
<1>3. dealer[e].pc \in Viewing => dealer[e].view <= table'.version /\ dealer[e].view # table'.version
  <2> HAVE dealer[e].pc \in Viewing
  <2>1. dealer[e].view \in Nat /\ dealer[e].view <= table.version
    BY <1>1 DEF RunOK, RunPlays
  <2> QED
    BY <1>2, <2>1
<1>4. dealer[e].pc \in {"reveal", "complete"} => Id(e) <= table'.handNumber
  <2> HAVE dealer[e].pc \in {"reveal", "complete"}
  <2>1. Id(e) \in Nat /\ Id(e) <= table.handNumber
    BY <1>1 DEF RunOK, RunPlays, Hands
  <2> QED
    BY <1>2, <2>1
<1>5. dealer[e].pc = "reveal" => (Active' /\ Id(e) = table'.handNumber => WantsOK(e)')
  <2> SUFFICES ASSUME dealer[e].pc = "reveal", table'.status = "HAND_ACTIVE", Id(e) = table'.handNumber
               PROVE  WantsOK(e)'
    BY DEF Active
  <2>1. table'.handNumber = table.handNumber
    <3>1. Id(e) <= table.handNumber
      BY <1>1 DEF RunPlays
    <3> QED
      BY <1>2, <3>1
  <2>2. Active /\ table'.rules = table.rules /\ DueCards' \in Nat /\ DueCards <= DueCards' /\ WantsOK(e)
    BY <1>1, <2>1 DEF RunPlays
  <2>3. PICK k, n \in 0..5 :
           /\ k <= n /\ k <= Len(Hand(table.handNumber).publicPositions) /\ n <= DueCards
           /\ dealer[e].wanted = SubSeq(BoardPositions(table.rules), k + 1, n)
    BY <2>2 DEF WantsOK
  <2>4. DueCards \in Nat
    <3>1. Len(table.board) \in Nat
      BY TableFields
    <3> QED
      BY <3>1 DEF DueCards
  <2>5. n <= DueCards'
    BY <2>2, <2>3, <2>4
  <2>6. Hand(table.handNumber)' = Hand(table.handNumber)
    BY <2>1 DEF Hand
  <2>7. dealer'[e].view # table'.version
    BY <1>3 DEF Viewing
  <2>8. \E j, l \in 0..5 :
           /\ j <= l /\ j <= Len(Hand(table.handNumber)'.publicPositions) /\ l <= DueCards'
           /\ dealer'[e].wanted = SubSeq(BoardPositions(table'.rules), j + 1, l)
           /\ dealer'[e].view = table'.version => l = DueCards'
    BY <2>2, <2>3, <2>5, <2>6, <2>7
  <2> QED
    BY <2>8 DEF WantsOK
<1> QED
  BY <1>1, <1>3, <1>4, <1>5 DEF RunPlays, Viewing

\* Who sits changes, and the betting goes on to its end.
LEMMA TableChanges ==
  ASSUME TypesInv,
         \/ \E active : table' = [table EXCEPT !.version = @ + 1, !.active = active]
         \/ /\ Active /\ table.betting = "BETTING"
            /\ \E next \in RoundEnds(table.board) :
                  table' = [table EXCEPT !.version = @ + 1, !.betting = next]
  PROVE  /\ table'.version = table.version + 1 /\ table'.status = table.status
         /\ table'.handNumber = table.handNumber /\ table'.rules = table.rules
         /\ table'.deckRoot = table.deckRoot /\ table'.board = table.board
         /\ table'.players = table.players /\ table'.button = table.button
         /\ table'.dealtAt = table.dealtAt
         /\ \/ table'.betting = table.betting
            \/ /\ Active /\ table.betting = "BETTING" /\ table'.betting \in RoundEnds(table.board)
               /\ table'.active = table.active
BY TableFields DEF TableType

LEMMA TableMovesPlay ==
  ASSUME TypesInv, PlayInv, UNCHANGED <<transcript, dealer>>,
         table'.version = table.version + 1, table'.status = table.status,
         table'.handNumber = table.handNumber, table'.rules = table.rules,
         table'.deckRoot = table.deckRoot, table'.board = table.board,
         \/ table'.betting = table.betting
         \/ Active /\ table.betting = "BETTING" /\ table'.betting \in RoundEnds(table.board)
  PROVE  PlayInv'
<1>1. /\ table'.version = table.version + 1 /\ table'.status = table.status
      /\ table'.handNumber = table.handNumber /\ table'.rules = table.rules
      /\ table'.deckRoot = table.deckRoot /\ table'.board = table.board
      /\ \/ table'.betting = table.betting
         \/ Active /\ table.betting = "BETTING" /\ table'.betting \in RoundEnds(table.board)
  OBVIOUS
<1>2. table.board \in Seq(Nat) /\ Len(table.board) \in Nat /\ table.handNumber \in Nat
      /\ (table.board = <<>> <=> Len(table.board) = 0)
  BY TableFields, TableNumbers
<1>3. Active => BoardOK /\ Len(table.board) <= 5
  <2> HAVE Active
  <2>1. BoardOK
    BY DEF PlayInv, TablePlays
  <2>2. BoardPositions(table.rules) \in Seq(Nat) /\ Len(BoardPositions(table.rules)) = 5
    BY <2>1, BoardDiffers DEF BoardOK
  <2>3. Begins(table.board, BoardPositions(table.rules))
    BY <1>2, <2>1, <2>2, PrefixIs DEF BoardOK
  <2> QED
    BY <2>1, <2>2, <2>3 DEF Begins
<1>4. table'.betting \in RoundEnds(table.board) /\ Active =>
         /\ table'.betting # "NONE" /\ (table'.betting \in Awaiting => Len(table.board) < 5)
         /\ DueCards' \in Nat /\ Len(table.board) <= DueCards'
  <2> HAVE table'.betting \in RoundEnds(table.board) /\ Active
  <2>1. table'.betting \in {"COMPLETE", "SHOWDOWN", "AWAITING_RUNOUT", "AWAITING_DEAL"}
        /\ (Len(table.board) = 5 => table'.betting # "AWAITING_RUNOUT")
        /\ (table'.betting = "AWAITING_DEAL" => Len(table.board) < MaxStreet)
    BY DEF RoundEnds
  <2>2. table'.betting \in Awaiting => Len(table.board) < 5
    <3> DEFINE n == Len(table.board)
    <3>1. n \in Nat /\ n <= 5 /\ MaxStreet \in Nat /\ MaxStreet <= 5
      BY <1>2, <1>3, BoundsAssumption
    <3> HIDE DEF n
    <3>2. n < MaxStreet => n < 5
      BY <3>1
    <3>3. n # 5 => n < 5
      BY <3>1
    <3> QED
      BY <2>1, <3>2, <3>3 DEF Awaiting, n
  <2>3. DueCards' = IF table'.betting = "AWAITING_RUNOUT" THEN 5
                    ELSE IF table'.betting = "AWAITING_DEAL"
                    THEN (IF table.board = <<>> THEN 3 ELSE Len(table.board) + 1)
                    ELSE Len(table.board)
    BY <1>1 DEF DueCards
  <2> QED
    BY <1>2, <1>3, <2>1, <2>2, <2>3
<1>5. Active => DueCards' \in Nat /\ DueCards <= DueCards'
  <2> HAVE Active
  <2>1. CASE table'.betting = table.betting
    <3>1. DueCards' = DueCards
      BY <1>1, <2>1 DEF DueCards
    <3> QED
      BY <3>1, TableNumbers
  <2>2. CASE table.betting = "BETTING" /\ table'.betting \in RoundEnds(table.board)
    <3>1. DueCards = Len(table.board)
      BY <2>2 DEF DueCards
    <3> QED
      BY <1>4, <2>2, <3>1
  <2> QED
    BY <1>1, <2>1, <2>2
<1>6. \A e \in Dealers : RunPlays(e)'
  <2>1. table.handNumber <= table'.handNumber /\ table'.handNumber \in Nat
    BY <1>1, <1>2
  <2>2. table'.status = "HAND_ACTIVE" => Active
    BY <1>1 DEF Active
  <2> QED
    BY <1>1, <1>5, <2>1, <2>2, RunFallsBehind
<1>7. TablePlays'
  <2> SUFFICES ASSUME Active PROVE TablePlays'
    BY <1>1 DEF TablePlays, Active
  <2>1. TablePlays /\ BoardOK /\ table.handNumber \in Hands
    BY TableNumbers DEF PlayInv, TablePlays
  <2>2. Hand(table.handNumber)' = Hand(table.handNumber)
    BY <1>1 DEF Hand
  <2>3. Len(Hand(table.handNumber).publicPositions) <= DueCards'
    <3>1. DueCards \in Nat /\ Len(Hand(table.handNumber).publicPositions) \in Nat
      BY <2>1, TableNumbers, ShownTyped
    <3>2. Len(Hand(table.handNumber).publicPositions) <= DueCards
      BY <2>1 DEF BoardOK
    <3> QED
      BY <1>5, <3>1, <3>2
  <2>4. table'.betting # "NONE" /\ (table'.betting \in Awaiting => Len(table.board) < 5)
    BY <1>1, <1>4, <2>1 DEF BoardOK
  <2>5. BoardOK'
    BY <1>1, <2>1, <2>2, <2>3, <2>4 DEF BoardOK
  <2> QED
    BY <1>1, <2>1, <2>2, <2>5 DEF TablePlays
<1>8. HandsPlayed'
  BY <1>1 DEF PlayInv, HandsPlayed, Active, Hand
<1> QED
  BY <1>6, <1>7, <1>8 DEF PlayInv

LEMMA SeatPlay ==
  ASSUME TypesInv, PlayInv, NEW p \in Players,
         Return(p) \/ Go(p) \/ \E d \in Dealers : Seat(p, d)
  PROVE  PlayInv'
<1>2. \E active : table' = [table EXCEPT !.version = @ + 1, !.active = active]
  <2>1. CASE Return(p) \/ \E d \in Dealers : Seat(p, d)
    BY <2>1 DEF Return, Seat
  <2>2. CASE Go(p)
    BY <2>2 DEF Go
  <2> QED
    BY <2>1, <2>2
<1>3. UNCHANGED <<transcript, dealer>>
  BY DEF Return, Go, Seat
<1> QED
  BY <1>2, <1>3, TableChanges, TableMovesPlay

LEMMA ActPlay ==
  ASSUME TypesInv, PlayInv, NEW d \in Dealers, Act(d)
  PROVE  PlayInv'
<1>1. /\ Active /\ table.betting = "BETTING" /\ UNCHANGED <<transcript, dealer>>
      /\ \E next \in RoundEnds(table.board) :
            table' = [table EXCEPT !.version = @ + 1, !.betting = next]
  BY DEF Act, Active
<1> QED
  BY <1>1, TableChanges, TableMovesPlay

LEMMA LockPlay ==
  ASSUME TypesInv, PlayInv, NEW d \in Dealers, Acquire(d) \/ Release(d) \/ Crash(d) \/ Fault(d) \/ ReadTable(d)
  PROVE  PlayInv'
<1>1. UNCHANGED <<table, transcript>>
  BY DEF Acquire, Release, Crash, Fault, ReadTable
<1>2. dealer'[d].pc \notin Viewing /\ \A e \in Dealers : e # d => dealer'[e] = dealer[e]
  <2>1. CASE Acquire(d) \/ Fault(d)
    <3>1. \E pc \in {"run", "undo", "failed"} : Goto(d, pc)
      BY <2>1 DEF Acquire, Fault
    <3> QED
      BY <3>1, GotoIs DEF Viewing
  <2>2. CASE Release(d) \/ Crash(d)
    <3>1. dealer' = [dealer EXCEPT ![d] = Idle]
      BY <2>2 DEF Release, Crash
    <3>2. dealer'[d] = Idle /\ \A e \in Dealers : e # d => dealer'[e] = dealer[e]
      BY <3>1, RunTo
    <3>3. Idle.pc = "idle"
      BY DEF Idle
    <3> QED
      BY <3>2, <3>3 DEF Viewing
  <2>3. CASE ReadTable(d)
    <3> DEFINE call == IF table.status = "HAND_ACTIVE" THEN [pc |-> "advance"]
                       ELSE IF Cardinality(table.active) < 2 \/ table.handNumber = MaxHands
                            THEN [pc |-> "release"]
                            ELSE [pc |-> "prepare", setup |-> NextHandSetup(table)]
    <3>1. dealer' = [dealer EXCEPT ![d] = call]
      BY <2>3 DEF ReadTable
    <3>2. call.pc \in {"advance", "release", "prepare"}
      OBVIOUS
    <3> HIDE DEF call
    <3>3. dealer'[d] = call /\ \A e \in Dealers : e # d => dealer'[e] = dealer[e]
      BY <3>1, RunTo
    <3> QED
      BY <3>2, <3>3 DEF Viewing
  <2> QED
    BY <2>1, <2>2, <2>3
<1> QED
  BY <1>1, <1>2, QuietPlay, NotViewing

LEMMA ReadForStartPlay ==
  ASSUME TypesInv, PlayInv, NEW d \in Dealers, ReadForStart(d)
  PROVE  PlayInv'
<1>1. At(d, "hand") /\ dealer[d].pc \in Logging /\ UNCHANGED <<table, transcript, redis, scheduled>>
  BY DEF ReadForStart, At, Logging
<1>2. CASE dealer' = [dealer EXCEPT ![d] = [pc |-> "advance"]]
  <2>1. dealer'[d] = [pc |-> "advance"] /\ \A e \in Dealers : e # d => dealer'[e] = dealer[e]
    BY <1>2, RunTo
  <2> QED
    BY <1>1, <2>1, QuietPlay, NotViewing DEF Viewing
<1>3. CASE /\ Seen(d).status = "DEALING" /\ table.status = "WAITING"
           /\ dealer' = [dealer EXCEPT ![d] = [pc |-> "start", setup |-> @.setup, seen |-> @.seen,
                                               view |-> table.version]]
  <2> DEFINE call == [pc |-> "start", setup |-> dealer[d].setup, seen |-> dealer[d].seen,
                      view |-> table.version]
  <2>1. dealer'[d] = call /\ \A e \in Dealers : e # d => dealer'[e] = dealer[e]
    <3>1. dealer' = [dealer EXCEPT ![d] = call]
      BY <1>3
    <3> HIDE DEF call
    <3> QED
      BY <3>1, RunTo
  <2>2. Read(d)' = Read(d)
    <3>1. dealer'[d].setup = dealer[d].setup /\ dealer'[d].seen = dealer[d].seen
      BY <2>1
    <3> QED
      BY <1>1, <3>1 DEF Read, Log, Id
  <2>3. Has(Read(d), "DECK_COMMITTED")
    BY <1>1, <1>3, SeenPart, Status
  <2>4. table.version \in Nat
    BY TableFields
  <2>5. RunPlays(d)'
    BY <1>1, <1>3, <2>1, <2>2, <2>3, <2>4 DEF RunPlays, Active, Viewing
  <2> QED
    BY <1>1, <2>1, <2>5, QuietPlay
<1> QED
  BY <1>2, <1>3 DEF ReadForStart

LEMMA AdvancePlay ==
  ASSUME TypesInv, PlayInv, NEW d \in Dealers, Advance(d)
  PROVE  PlayInv'
<1>1. UNCHANGED <<table, transcript, redis, scheduled>>
  BY DEF Advance
<1>2. CASE ~Active \/ table.betting = "BETTING"
  <2>1. dealer' = [dealer EXCEPT ![d] = [pc |-> "release"]]
    BY <1>2 DEF Advance, Active
  <2>2. dealer'[d] = [pc |-> "release"] /\ \A e \in Dealers : e # d => dealer'[e] = dealer[e]
    BY <2>1, RunTo
  <2> QED
    BY <1>1, <2>2, QuietPlay, NotViewing DEF Viewing
<1>3. CASE Active /\ table.betting # "BETTING"
  <2> DEFINE h == table.handNumber
             ends == table.betting \in {"COMPLETE", "SHOWDOWN"}
             wanted == IF ends THEN <<>> ELSE Wanted(table)
             call == [pc |-> IF ends THEN "complete" ELSE "reveal", setup |-> [handId |-> h],
                      seen |-> Len(transcript[h]), view |-> table.version, wanted |-> wanted]
  <2>1. dealer' = [dealer EXCEPT ![d] = call]
    BY <1>3 DEF Advance, Active
  <2>2. dealer'[d] = call /\ \A e \in Dealers : e # d => dealer'[e] = dealer[e]
    <3> HIDE DEF call
    <3> QED
      BY <2>1, RunTo
  <2>3. /\ dealer'[d].pc = (IF ends THEN "complete" ELSE "reveal") /\ dealer'[d].setup.handId = h
        /\ dealer'[d].view = table.version /\ dealer'[d].wanted = wanted
    <3> HIDE DEF h, ends, wanted
    <3> QED
      BY <2>2
  <2>4. BoardOK /\ h \in Nat /\ table.version \in Nat
    BY <1>3, TableFields, BoundsAssumption DEF PlayInv, TablePlays
  <2>5. ends <=> table.betting \notin Awaiting
    BY <1>3, <2>4, TableFields DEF BoardOK, Awaiting, Ended
  <2>6. ~ends => WantsOK(d)'
    <3> HAVE ~ends
    <3> DEFINE k == Len(table.board)
               n == DueCards
    <3>1. n \in 1..5 /\ k < n /\ wanted = SubSeq(BoardPositions(table.rules), k + 1, n) /\ k \in Nat
      <4>1. table \in TableType /\ table.betting \in Awaiting /\ Len(table.board) < 5
        BY <2>4, <2>5, TableFields DEF BoardOK
      <4> QED
        BY <4>1, DueIs, TableNumbers
    <3>2. k <= Len(Hand(h).publicPositions) /\ Hand(h)' = Hand(h) /\ DueCards' = n
      BY <1>1, <2>4 DEF BoardOK, DueCards, Hand
    <3> HIDE DEF wanted
    <3>3. k \in 0..5 /\ n \in 0..5 /\ k <= n
      <4> HIDE DEF k, n
      <4> QED
        BY <3>1
    <3>4. \E j, l \in 0..5 :
           /\ j <= l /\ j <= Len(Hand(table.handNumber)'.publicPositions) /\ l <= DueCards'
           /\ dealer'[d].wanted = SubSeq(BoardPositions(table'.rules), j + 1, l)
           /\ dealer'[d].view = table'.version => l = DueCards'
      <4>1. /\ k <= Len(Hand(table.handNumber)'.publicPositions) /\ n <= DueCards' /\ n = DueCards'
            /\ dealer'[d].wanted = SubSeq(BoardPositions(table'.rules), k + 1, n)
        <5>1. Hand(table.handNumber)' = Hand(table.handNumber) /\ table' = table
          BY <1>1 DEF Hand
        <5> QED
          BY <2>3, <3>1, <3>2, <5>1
      <4> HIDE DEF k, n
      <4> QED
        BY <3>3, <4>1
    <3> QED
      BY <3>4 DEF WantsOK
  <2>7. RunPlays(d)'
    <3>1. Active' /\ Id(d)' = h /\ table' = table
      BY <1>1, <1>3, <2>3 DEF Active, Id
    <3>2. Ended = {"COMPLETE", "SHOWDOWN"}
      BY DEF Ended
    <3> HIDE DEF wanted, call
    <3> QED
      BY <2>3, <2>4, <2>5, <2>6, <3>1, <3>2 DEF RunPlays, Viewing
  <2> QED
    BY <1>1, <2>2, <2>7, QuietPlay
<1> QED
  BY <1>2, <1>3

LEMMA CompletePlay ==
  ASSUME TypesInv, PlayInv, NEW d \in Dealers, CompleteHand(d)
  PROVE  PlayInv'
<1> SUFFICES ASSUME NEW h \in Hands, h = Id(d) PROVE PlayInv'
  BY CompleteSteps
<1> DEFINE event == [type |-> "HAND_COMPLETED"]
           call == [pc |-> "finish", view |-> dealer[d].view, bundle |-> AuditBundle(committed[h])]
<1>1. At(d, "complete") /\ UNCHANGED <<table, scheduled>>
  BY CompleteSteps DEF Fail
<1>2. RunPlays(d) /\ h <= table.handNumber
  BY <1>1 DEF PlayInv, RunPlays, At
<1>3. CASE Fail(d)
  <2>1. Goto(d, "failed") /\ UNCHANGED transcript
    BY <1>3 DEF Fail
  <2>2. dealer'[d].pc \notin Viewing /\ \A e \in Dealers : e # d => dealer'[e] = dealer[e]
    BY <2>1, GotoIs DEF Viewing
  <2> QED
    BY <1>1, <2>1, <2>2, QuietPlay, NotViewing
<1>4. dealer' = [dealer EXCEPT ![d] = call] =>
         /\ dealer'[d].pc = "finish" /\ dealer'[d].view = dealer[d].view
         /\ \A e \in Dealers : e # d => dealer'[e] = dealer[e]
  <2> HAVE dealer' = [dealer EXCEPT ![d] = call]
  <2>1. call.pc = "finish" /\ call.view = dealer[d].view
    OBVIOUS
  <2> HIDE DEF call
  <2>2. dealer'[d] = call /\ \A e \in Dealers : e # d => dealer'[e] = dealer[e]
    BY RunTo
  <2> QED
    BY <2>1, <2>2
<1>5. ASSUME dealer'[d].pc = "finish", dealer'[d].view = dealer[d].view, Has(transcript'[h], "HAND_COMPLETED")
      PROVE  RunPlays(d)'
  <2>1. dealer[d].view = table.version => Active /\ h = table.handNumber /\ table.betting \in Ended
    BY <1>1, <1>2 DEF RunPlays, At
  <2>2. dealer[d].view <= table.version
    BY <1>1, <1>2 DEF RunPlays, At, Viewing
  <2>3. Active' = Active
    BY <1>1 DEF Active
  <2> QED
    BY <1>1, <1>5, <2>1, <2>2, <2>3 DEF RunPlays, Viewing
<1>6. CASE Recorded(h, event) /\ dealer' = [dealer EXCEPT ![d] = call] /\ UNCHANGED transcript
  <2>1. Has(transcript'[h], "HAND_COMPLETED")
    <3>1. transcript[h] \in Seq(Event) /\ event.type = "HAND_COMPLETED"
      BY DEF TypesInv
    <3> HIDE DEF event
    <3> QED
      BY <1>6, <3>1 DEF Recorded, Has
  <2> HIDE DEF call
  <2> QED
    BY <1>1, <1>4, <1>5, <1>6, <2>1, QuietPlay
<1>7. CASE /\ Allowed(h, event) /\ Append1(h, event) /\ UNCHANGED redis
           /\ dealer' = [dealer EXCEPT ![d] = call]
  <2>1. event.type = "HAND_COMPLETED"
    OBVIOUS
  <2> HIDE DEF event, call
  <2>2. Hand(h).status = "DEALING"
    BY <1>7, <2>1 DEF Allowed
  <2>3. Active /\ h = table.handNumber
    BY <1>2, <2>2, DealingIsActive
  <2>4. \A k \in Hands : Hand(k)'.publicPositions = Hand(k).publicPositions
    BY <1>7, <2>1, LogSteps
  <2>5. \A k \in Hands : k # h => transcript'[k] = transcript[k]
    BY <1>7, LogSteps
  <2>6. Has(transcript[h], "DECK_COMMITTED") =>
           Has(transcript'[h], "DECK_COMMITTED") /\ Hand(h)'.deckRoot = Hand(h).deckRoot
    <3>1. Has(transcript[h], "DECK_COMMITTED") => Has(transcript'[h], "DECK_COMMITTED")
      BY <1>7, LogSteps
    <3>2. Has(transcript[h], "DECK_COMMITTED") => Hand(h)'.deckRoot = Hand(h).deckRoot
      BY <1>7, LogSteps
    <3> QED
      BY <3>1, <3>2
  <2>7. Has(transcript'[h], "HAND_COMPLETED")
    <3>1. Recorded(h, event)' /\ transcript' \in [Hands -> Seq(Event)]
      BY <1>7, LogSteps
    <3>2. transcript'[h] \in Seq(Event)
      BY <3>1
    <3> QED
      BY <2>1, <3>1, <3>2 DEF Recorded, Has
  <2>8. TablePlays'
    <3>1. TablePlays /\ table' = table
      BY <1>1 DEF PlayInv
    <3>2. BoardOK'
      BY <2>3, <2>4, <3>1 DEF TablePlays, BoardOK, DueCards, Hand
    <3> QED
      BY <2>3, <2>6, <3>1, <3>2 DEF TablePlays, Active, Hand
  <2>9. HandsPlayed'
    <3>1. \A j \in 1..table.handNumber : j \in Hands
      BY TableFields, BoundsAssumption DEF Hands
    <3>2. HandsPlayed /\ table' = table
      BY <1>1 DEF PlayInv
    <3>3. \A j \in Hands : j > table.handNumber => j # h
      BY <2>3, TableNumbers DEF Hands
    <3> QED
      BY <2>4, <2>5, <2>7, <3>1, <3>2, <3>3 DEF HandsPlayed, Active, Hand
  <2>10. \A e \in Dealers : e # d => RunPlays(e)'
    BY <1>1, <1>4, <1>7, RunWaits
  <2> QED
    BY <1>4, <1>5, <1>7, <2>7, <2>8, <2>9, <2>10 DEF PlayInv
<1> QED
  BY <1>3, <1>6, <1>7, CompleteSteps

LEMMA DealPlay ==
  ASSUME TypesInv, PlayInv, NEW d \in Dealers, DealBoard(d)
  PROVE  PlayInv'
<1>1. At(d, "reveal") /\ dealer[d].wanted = <<>> /\ RunPlays(d)
  BY DealSteps DEF PlayInv
<1>2. CASE UNCHANGED <<table, transcript>> /\ (Fail(d) \/ dealer' = [dealer EXCEPT ![d] = [pc |-> "advance"]])
  <2>1. dealer'[d].pc \in {"failed", "advance"} /\ \A e \in Dealers : e # d => dealer'[e] = dealer[e]
    <3>1. CASE Fail(d)
      BY <3>1, GotoIs DEF Fail
    <3>2. CASE dealer' = [dealer EXCEPT ![d] = [pc |-> "advance"]]
      <4>1. dealer'[d] = [pc |-> "advance"] /\ \A e \in Dealers : e # d => dealer'[e] = dealer[e]
        BY <3>2, RunTo
      <4> QED
        BY <4>1
    <3> QED
      BY <1>2, <3>1, <3>2
  <2> QED
    BY <1>2, <2>1, QuietPlay, NotViewing DEF Viewing
<1>3. CASE /\ table.version = dealer[d].view /\ table' = Dealt
           /\ dealer' = [dealer EXCEPT ![d] = [pc |-> "advance"]]
           /\ UNCHANGED <<transcript, redis>>
  <2> DEFINE cards == BoardPositions(table.rules)
             shown == Hand(table.handNumber).publicPositions
  <2>1. Active /\ Id(d) = table.handNumber /\ table.betting \in Awaiting /\ WantsOK(d)
    BY <1>1, <1>3 DEF RunPlays, At
  <2>2. TablePlays /\ BoardOK /\ table.handNumber \in Hands
    BY <2>1, TableNumbers DEF PlayInv, TablePlays
  <2>3. cards \in Seq(Nat) /\ Len(cards) = 5 /\ shown \in Seq(Nat) /\ Len(shown) \in Nat
    BY <2>2, BoardDiffers, ShownTyped DEF BoardOK
  <2>4. /\ Dealt.version = table.version + 1 /\ Dealt.board = table.board \o Wanted(table)
        /\ Dealt.betting = IF table.betting = "AWAITING_RUNOUT" THEN "SHOWDOWN" ELSE "BETTING"
        /\ Dealt.status = table.status /\ Dealt.handNumber = table.handNumber
        /\ Dealt.rules = table.rules /\ Dealt.deckRoot = table.deckRoot
    BY <2>1, DealtTyped
  <2>5. /\ DueCards \in 1..5 /\ Len(table.board) < DueCards /\ Len(table.board) \in Nat
        /\ Wanted(table) = SubSeq(cards, Len(table.board) + 1, DueCards)
    <3>1. table \in TableType /\ Len(table.board) < 5
      BY <2>1, <2>2, TableFields DEF BoardOK
    <3> QED
      BY <2>1, <3>1, DueIs, TableNumbers
  <2>6. Len(shown) = DueCards
    <3>1. PICK k, n \in 0..5 : /\ k <= n /\ k <= Len(shown) /\ n = DueCards
                               /\ dealer[d].wanted = SubSeq(cards, k + 1, n)
      BY <1>3, <2>1 DEF WantsOK
    <3>2. SubSeq(cards, k + 1, n) = <<>> <=> k = n
      <4>1. k \in 0..5 /\ n \in 0..5 /\ k <= n /\ cards \in Seq(Nat) /\ Len(cards) = 5
        BY <2>3, <3>1
      <4> HIDE DEF cards
      <4> QED
        BY <4>1, PartOfBoard, Zenon
    <3>3. k = n
      BY <1>1, <3>1, <3>2
    <3>4. Len(shown) <= DueCards
      BY <2>2 DEF BoardOK
    <3> HIDE DEF shown, cards
    <3> QED
      BY <2>3, <2>5, <3>1, <3>3, <3>4
  <2> DEFINE k == Len(table.board)
             w == SubSeq(cards, k + 1, DueCards)
             board == table.board \o w
  <2>7. w \in Seq(Nat) /\ Len(w) = DueCards - k /\ \A i \in 1..(DueCards - k) : w[i] = cards[k + i]
    <3>0. k \in Nat /\ k < DueCards /\ DueCards \in 1..5
      BY <2>5
    <3> HIDE DEF cards, k
    <3>1. k \in 0..5 /\ DueCards \in 0..5 /\ k <= DueCards
      BY <3>0
    <3> QED
      BY ZenonT(60), <2>3, <3>1, PartOfBoard
  <2>8. table.board \in Seq(Nat) /\ Begins(table.board, cards)
    <3>1. table.board \in Seq(Nat) /\ IsPrefix(table.board, cards)
      BY <2>2, TableFields DEF BoardOK
    <3> HIDE DEF cards
    <3> QED
      BY <2>3, <3>1, PrefixIs
  <2>9. board \in Seq(Nat) /\ Len(board) = DueCards /\ Begins(board, cards)
    <3>1. /\ board \in Seq(Nat) /\ Len(board) = Len(table.board) + Len(w)
          /\ \A i \in 1..(Len(table.board) + Len(w)) :
                board[i] = IF i <= Len(table.board) THEN table.board[i] ELSE w[i - Len(table.board)]
      <4> HIDE DEF w
      <4> QED
        BY <2>7, <2>8, ConcatProperties, Zenon
    <3> HIDE DEF w, board, cards
    <3>2. Len(board) = DueCards
      BY <2>5, <2>7, <3>1
    <3>3. ASSUME NEW i \in 1..DueCards PROVE cards[i] = board[i]
      <4>1. i \in 1..(Len(table.board) + Len(w))
        BY <3>1, <3>2
      <4>2. CASE i <= k
        <5>1. i \in 1..Len(table.board)
          BY <2>5, <4>2
        <5> QED
          BY <2>8, <3>1, <4>1, <5>1 DEF Begins
      <4>3. CASE ~(i <= k)
        <5>1. i - k \in 1..(DueCards - k) /\ k + (i - k) = i
          BY <2>5, <4>3
        <5>2. board[i] = w[i - k]
          BY <3>1, <4>1, <4>3
        <5> QED
          BY <2>7, <5>1, <5>2
      <4> QED
        BY <4>2, <4>3
    <3>4. Len(board) <= Len(cards)
      BY <2>3, <2>5, <3>2
    <3>5. \A i \in 1..Len(board) : cards[i] = board[i]
      BY <3>2, <3>3
    <3>6. Begins(board, cards)
      BY ONLY <3>4, <3>5 DEF Begins
    <3> QED
      BY <3>1, <3>2, <3>6
  <2>10. IsPrefix(board, cards)
    <3> HIDE DEF board, cards
    <3> QED
      BY <2>3, <2>9, PrefixIs
  <2>11. table'.betting \in {"SHOWDOWN", "BETTING"} /\ table'.board = board
    BY <1>3, <2>4, <2>5
  <2> HIDE DEF board, cards, w, k
  <2>12. DueCards' = DueCards
    BY <2>9, <2>11 DEF DueCards
  <2>13. TablePlays'
    <3>1. Hand(table.handNumber)' = Hand(table.handNumber)
      BY <1>3, <2>4 DEF Hand
    <3>2. BoardOK'
      <4>1. table'.rules = table.rules /\ table'.betting # "NONE" /\ table'.betting \notin Awaiting
        BY <1>3, <2>4, <2>11 DEF Awaiting
      <4>2. IsPrefix(table'.board, BoardPositions(table'.rules)) /\ Len(table'.board) <= Len(shown)
            /\ Len(shown) <= DueCards'
        BY <2>3, <2>5, <2>6, <2>9, <2>10, <2>11, <2>12, <4>1 DEF cards
      <4> QED
        BY <2>2, <3>1, <4>1, <4>2 DEF BoardOK
    <3> QED
      BY <1>3, <2>1, <2>2, <2>4, <3>1, <3>2 DEF TablePlays, Active
  <2>14. HandsPlayed'
    BY <1>3, <2>1, <2>4 DEF PlayInv, HandsPlayed, Active, Hand
  <2>15. dealer'[d] = [pc |-> "advance"] /\ \A e \in Dealers : e # d => dealer'[e] = dealer[e]
    BY <1>3, RunTo
  <2>16. \A e \in Dealers : RunPlays(e)'
    <3>1. /\ table'.version = table.version + 1 /\ table'.handNumber \in Nat
          /\ table.handNumber <= table'.handNumber /\ table'.rules = table.rules
          /\ DueCards' \in Nat /\ DueCards <= DueCards'
      BY <1>3, <2>4, <2>12, TableNumbers
    <3> TAKE e \in Dealers
    <3>2. CASE e = d
      BY <2>15, <3>2, NotViewing DEF Viewing
    <3>3. CASE e # d
      BY <1>3, <2>1, <2>15, <3>1, <3>3, RunFallsBehind
    <3> QED
      BY <3>2, <3>3
  <2> QED
    BY <2>13, <2>14, <2>16 DEF PlayInv
<1>4. ASSUME Fail(d) PROVE UNCHANGED <<table, transcript>>
  BY <1>4 DEF Fail
<1> QED
  BY <1>2, <1>3, <1>4, DealSteps

LEMMA StartPlay ==
  ASSUME TypesInv, PlayInv, NEW d \in Dealers, StartHand(d)
  PROVE  PlayInv'
<1>1. At(d, "start") /\ dealer[d].pc \in Logging /\ RunPlays(d)
  BY StartSteps DEF PlayInv, At, Logging
<1>2. CASE UNCHANGED <<table, transcript>> /\ (Fail(d) \/ dealer' = [dealer EXCEPT ![d] = [pc |-> "advance"]])
  <2>1. dealer'[d].pc \in {"failed", "advance"} /\ \A e \in Dealers : e # d => dealer'[e] = dealer[e]
    <3>1. CASE Fail(d)
      BY <3>1, GotoIs DEF Fail
    <3>2. CASE dealer' = [dealer EXCEPT ![d] = [pc |-> "advance"]]
      <4>1. dealer'[d] = [pc |-> "advance"] /\ \A e \in Dealers : e # d => dealer'[e] = dealer[e]
        BY <3>2, RunTo
      <4> QED
        BY <4>1
    <3> QED
      BY <1>2, <3>1, <3>2
  <2> QED
    BY <1>2, <2>1, QuietPlay, NotViewing DEF Viewing
<1>3. CASE /\ table.version = dealer[d].view
           /\ Cardinality(table.active) >= 2 /\ table.handNumber + 1 = Id(d)
           /\ \E betting \in {"BETTING", "AWAITING_RUNOUT"} :
                 table' = Started(d, NextHandSetup(table), betting)
           /\ dealer' = [dealer EXCEPT ![d] = [pc |-> "advance"]]
           /\ UNCHANGED <<transcript, redis, scheduled>>
  <2>1. PICK betting \in {"BETTING", "AWAITING_RUNOUT"} :
            table' = Started(d, NextHandSetup(table), betting)
    BY <1>3
  <2>2. ~Active /\ Has(Read(d), "DECK_COMMITTED")
    BY <1>1, <1>3 DEF RunPlays, At
  <2>3. /\ NextHandSetup(table).handId = table.handNumber + 1
        /\ NextHandSetup(table).rules \in Rules
    BY <1>3, TableFields, SetupOK
  <2>4. /\ table'.version = table.version + 1 /\ table'.status = "HAND_ACTIVE"
        /\ table'.handNumber = table.handNumber + 1 /\ table'.rules \in Rules
        /\ table'.deckRoot = Seen(d).deckRoot /\ table'.board = <<>> /\ table'.betting = betting
    <3> DEFINE setup == NextHandSetup(table)
    <3>1. setup.handId = table.handNumber + 1 /\ setup.rules \in Rules
      BY <2>3
    <3> HIDE DEF setup
    <3>2. table \in TableType
      BY TableFields
    <3>3. table' = Started(d, setup, betting)
      BY <2>1 DEF setup
    <3> QED
      BY <3>1, <3>2, <3>3 DEF Started, TableType
  <2> DEFINE h == table.handNumber + 1
  <2>5. h \in Hands /\ h = Id(d) /\ h > table.handNumber /\ table.handNumber \in Nat
    BY <1>1, <1>3, SeenPart, TableNumbers
  <2>6. Has(transcript[h], "DECK_COMMITTED") /\ Seen(d).deckRoot = Hand(h).deckRoot
    <3>1. /\ Read(d) \in Seq(Event) /\ Log(d) \in Seq(Event) /\ Begins(Read(d), Log(d))
          /\ Seen(d) = ReduceHand(Read(d)) /\ Hand(Id(d)) = ReduceHand(Log(d))
      BY <1>1, SeenPart
    <3>2. Has(Log(d), "DECK_COMMITTED") /\ ReduceHand(Log(d)).deckRoot = ReduceHand(Read(d)).deckRoot
      BY <2>2, <3>1, HandStays
    <3> QED
      BY <2>5, <3>1, <3>2 DEF Log
  <2>7. Hand(h).publicPositions = <<>>
    BY <2>5 DEF PlayInv, HandsPlayed
  <2> HIDE DEF h
  <2>8. table'.handNumber = h
    BY <2>4 DEF h
  <2>9. Hand(table.handNumber)' = Hand(h) /\ transcript' = transcript
    BY <1>3, <2>8 DEF Hand
  <2>10. BoardOK'
    <3>1. DueCards' \in 0..5 /\ (table'.betting \in Awaiting => Len(table'.board) < 5)
          /\ Len(table'.board) = 0
      <4>1. Len(table'.board) = 0
        BY <2>4
      <4>2. DueCards' = IF betting = "AWAITING_RUNOUT" THEN 5 ELSE Len(table'.board)
        BY <2>4 DEF DueCards
      <4> QED
        BY <4>1, <4>2
    <3>2. BoardPositions(table'.rules) \in Seq(Nat) /\ <<>> \in Seq(Nat)
      BY <2>4, BoardDiffers
    <3>3. Begins(<<>>, BoardPositions(table'.rules))
      BY <3>2 DEF Begins
    <3>4. IsPrefix(<<>>, BoardPositions(table'.rules))
      BY <3>2, <3>3, PrefixIs
    <3> QED
      BY <2>4, <2>7, <2>9, <3>1, <3>4 DEF BoardOK
  <2>11. TablePlays'
    BY <2>4, <2>5, <2>6, <2>8, <2>9, <2>10 DEF TablePlays, Active
  <2>12. HandsPlayed'
    <3>1. \A k \in 1..h : k < h => k \in 1..table.handNumber
      BY <2>5 DEF h
    <3>2. \A k \in Hands : k > h => k > table.handNumber
      BY <2>5 DEF h, Hands
    <3>3. \A k \in 1..table.handNumber : Has(transcript[k], "HAND_COMPLETED")
      BY <2>2 DEF PlayInv, HandsPlayed
    <3>4. Active'
      BY <2>4 DEF Active
    <3> QED
      BY <2>8, <2>9, <3>1, <3>2, <3>3, <3>4 DEF PlayInv, HandsPlayed, Hand
  <2>13. dealer'[d] = [pc |-> "advance"] /\ \A e \in Dealers : e # d => dealer'[e] = dealer[e]
    BY <1>3, RunTo
  <2>14. \A e \in Dealers : RunPlays(e)'
    <3>1. /\ table'.version = table.version + 1 /\ table'.handNumber \in Nat
          /\ table.handNumber <= table'.handNumber /\ table'.handNumber # table.handNumber
      BY <2>4, TableNumbers
    <3> TAKE e \in Dealers
    <3>2. CASE e = d
      BY <2>13, <3>2, NotViewing DEF Viewing
    <3>3. CASE e # d
      BY <2>9, <2>13, <3>1, <3>3, RunFallsBehind
    <3> QED
      BY <3>2, <3>3
  <2> QED
    BY <2>11, <2>12, <2>14 DEF PlayInv
<1> QED
  BY <1>2, <1>3, StartSteps DEF Fail

LEMMA FinishPlay ==
  ASSUME TypesInv, PlayInv, NEW d \in Dealers, FinishHand(d)
  PROVE  PlayInv'
<1>1. At(d, "finish") /\ RunPlays(d)
  BY FinishSteps DEF PlayInv
<1>2. CASE UNCHANGED <<table, transcript>> /\ (Fail(d) \/ dealer' = [dealer EXCEPT ![d] = [pc |-> "release"]])
  <2>1. dealer'[d].pc \in {"failed", "release"} /\ \A e \in Dealers : e # d => dealer'[e] = dealer[e]
    <3>1. CASE Fail(d)
      BY <3>1, GotoIs DEF Fail
    <3>2. CASE dealer' = [dealer EXCEPT ![d] = [pc |-> "release"]]
      <4>1. dealer'[d] = [pc |-> "release"] /\ \A e \in Dealers : e # d => dealer'[e] = dealer[e]
        BY <3>2, RunTo
      <4> QED
        BY <4>1
    <3> QED
      BY <1>2, <3>1, <3>2
  <2> QED
    BY <1>2, <2>1, QuietPlay, NotViewing DEF Viewing
<1>3. CASE /\ table.version = dealer[d].view
           /\ \E gone \in SUBSET table.players : table' = Finished(gone)
           /\ dealer' = [dealer EXCEPT ![d] = [pc |-> "release"]]
           /\ UNCHANGED <<transcript, redis>>
  <2>1. Active /\ Has(transcript[table.handNumber], "HAND_COMPLETED")
    BY <1>1, <1>3 DEF RunPlays, At
  <2>2. /\ table'.version = table.version + 1 /\ table'.status = "WAITING"
        /\ table'.handNumber = table.handNumber
    BY <1>3, FinishedTyped
  <2>3. ~Active'
    BY <2>2 DEF Active
  <2>4. TablePlays'
    BY <2>3 DEF TablePlays
  <2>5. HandsPlayed'
    <3>1. \A k \in 1..table.handNumber : k < table.handNumber \/ k = table.handNumber
      BY TableNumbers
    <3>2. HandsPlayed /\ transcript' = transcript /\ \A k : Hand(k)' = Hand(k)
      BY <1>3 DEF PlayInv, Hand
    <3> QED
      BY <2>1, <2>2, <3>1, <3>2 DEF HandsPlayed
  <2>6. dealer'[d] = [pc |-> "release"] /\ \A e \in Dealers : e # d => dealer'[e] = dealer[e]
    BY <1>3, RunTo
  <2>7. \A e \in Dealers : RunPlays(e)'
    <3>1. /\ table'.version = table.version + 1 /\ table'.handNumber \in Nat
          /\ table.handNumber <= table'.handNumber /\ table'.status # "HAND_ACTIVE"
      BY <2>2, TableNumbers
    <3> TAKE e \in Dealers
    <3>2. CASE e = d
      BY <2>6, <3>2, NotViewing DEF Viewing
    <3>3. CASE e # d
      BY <1>3, <2>6, <3>1, <3>3, RunFallsBehind
    <3> QED
      BY <3>2, <3>3
  <2> QED
    BY <2>4, <2>5, <2>7 DEF PlayInv
<1> QED
  BY <1>2, <1>3, FinishSteps DEF Fail

LEMMA PlayInit == ASSUME Init PROVE PlayInv
<1>1. /\ table.status = "WAITING" /\ table.handNumber = 0
      /\ transcript = [h \in Hands |-> <<>>] /\ dealer = [d \in Dealers |-> Idle]
  BY DEF Init, Hands
<1>2. \A d \in Dealers : RunPlays(d)
  <2>1. Idle.pc = "idle"
    BY DEF Idle
  <2> QED
    BY <1>1, <2>1 DEF RunPlays, Viewing
<1>3. \A h \in Hands : ~Has(transcript[h], "HAND_COMPLETED") /\ Hand(h).publicPositions = <<>>
  <2> TAKE h \in Hands
  <2>1. transcript[h] = <<>> /\ <<>> \in Seq(Event)
    BY <1>1
  <2>2. ReduceHand(<<>>).publicPositions = <<>>
    BY <2>1, Fields, RevealedEmpty
  <2> QED
    BY <2>1, <2>2 DEF Has, Hand
<1>4. \A h \in 1..0 : FALSE
  OBVIOUS
<1> QED
  BY <1>1, <1>2, <1>3, <1>4 DEF PlayInv, TablePlays, HandsPlayed, Active

LEMMA PlayNext ==
  ASSUME TypesInv, PlayInv, Next
  PROVE  PlayInv'
<1>1. CASE \E p \in Players : Return(p) \/ Go(p) \/ \E d \in Dealers : Seat(p, d)
  BY <1>1, SeatPlay
<1>2. CASE Expire
  BY <1>2, StillPlay DEF Expire
<1>3. ASSUME NEW d \in Dealers, Act(d) \/ RunStep(d) \/ Crash(d) \/ Fault(d) PROVE PlayInv'
  <2>1. CASE Act(d)
    BY <2>1, ActPlay
  <2>2. CASE Acquire(d) \/ ReadTable(d) \/ Release(d) \/ Crash(d) \/ Fault(d)
    BY <2>2, LockPlay
  <2>3. CASE Prepares(d)
    BY <2>3, PreparePlay
  <2>4. CASE ReadForStart(d) \/ StartHand(d) \/ Advance(d) \/ RevealPublicCard(d)
    BY <2>4, ReadForStartPlay, StartPlay, AdvancePlay, RevealPlay
  <2>5. CASE DealBoard(d) \/ CompleteHand(d) \/ FinishHand(d)
    BY <2>5, DealPlay, CompletePlay, FinishPlay
  <2> QED
    BY <1>3, <2>1, <2>2, <2>3, <2>4, <2>5 DEF RunStep, Prepares
<1>4. CASE \E a \in announcing : Announce(a)
  BY <1>4, StillPlay DEF Announce
<1> QED
  BY <1>1, <1>2, <1>3, <1>4 DEF Next

\* The table plays the deck and the cards of the transcript, of whatever runs
\* and faults: Dealer's TableFollowsTranscript, for all of its constants.
LEMMA PlayImplies ==
  ASSUME TypesInv, PlayInv
  PROVE  TableFollowsTranscript
<1>1. ASSUME Active
      PROVE  LET hand == Hand(table.handNumber)
             IN  /\ hand.status \in {"DEALING", "COMPLETE"}
                 /\ table.deckRoot = hand.deckRoot
                 /\ IsPrefix(table.board, hand.publicPositions)
                 /\ Len(hand.publicPositions) <= DueCards
  <2> DEFINE shown == Hand(table.handNumber).publicPositions
             cards == BoardPositions(table.rules)
  <2>1. TablePlays /\ BoardOK /\ table.handNumber \in Hands
    BY <1>1, TableNumbers DEF PlayInv, TablePlays
  <2>2. transcript[table.handNumber] \in Seq(Event) /\ Has(transcript[table.handNumber], "DECK_COMMITTED")
    BY <1>1, <2>1 DEF TypesInv, TablePlays
  <2>3. Hand(table.handNumber).status \in {"DEALING", "COMPLETE"}
    BY <2>2, Status DEF Hand
  <2>4. cards \in Seq(Nat) /\ shown \in Seq(Nat) /\ table.board \in Seq(Nat)
    BY <2>1, BoardDiffers, ShownTyped, TableFields DEF BoardOK
  <2>5. IsPrefix(table.board, cards) /\ IsPrefix(shown, cards) /\ Len(table.board) <= Len(shown)
        /\ Len(shown) <= DueCards
    BY <2>1 DEF BoardOK
  <2> HIDE DEF cards, shown
  <2>6. Begins(table.board, shown)
    <3>1. Begins(table.board, cards) /\ Begins(shown, cards)
      BY <2>4, <2>5, PrefixIs
    <3> DEFINE k == Len(table.board)
               n == Len(shown)
    <3>2. k \in Nat /\ n \in Nat /\ k <= n
      BY <2>4, <2>5
    <3>3. (\A i \in 1..k : cards[i] = table.board[i]) /\ (\A i \in 1..n : cards[i] = shown[i])
      BY <3>1 DEF Begins
    <3>4. \A i \in 1..k : shown[i] = table.board[i]
      <4> HIDE DEF k, n
      <4> QED
        BY <3>2, <3>3
    <3> QED
      BY <3>2, <3>4 DEF Begins
  <2>7. IsPrefix(table.board, shown)
    BY <2>4, <2>6, PrefixIs
  <2> QED
    BY <1>1, <2>1, <2>3, <2>5, <2>7 DEF TablePlays, shown
<1>2. ASSUME NEW h \in 1..table.handNumber, h < table.handNumber \/ table.status = "WAITING"
      PROVE  Hand(h).status = "COMPLETE"
  <2>1. h \in Hands
    BY TableFields, BoundsAssumption DEF Hands
  <2>2. Has(transcript[h], "HAND_COMPLETED")
    BY <1>2 DEF PlayInv, HandsPlayed, Active
  <2> QED
    BY <2>1, <2>2, Status DEF TypesInv, Hand
<1> QED
  BY <1>1, <1>2 DEF TableFollowsTranscript, Active

LEMMA PlayStutters ==
  ASSUME TypesInv, PlayInv, UNCHANGED vars
  PROVE  TypesInv' /\ PlayInv'
<1>1. UNCHANGED <<table, transcript, dealer, preparation, committed, scheduled, doubted, reseated, unannounced>>
  BY DEF vars, redis, bounds
<1>3. TypesInv'
  <2>1. table' \in TableType /\ table'.dealtAt < table'.version /\ UNCHANGED <<transcript, redis, dealer>>
    BY <1>1, TableFields DEF redis
  <2>2. /\ scheduled' \subseteq Dealers /\ doubted' \in BOOLEAN /\ reseated' \in BOOLEAN
        /\ unannounced' \subseteq Players \cup {0}
    BY <1>1 DEF TypesInv
  <2> QED
    BY <2>1, <2>2, TableTypes
<1>4. \A d \in Dealers : RunPlays(d)'
  <2> TAKE d \in Dealers
  <2>1. RunPlays(d)
    BY DEF PlayInv
  <2> QED
    BY <1>1, <2>1 DEF RunPlays, WantsOK, Id, Read, Log, Hand, DueCards, Active
<1>5. TablePlays' /\ HandsPlayed'
  BY <1>1 DEF PlayInv, TablePlays, BoardOK, HandsPlayed, DueCards, Active, Hand
<1> QED
  BY <1>3, <1>4, <1>5 DEF PlayInv

\* What a run, the table, the transcripts and Redis hold, in every reachable state.
THEOREM DealerTypes == Spec => [](TypesInv /\ AnnouncedTypes /\ PlayInv)
<1>1. Init => TypesInv /\ AnnouncedTypes /\ PlayInv
  BY TypesInit, PlayInit DEF Init, AnnouncedTypes
<1>2. TypesInv /\ AnnouncedTypes /\ PlayInv /\ [Next]_vars => (TypesInv /\ AnnouncedTypes /\ PlayInv)'
  <2> SUFFICES ASSUME TypesInv, AnnouncedTypes, PlayInv, [Next]_vars
               PROVE  (TypesInv /\ AnnouncedTypes /\ PlayInv)'
    OBVIOUS
  <2>1. TypesInv' /\ PlayInv'
    BY TypesNext, PlayNext, PlayStutters
  <2> QED
    BY <2>1, AnnouncedNext
<1> QED
  BY <1>1, <1>2, PTL DEF Spec

\* The table plays the deck that is committed in the transcript, shows no card
\* before the transcript revealed it, and finishes only completed hands.
THEOREM TranscriptIsFollowed == Spec => []TableFollowsTranscript
BY DealerTypes, PlayImplies, PTL

LEMMA RevealGoes ==
  ASSUME TypesInv, NEW d \in Dealers, RevealPublicCard(d)
  PROVE  /\ dealer[d].pc = "reveal" /\ dealer'[d].pc \in {"reveal", "failed"}
         /\ \A e \in Dealers : e # d => dealer'[e] = dealer[e]
         /\ UNCHANGED redis /\ Keep
         /\ \/ UNCHANGED transcript
            \/ \E h, e : h \in Hands /\ Allowed(h, e) /\ Append1(h, e) /\ e.type = "PUBLIC_CARD_REVEALED"
<1> SUFFICES ASSUME NEW h \in Hands, h = Id(d)
             PROVE  /\ dealer[d].pc = "reveal" /\ dealer'[d].pc \in {"reveal", "failed"}
                    /\ \A e \in Dealers : e # d => dealer'[e] = dealer[e]
                    /\ UNCHANGED redis /\ Keep
                    /\ \/ UNCHANGED transcript
                       \/ \E e : Allowed(h, e) /\ Append1(h, e) /\ e.type = "PUBLIC_CARD_REVEALED"
  BY RevealSteps, Zenon
<1> DEFINE event == [type |-> "PUBLIC_CARD_REVEALED", position |-> Head(dealer[d].wanted)]
<1>1. At(d, "reveal") /\ dealer[d].wanted # <<>> /\ UNCHANGED redis /\ Keep
  BY RevealSteps
<1>2. CASE Goto(d, "failed") /\ UNCHANGED transcript
  BY <1>1, <1>2, GotoIs DEF At
<1>3. ASSUME transcript' \in [Hands -> Seq(Event)],
             dealer' = [dealer EXCEPT ![d].wanted = Tail(@), ![d].seen = Len(transcript'[h])]
      PROVE  dealer'[d].pc = "reveal" /\ \A e \in Dealers : e # d => dealer'[e] = dealer[e]
  <2>1. /\ dealer'[d] = [pc |-> "reveal", setup |-> dealer[d].setup,
                         seen |-> Len(transcript'[h]), view |-> dealer[d].view,
                         wanted |-> Tail(dealer[d].wanted)]
        /\ dealer' = [dealer EXCEPT ![d] = dealer'[d]]
    BY <1>1, <1>3, RevealedRun
  <2> QED
    BY <2>1, RunTo
<1>4. CASE /\ UNCHANGED transcript
           /\ dealer' = [dealer EXCEPT ![d].wanted = Tail(@), ![d].seen = Len(transcript'[h])]
  <2>1. transcript' \in [Hands -> Seq(Event)]
    BY <1>4 DEF TypesInv
  <2> QED
    BY <1>1, <1>3, <1>4, <2>1 DEF At
<1>5. CASE /\ Allowed(h, event) /\ Append1(h, event)
           /\ dealer' = [dealer EXCEPT ![d].wanted = Tail(@), ![d].seen = Len(transcript'[h])]
  <2>1. event.type = "PUBLIC_CARD_REVEALED"
    OBVIOUS
  <2> HIDE DEF event
  <2>2. transcript' \in [Hands -> Seq(Event)]
    BY <1>1, <1>5, LogSteps
  <2> QED
    BY <1>1, <1>3, <1>5, <2>1, <2>2 DEF At
<1> QED
  BY <1>2, <1>4, <1>5, RevealSteps

\* Where a run that deals a hand goes, and what it changes.
LEMMA DealingSteps ==
  ASSUME TypesInv, NEW d \in Dealers,
         \/ ReadForStart(d) \/ StartHand(d) \/ Advance(d) \/ RevealPublicCard(d)
         \/ DealBoard(d) \/ CompleteHand(d) \/ FinishHand(d)
  PROVE  /\ dealer[d].pc \in {"hand", "start", "advance", "reveal", "complete", "finish"}
         /\ dealer'[d].pc \in {"start", "advance", "release", "reveal", "complete", "finish", "failed"}
         /\ dealer'[d].pc = "start" => dealer[d].pc = "hand" /\ dealer'[d].setup = dealer[d].setup
         /\ \A e \in Dealers : e # d => dealer'[e] = dealer[e]
         /\ UNCHANGED <<redis, lock, bounds>>
         /\ \/ UNCHANGED transcript
            \/ \E h, e : /\ h \in Hands /\ Allowed(h, e) /\ Append1(h, e)
                         /\ e.type \in {"PUBLIC_CARD_REVEALED", "HAND_COMPLETED"}
<1>1. CASE ReadForStart(d)
  <2> DEFINE call == IF Seen(d).status = "DEALING" /\ table.status = "WAITING"
                     THEN [pc |-> "start", setup |-> dealer[d].setup, seen |-> dealer[d].seen, view |-> table.version]
                     ELSE [pc |-> "advance"]
  <2>1. At(d, "hand") /\ dealer' = [dealer EXCEPT ![d] = call] /\ UNCHANGED <<transcript, redis>> /\ Keep
    BY <1>1 DEF ReadForStart
  <2>2. call.pc \in {"start", "advance"} /\ (call.pc = "start" => call.setup = dealer[d].setup)
    OBVIOUS
  <2> HIDE DEF call
  <2>3. dealer'[d] = call /\ \A e \in Dealers : e # d => dealer'[e] = dealer[e]
    BY <2>1, RunTo
  <2> QED
    BY <2>1, <2>2, <2>3 DEF At, Keep
<1>2. CASE StartHand(d)
  <2>1. At(d, "start") /\ Keep /\ UNCHANGED <<transcript, redis>>
        /\ (Goto(d, "failed") \/ dealer' = [dealer EXCEPT ![d] = [pc |-> "advance"]])
    BY <1>2, StartSteps DEF Fail
  <2>2. dealer'[d].pc \in {"failed", "advance"} /\ \A e \in Dealers : e # d => dealer'[e] = dealer[e]
    BY <2>1, GotoIs, RunTo
  <2> QED
    BY <2>1, <2>2 DEF At, Keep
<1>3. CASE Advance(d)
  <2> DEFINE ends == table.betting \in {"COMPLETE", "SHOWDOWN"}
             call == IF table.status # "HAND_ACTIVE" \/ table.betting = "BETTING" THEN [pc |-> "release"]
                     ELSE [pc |-> IF ends THEN "complete" ELSE "reveal",
                           setup |-> [handId |-> table.handNumber],
                           seen |-> Len(transcript[table.handNumber]), view |-> table.version,
                           wanted |-> IF ends THEN <<>> ELSE Wanted(table)]
  <2>1. At(d, "advance") /\ dealer' = [dealer EXCEPT ![d] = call]
        /\ UNCHANGED <<transcript, redis, lock, bounds>>
    BY <1>3 DEF Advance
  <2>2. call.pc \in {"release", "complete", "reveal"}
    OBVIOUS
  <2> HIDE DEF call
  <2>3. dealer'[d] = call /\ \A e \in Dealers : e # d => dealer'[e] = dealer[e]
    BY <2>1, RunTo
  <2> QED
    BY <2>1, <2>2, <2>3 DEF At, Keep
<1>4. CASE RevealPublicCard(d)
  BY <1>4, RevealGoes DEF Keep
<1>5. CASE DealBoard(d)
  <2>1. At(d, "reveal") /\ Keep /\ UNCHANGED <<transcript, redis>>
        /\ (Goto(d, "failed") \/ dealer' = [dealer EXCEPT ![d] = [pc |-> "advance"]])
    BY <1>5, DealSteps DEF Fail
  <2>2. dealer'[d].pc \in {"failed", "advance"} /\ \A e \in Dealers : e # d => dealer'[e] = dealer[e]
    BY <2>1, GotoIs, RunTo
  <2> QED
    BY <2>1, <2>2 DEF At, Keep
<1>6. CASE CompleteHand(d)
  <2> SUFFICES ASSUME NEW h \in Hands, h = Id(d)
               PROVE  /\ dealer[d].pc = "complete" /\ dealer'[d].pc \in {"finish", "failed"}
                      /\ \A e \in Dealers : e # d => dealer'[e] = dealer[e]
                      /\ UNCHANGED <<redis, lock, bounds>>
                      /\ \/ UNCHANGED transcript
                         \/ \E e : Allowed(h, e) /\ Append1(h, e) /\ e.type = "HAND_COMPLETED"
    BY <1>6, CompleteSteps, Zenon
  <2> DEFINE event == [type |-> "HAND_COMPLETED"]
             call == [pc |-> "finish", view |-> dealer[d].view, bundle |-> AuditBundle(committed[h])]
  <2>1. At(d, "complete") /\ UNCHANGED <<redis, lock, bounds>>
    BY <1>6, CompleteSteps DEF Fail, Keep
  <2>2. event.type = "HAND_COMPLETED" /\ call.pc = "finish"
    OBVIOUS
  <2>3. CASE Fail(d)
    BY <2>1, <2>3, GotoIs DEF Fail, At
  <2>4. CASE /\ dealer' = [dealer EXCEPT ![d] = call]
             /\ UNCHANGED transcript \/ (Allowed(h, event) /\ Append1(h, event))
    <3> HIDE DEF call, event
    <3>1. dealer'[d] = call /\ \A e \in Dealers : e # d => dealer'[e] = dealer[e]
      BY <2>4, RunTo
    <3> QED
      BY <2>1, <2>2, <2>4, <3>1 DEF At
  <2> QED
    BY <1>6, <2>3, <2>4, CompleteSteps
<1>7. CASE FinishHand(d)
  <2>1. At(d, "finish") /\ Keep /\ UNCHANGED <<transcript, redis>>
        /\ (Goto(d, "failed") \/ dealer' = [dealer EXCEPT ![d] = [pc |-> "release"]])
    BY <1>7, FinishSteps DEF Fail
  <2>2. dealer'[d].pc \in {"failed", "release"} /\ \A e \in Dealers : e # d => dealer'[e] = dealer[e]
    BY <2>1, GotoIs, RunTo
  <2> QED
    BY <2>1, <2>2 DEF At, Keep
<1> QED
  BY <1>1, <1>2, <1>3, <1>4, <1>5, <1>6, <1>7

LEMMA ReadTableGoes ==
  ASSUME TypesInv, NEW d \in Dealers, ReadTable(d)
  PROVE  /\ \A e \in Dealers : e # d => dealer'[e] = dealer[e]
         /\ dealer'[d] = IF Active THEN [pc |-> "advance"]
                         ELSE IF Cardinality(table.active) < 2 \/ table.handNumber = MaxHands
                              THEN [pc |-> "release"]
                              ELSE [pc |-> "prepare", setup |-> NextHandSetup(table)]
         /\ dealer'[d].pc \in {"advance", "release", "prepare"}
<1> DEFINE call == IF Active THEN [pc |-> "advance"]
                   ELSE IF Cardinality(table.active) < 2 \/ table.handNumber = MaxHands
                        THEN [pc |-> "release"]
                        ELSE [pc |-> "prepare", setup |-> NextHandSetup(table)]
<1>1. dealer' = [dealer EXCEPT ![d] = call]
  BY DEF ReadTable, Active
<1>2. call.pc \in {"advance", "release", "prepare"}
  OBVIOUS
<1>3. dealer'[d] = call /\ \A e \in Dealers : e # d => dealer'[e] = dealer[e]
  <2> HIDE DEF call
  <2> QED
    BY <1>1, RunTo
<1> QED
  BY <1>2, <1>3

----------------------------------------------------------------------------
(* The secret of a deck *)

LEMMA DealingIs ==
  ASSUME TypesInv, NEW h \in Hands
  PROVE  Hand(h).status = "DEALING" <=> Dealing(h)
<1>1. transcript[h] \in Seq(Event)
  BY DEF TypesInv
<1> QED
  BY <1>1, Status DEF Hand, Dealing

\* One run goes on, the only one there is.
LEMMA SecretFrom ==
  ASSUME TypesInv, SecretHeld, NEW d \in Dealers, ~At(d, "idle"), lock' = lock,
         \A e \in Dealers : e # d => dealer'[e] = dealer[e],
         \A h \in Hands : Dealing(h)' => committed'[h] # NoDeck,
         Kept(d)'
  PROVE  SecretHeld'
<1>1. lock = d
  BY DEF SecretHeld
<1>2. ASSUME NEW e \in Dealers, e # d PROVE dealer'[e].pc = "idle"
  BY <1>1, <1>2 DEF SecretHeld, At
<1> QED
  BY <1>1, <1>2 DEF SecretHeld, Kept, At

\* Most of what a run does is of no concern to the secret.
LEMMA SecretQuiet ==
  ASSUME TypesInv, SecretHeld, NEW d \in Dealers, ~At(d, "idle"), lock' = lock,
         \A e \in Dealers : e # d => dealer'[e] = dealer[e],
         dealer'[d].pc \notin {"find", "append", "undo"},
         UNCHANGED committed,
         \/ UNCHANGED transcript
         \/ /\ UNCHANGED redis
            /\ \E h, e : h \in Hands /\ Allowed(h, e) /\ Append1(h, e) /\ e.type # "DECK_COMMITTED"
  PROVE  SecretHeld'
<1>1. ASSUME NEW h \in Hands, Dealing(h)' PROVE Dealing(h)
  <2>1. CASE UNCHANGED transcript
    BY <1>1, <2>1 DEF Dealing
  <2>2. CASE /\ UNCHANGED redis
             /\ \E k, e : k \in Hands /\ Allowed(k, e) /\ Append1(k, e) /\ e.type # "DECK_COMMITTED"
    <3>1. PICK k, e : k \in Hands /\ Allowed(k, e) /\ Append1(k, e) /\ e.type # "DECK_COMMITTED"
      BY <2>2
    <3>2. Has(transcript'[h], "DECK_COMMITTED") => Has(transcript[h], "DECK_COMMITTED")
      BY <2>2, <3>1, LogSteps
    <3>3. Has(transcript[h], "HAND_COMPLETED") => Has(transcript'[h], "HAND_COMPLETED")
      BY <2>2, <3>1, LogSteps
    <3> QED
      BY <1>1, <3>2, <3>3 DEF Dealing
  <2> QED
    BY <2>1, <2>2
<1>2. \A h \in Hands : Dealing(h)' => committed'[h] # NoDeck
  BY <1>1 DEF SecretHeld
<1>3. Kept(d)'
  BY DEF Kept
<1> QED
  BY <1>2, <1>3, SecretFrom

\* Nobody is left who runs.
LEMMA SecretRests ==
  ASSUME TypesInv, SecretHeld, UNCHANGED <<transcript, committed>>,
         \A e \in Dealers : dealer'[e].pc \in {"idle", "run"} /\ (dealer'[e].pc = "run" => lock' = e)
  PROVE  SecretHeld'
<1>1. \A h \in Hands : Dealing(h)' => committed'[h] # NoDeck
  BY DEF SecretHeld, Dealing
<1> QED
  BY <1>1 DEF SecretHeld, Kept, At

LEMMA SecretLock ==
  ASSUME TypesInv, SecretHeld, ~doubted',
         \/ Expire
         \/ \E d \in Dealers : Acquire(d) \/ Release(d) \/ Crash(d)
  PROVE  SecretHeld'
<1>0. \A e \in Dealers : dealer[e].pc # "idle" => lock = e
  BY DEF SecretHeld, At
<1>1. CASE Expire
  <2>1. lock = Dead /\ UNCHANGED <<transcript, redis, dealer>>
    BY <1>1 DEF Expire
  <2>2. \A e \in Dealers : dealer'[e].pc = "idle"
    BY <1>0, <2>1, NamesAssumption
  <2> QED
    BY <2>1, <2>2, SecretRests DEF redis
<1>2. ASSUME NEW d \in Dealers, Acquire(d) PROVE SecretHeld'
  <2>1. lock = NoDealer /\ lock' = d /\ Goto(d, "run") /\ UNCHANGED <<transcript, redis>>
    BY <1>2 DEF Acquire
  <2>2. dealer'[d].pc = "run" /\ \A e \in Dealers : e # d => dealer'[e] = dealer[e]
    BY <2>1, GotoIs
  <2>3. \A e \in Dealers : dealer[e].pc = "idle"
    BY <1>0, <2>1, NamesAssumption
  <2> QED
    BY <2>1, <2>2, <2>3, SecretRests DEF redis
<1>3. ASSUME NEW d \in Dealers, Release(d) \/ Crash(d) PROVE SecretHeld'
  <2>1. /\ dealer' = [dealer EXCEPT ![d] = Idle] /\ UNCHANGED <<transcript, redis>>
        /\ lock = d \/ lock' = lock
    BY <1>3 DEF Release, Crash
  <2>2. dealer'[d] = Idle /\ \A e \in Dealers : e # d => dealer'[e] = dealer[e]
    BY <2>1, RunTo
  <2>3. Idle.pc = "idle"
    BY DEF Idle
  <2>4. CASE lock = d
    <3>1. \A e \in Dealers : e # d => dealer[e].pc = "idle"
      BY <1>0, <2>4
    <3> QED
      BY <2>1, <2>2, <2>3, <3>1, SecretRests DEF redis
  <2>5. CASE lock # d
    <3>1. \A h \in Hands : Dealing(h)' => committed'[h] # NoDeck
      BY <2>1 DEF SecretHeld, Dealing, redis
    <3>2. ASSUME NEW e \in Dealers PROVE Kept(e)' /\ (dealer'[e].pc # "idle" => lock' = e)
      <4>1. CASE e = d
        BY <2>2, <2>3, <4>1 DEF Kept
      <4>2. CASE e # d
        BY <1>0, <2>1, <2>2, <2>5, <4>2 DEF SecretHeld, Kept, Dealing, Id, redis
      <4> QED
        BY <4>1, <4>2
    <3> QED
      BY <3>1, <3>2 DEF SecretHeld, At
  <2> QED
    BY <2>4, <2>5
<1> QED
  BY <1>1, <1>2, <1>3

\* A run that stores, records or undoes a deck.
LEMMA SecretDeck ==
  ASSUME TypesInv, SecretHeld, ~doubted', NEW d \in Dealers,
         StoreDeck(d) \/ FindDeck(d) \/ AppendDeck(d) \/ UndoDeck(d)
  PROVE  SecretHeld'
<1> SUFFICES ASSUME NEW h \in Hands, h = Id(d) PROVE SecretHeld'
  BY PrepareSteps DEF Prepares
<1>1. /\ lock' = lock /\ ~At(d, "idle") /\ \A e \in Dealers : e # d => dealer'[e] = dealer[e]
  BY PrepareSteps DEF Prepares, At, Preparing
<1>2. Kept(d) /\ \A k \in Hands : Dealing(k) => committed[k] # NoDeck
  BY DEF SecretHeld
<1>3. ASSUME NEW log, Look(d, "hand", log) PROVE dealer'[d].pc = "hand"
  BY <1>3, LookPrepared
<1>4. ASSUME NEW pc \in {"append", "undo"}, Goto(d, pc), At(d, "find") \/ At(d, "append")
      PROVE  /\ dealer'[d].pc = pc /\ Id(d)' = h /\ dealer'[d].inserted = dealer[d].inserted
             /\ dealer[d].pc \in {"find", "append"}
  BY <1>4, GotoPrepared DEF At, Id
<1>5. ASSUME Goto(d, "failed") PROVE dealer'[d].pc = "failed"
  BY <1>5, GotoPrepared
<1>6. CASE StoreDeck(d)
  <2>1. UNCHANGED transcript
    BY <1>6, StoreSteps
  <2>2. CASE (Look(d, "hand", transcript[Id(d)]) \/ Goto(d, "failed")) /\ UNCHANGED committed
    BY <1>1, <1>3, <1>5, <2>1, <2>2, SecretQuiet
  <2>3. CASE /\ committed' = [committed EXCEPT ![Id(d)] = Deck(d)] /\ Deck(d) \in Decks
             /\ dealer'[d] = [pc |-> "find", setup |-> dealer[d].setup, seen |-> dealer[d].seen,
                              inserted |-> committed[Id(d)] = NoDeck]
    <3>1. /\ committed'[h] = Deck(d) /\ Deck(d) # NoDeck
          /\ \A k \in Hands : k # h => committed'[k] = committed[k]
      BY <2>3, NamesAssumption DEF TypesInv
    <3>2. \A k \in Hands : Dealing(k)' => committed'[k] # NoDeck
      BY <1>2, <2>1, <3>1 DEF Dealing
    <3>3. /\ dealer'[d].pc = "find" /\ Id(d)' = h
          /\ dealer'[d].inserted = (committed[h] = NoDeck)
      BY <2>3 DEF Id
    <3>4. Kept(d)'
      BY <1>2, <2>1, <3>1, <3>3 DEF Kept, Dealing
    <3> QED
      BY <1>1, <3>2, <3>4, SecretFrom
  <2> QED
    BY <1>6, <2>2, <2>3, StoreSteps
<1>7. CASE FindDeck(d)
  <2>1. At(d, "find") /\ UNCHANGED <<transcript, committed>>
        /\ (Look(d, "hand", transcript[Id(d)]) \/ Goto(d, "append"))
    BY <1>7 DEF FindDeck, redis
  <2>2. CASE Look(d, "hand", transcript[Id(d)])
    BY <1>1, <1>3, <2>1, <2>2, SecretQuiet
  <2>3. CASE Goto(d, "append")
    <3>1. /\ dealer'[d].pc = "append" /\ Id(d)' = h /\ dealer'[d].inserted = dealer[d].inserted
          /\ dealer[d].pc \in {"find", "append"}
      BY <1>4, <2>1, <2>3
    <3>2. Kept(d)' /\ \A k \in Hands : Dealing(k)' => committed'[k] # NoDeck
      BY <1>2, <2>1, <3>1 DEF Kept, Dealing
    <3> QED
      BY <1>1, <3>2, SecretFrom
  <2> QED
    BY <2>1, <2>2, <2>3
<1>8. CASE AppendDeck(d)
  <2>1. At(d, "append") /\ UNCHANGED redis
    BY <1>8 DEF AppendDeck
  <2>2. CASE Append1(Id(d), DeckEvent(d)) /\ Look(d, "hand", transcript'[Id(d)])
    <3> DEFINE event == DeckEvent(d)
    <3>1. Allowed(h, event) /\ event.type = "DECK_COMMITTED"
      BY <2>1, DeckAllowed DEF DeckEvent
    <3> HIDE DEF event
    <3>2. \A k \in Hands : k # h => transcript'[k] = transcript[k]
      BY <2>1, <2>2, <3>1, LogSteps DEF event
    <3>3. committed[h] # NoDeck
      BY <1>2, <2>1 DEF Kept, At
    <3>4. \A k \in Hands : Dealing(k)' => committed'[k] # NoDeck
      BY <1>2, <2>1, <3>2, <3>3 DEF Dealing, redis
    <3>5. Kept(d)'
      BY <1>3, <2>2 DEF Kept
    <3> QED
      BY <1>1, <3>4, <3>5, SecretFrom
  <2>3. CASE UNCHANGED transcript /\ Goto(d, "undo")
    <3>1. /\ dealer'[d].pc = "undo" /\ Id(d)' = h /\ dealer'[d].inserted = dealer[d].inserted
          /\ dealer[d].pc \in {"find", "append"}
      BY <1>4, <2>1, <2>3
    <3>2. Kept(d)' /\ \A k \in Hands : Dealing(k)' => committed'[k] # NoDeck
      BY <1>2, <2>1, <2>3, <3>1 DEF Kept, Dealing, redis
    <3> QED
      BY <1>1, <3>2, SecretFrom
  <2> QED
    BY <1>8, <2>2, <2>3 DEF AppendDeck
<1>9. CASE UndoDeck(d)
  <2>1. At(d, "undo") /\ UNCHANGED transcript /\ Goto(d, "failed")
        /\ committed' = [committed EXCEPT ![Id(d)] = IF dealer[d].inserted THEN NoDeck ELSE @]
    BY <1>9 DEF UndoDeck
  <2>2. \A k \in Hands : k # h \/ ~dealer[d].inserted => committed'[k] = committed[k]
    BY <2>1 DEF TypesInv
  <2>3. dealer[d].inserted => ~Dealing(h)
    BY <1>2, <2>1 DEF Kept, At
  <2>4. \A k \in Hands : Dealing(k)' => committed'[k] # NoDeck
    BY <1>2, <2>1, <2>2, <2>3 DEF Dealing
  <2>5. Kept(d)'
    BY <1>5, <2>1 DEF Kept
  <2> QED
    BY <1>1, <2>4, <2>5, SecretFrom
<1> QED
  BY <1>6, <1>7, <1>8, <1>9

LEMMA SecretNext ==
  ASSUME TypesInv, SecretHeld, ~doubted', Next
  PROVE  SecretHeld'
<1>1. ASSUME UNCHANGED <<transcript, redis, lock, dealer>> PROVE SecretHeld'
  BY <1>1 DEF SecretHeld, Dealing, Kept, At, Id, redis
<1>2. CASE \E p \in Players : Return(p) \/ Go(p) \/ \E d \in Dealers : Seat(p, d)
  BY <1>1, <1>2 DEF Return, Go, Seat
<1>3. CASE Expire
  BY <1>3, SecretLock
<1>4. CASE \E a \in announcing : Announce(a)
  BY <1>1, <1>4 DEF Announce
<1>5. ASSUME NEW d \in Dealers, Act(d) \/ RunStep(d) \/ Crash(d) \/ Fault(d) PROVE SecretHeld'
  <2>1. CASE Act(d)
    BY <1>1, <2>1 DEF Act
  <2>2. CASE Acquire(d) \/ Release(d) \/ Crash(d)
    BY <2>2, SecretLock
  <2>3. CASE StoreDeck(d) \/ FindDeck(d) \/ AppendDeck(d) \/ UndoDeck(d)
    BY <2>3, SecretDeck
  <2>4. CASE GetPreparation(d) \/ PutPreparation(d) \/ OpenHand(d) \/ SubmitPlayerCommitment(d) \/ ReserveBeacon(d)
    <3>1. /\ ~At(d, "idle") /\ lock' = lock /\ \A e \in Dealers : e # d => dealer'[e] = dealer[e]
      BY <2>4, PrepareSteps DEF Prepares, At, Preparing
    <3>2. CASE GetPreparation(d) \/ PutPreparation(d)
      <4>1. UNCHANGED <<transcript, committed>>
        BY <3>2 DEF GetPreparation, PutPreparation, Fail, redis
      <4>2. (Goto(d, "put") /\ At(d, "prepare")) \/ Goto(d, "failed") \/ Look(d, "hand", transcript[Id(d)])
        BY <3>2 DEF GetPreparation, PutPreparation, Fail
      <4>3. dealer'[d].pc \in {"put", "failed", "hand"}
        BY <4>2, GotoIs, LookPrepared
      <4> QED
        BY <3>1, <4>1, <4>3, SecretQuiet
    <3>3. CASE OpenHand(d) \/ SubmitPlayerCommitment(d) \/ ReserveBeacon(d)
      <4>1. /\ UNCHANGED redis
            /\ \/ UNCHANGED transcript
               \/ \E e : /\ Allowed(Id(d), e) /\ Append1(Id(d), e)
                         /\ e.type \in {"HAND_OPENED", "PLAYER_COMMITTED", "BEACON_RESERVED"}
            /\ Look(d, "hand", transcript[Id(d)]) \/ Look(d, "hand", transcript'[Id(d)]) \/ Goto(d, "failed")
        BY <3>3, RecordSteps DEF Fail
      <4>2. dealer'[d].pc \in {"hand", "failed"}
        BY <4>1, GotoIs, LookPrepared
      <4>3. Id(d) \in Hands
        BY <2>4, PrepareSteps DEF Prepares
      <4>4. \/ UNCHANGED transcript
            \/ \E h, e : h \in Hands /\ Allowed(h, e) /\ Append1(h, e) /\ e.type # "DECK_COMMITTED"
        BY <4>1, <4>3
      <4> QED
        BY <3>1, <4>1, <4>2, <4>4, SecretQuiet DEF redis
    <3> QED
      BY <2>4, <3>2, <3>3
  <2>5. CASE \/ ReadForStart(d) \/ StartHand(d) \/ Advance(d) \/ RevealPublicCard(d)
             \/ DealBoard(d) \/ CompleteHand(d) \/ FinishHand(d)
    <3>1. /\ ~At(d, "idle") /\ lock' = lock /\ \A e \in Dealers : e # d => dealer'[e] = dealer[e]
          /\ dealer'[d].pc \notin {"find", "append", "undo"} /\ UNCHANGED redis
      BY <2>5, DealingSteps DEF At
    <3>2. \/ UNCHANGED transcript
          \/ \E h, e : h \in Hands /\ Allowed(h, e) /\ Append1(h, e) /\ e.type # "DECK_COMMITTED"
      BY <2>5, DealingSteps
    <3> QED
      BY <3>1, <3>2, SecretQuiet DEF redis
  <2>6. CASE ReadTable(d)
    <3>1. At(d, "run") /\ UNCHANGED <<transcript, redis, lock>>
      BY <2>6 DEF ReadTable
    <3>2. /\ \A e \in Dealers : e # d => dealer'[e] = dealer[e]
          /\ dealer'[d].pc \in {"advance", "release", "prepare"}
      BY <2>6, ReadTableGoes
    <3> QED
      BY <3>1, <3>2, SecretQuiet DEF At, redis
  <2>7. CASE Fault(d)
    <3>1. /\ dealer[d].pc \notin {"idle", "release", "failed"} /\ UNCHANGED <<transcript, redis, lock>>
          /\ Goto(d, IF dealer[d].pc \in {"find", "append"} THEN "undo" ELSE "failed")
      BY <2>7 DEF Fault
    <3>2. \A e \in Dealers : e # d => dealer'[e] = dealer[e]
      BY <3>1, GotoIs
    <3>3. CASE dealer[d].pc \notin {"find", "append"}
      <4>1. dealer'[d].pc = "failed"
        BY <3>1, <3>3, GotoIs
      <4> QED
        BY <3>1, <3>2, <4>1, SecretQuiet DEF At, redis
    <3>4. CASE dealer[d].pc \in {"find", "append"}
      <4>1. dealer'[d].pc = "undo" /\ dealer'[d].inserted = dealer[d].inserted /\ Id(d)' = Id(d)
        BY <3>1, <3>4, GotoPrepared DEF Id
      <4>2. Kept(d)' /\ \A k \in Hands : Dealing(k)' => committed'[k] # NoDeck
        BY <3>1, <3>4, <4>1 DEF SecretHeld, Kept, Dealing, redis
      <4> QED
        BY <3>1, <3>2, <4>2, SecretFrom DEF At
    <3> QED
      BY <3>3, <3>4
  <2> QED
    BY <1>5, <2>1, <2>2, <2>3, <2>4, <2>5, <2>6, <2>7 DEF RunStep
<1> QED
  BY <1>2, <1>3, <1>4, <1>5 DEF Next

LEMMA DoubtStays ==
  ASSUME Next, ~doubted'
  PROVE  ~doubted
<1>1. ASSUME UNCHANGED bounds \/ doubted' = TRUE \/ UNCHANGED doubted PROVE ~doubted
  BY <1>1 DEF bounds
<1>2. CASE \E p \in Players : Return(p) \/ Go(p) \/ \E d \in Dealers : Seat(p, d)
  BY <1>1, <1>2 DEF Return, Go, Seat
<1>3. CASE Expire
  BY <1>1, <1>3 DEF Expire
<1>4. ASSUME NEW d \in Dealers, Act(d) \/ RunStep(d) \/ Crash(d) \/ Fault(d) PROVE ~doubted
  <2>1. CASE Act(d) \/ Crash(d) \/ Fault(d) \/ Acquire(d) \/ ReadTable(d) \/ Release(d)
    BY <1>1, <2>1 DEF Act, Crash, Fault, Acquire, ReadTable, Release
  <2>2. CASE GetPreparation(d) \/ PutPreparation(d) \/ StoreDeck(d) \/ FindDeck(d) \/ UndoDeck(d)
    BY <1>1, <2>2 DEF GetPreparation, PutPreparation, StoreDeck, FindDeck, UndoDeck, Keep
  <2>3. CASE OpenHand(d) \/ SubmitPlayerCommitment(d) \/ ReserveBeacon(d)
    BY <1>1, <2>3 DEF OpenHand, SubmitPlayerCommitment, ReserveBeacon, Keep
  <2>4. CASE AppendDeck(d)
    BY <1>1, <2>4 DEF AppendDeck
  <2>5. CASE ReadForStart(d) \/ StartHand(d) \/ Advance(d)
    BY <1>1, <2>5 DEF ReadForStart, StartHand, Advance, Keep
  <2>6. CASE RevealPublicCard(d) \/ DealBoard(d) \/ CompleteHand(d) \/ FinishHand(d)
    BY <1>1, <2>6 DEF RevealPublicCard, DealBoard, CompleteHand, FinishHand, Keep
  <2> QED
    BY <1>4, <2>1, <2>2, <2>3, <2>4, <2>5, <2>6 DEF RunStep
<1>5. CASE \E a \in announcing : Announce(a)
  BY <1>1, <1>5 DEF Announce
<1> QED
  BY <1>2, <1>3, <1>4, <1>5 DEF Next

LEMMA SecretInit == ASSUME Init PROVE SecretInv
<1>1. transcript = [h \in Hands |-> <<>>] /\ dealer = [d \in Dealers |-> Idle] /\ Idle.pc = "idle"
  BY DEF Init, Hands, Idle
<1>2. ~Has(<<>>, "DECK_COMMITTED")
  BY DEF Has
<1> QED
  BY <1>1, <1>2 DEF SecretInv, SecretHeld, Dealing, Kept, At

\* The secret of a deck outlives the hand: unless a lock expired under its run
\* or the answer of an append was lost, a committed deck that is not yet
\* completed has its secret in Redis.
THEOREM SecretIsKept == Spec => []SecretKept
<1>1. Init => SecretInv
  BY SecretInit
<1>2. TypesInv /\ SecretInv /\ [Next]_vars => SecretInv'
  <2> SUFFICES ASSUME TypesInv, SecretInv, [Next]_vars PROVE SecretInv'
    OBVIOUS
  <2>1. CASE Next
    BY <2>1, DoubtStays, SecretNext DEF SecretInv
  <2>2. CASE UNCHANGED vars
    BY <2>2 DEF SecretInv, SecretHeld, Dealing, Kept, At, Id, vars, redis, bounds
  <2> QED
    BY <2>1, <2>2
<1>3. TypesInv /\ SecretInv => SecretKept
  BY DealingIs DEF SecretInv, SecretHeld, SecretKept, Hands
<1> QED
  BY <1>1, <1>2, <1>3, DealerTypes, PTL DEF Spec

----------------------------------------------------------------------------
(* Who is dealt in *)

LEMMA ComingIs ==
  ASSUME TypesInv
  PROVE  /\ Coming \in Nat /\ Coming > table.handNumber /\ table.handNumber \in Nat
         /\ \A h \in Hands : h \in Nat
         /\ Active => (table.handNumber \in Hands <=> table.handNumber # 0)
         /\ table.handNumber < MaxHands => Coming \in Hands
BY TableNumbers, TableFields, BoundsAssumption DEF Coming, Hands

\* A run that goes on with the setup it has.
LEMMA RunKeepsSeats ==
  ASSUME NEW d \in Dealers, RunSeats(d), UNCHANGED <<table, reseated>>,
         dealer'[d].pc \in Preparing => dealer[d].pc \in Preparing /\ dealer'[d].setup = dealer[d].setup
  PROVE  RunSeats(d)'
BY DEF RunSeats, Id, Coming, Due, Active

\* Only runs go on.
LEMMA SeatQuiet ==
  ASSUME SeatInv, UNCHANGED <<table, reseated, transcript, preparation>>,
         NEW d \in Dealers, RunSeats(d)', \A e \in Dealers : e # d => dealer'[e] = dealer[e]
  PROVE  SeatInv'
<1>1. SeatsFit' /\ Untouched' /\ HandSeats'
  BY DEF SeatInv, SeatsFit, Untouched, HandSeats, Coming, Due, Active, Hand
<1>2. ASSUME NEW e \in Dealers, e # d PROVE RunSeats(e)'
  BY <1>2, RunKeepsSeats DEF SeatInv
<1> QED
  BY <1>1, <1>2 DEF SeatInv

\* An event is recorded of a hand that is there, or is the next.
LEMMA SeatAppends ==
  ASSUME TypesInv, PlayInv, SeatInv, UNCHANGED <<table, reseated, redis>>,
         NEW h \in Hands, NEW e, Allowed(h, e), Append1(h, e),
         transcript[h] # <<>> \/ (h <= Coming /\ (h = Coming => ~Active)),
         e.type = "HAND_OPENED" /\ h = Coming /\ ~reseated => e.rules = Due.rules /\ e.players = Due.players,
         NEW d \in Dealers, RunSeats(d)', \A r \in Dealers : r # d => dealer'[r] = dealer[r]
  PROVE  SeatInv'
<1>1. \A k \in Hands : k # h => transcript'[k] = transcript[k] /\ Hand(k)' = Hand(k)
  <2>1. \A k \in Hands : k # h => transcript'[k] = transcript[k]
    BY LogSteps
  <2>2. \A k \in Hands : k # h => Hand(k)' = Hand(k)
    BY LogSteps
  <2> QED
    BY <2>1, <2>2
<1>2. \A k \in Hands : transcript[k] # <<>> => /\ Hand(k)'.players = Hand(k).players
                                               /\ Hand(k)'.rules = Hand(k).rules
  BY LogSteps
<1>3. SeatsFit'
  BY DEF SeatInv, SeatsFit, Active
<1>4. Untouched'
  <2> SUFFICES ASSUME NEW k \in Hands, k > Coming \/ (k = Coming /\ Active)
               PROVE  preparation[k] = NoPreparation /\ transcript'[k] = <<>>
    BY DEF Untouched, Coming, Active, redis
  <2>1. preparation[k] = NoPreparation /\ transcript[k] = <<>>
    BY DEF SeatInv, Untouched
  <2>2. k # h
    BY <2>1, ComingIs
  <2> QED
    BY <1>1, <2>1, <2>2
<1>5. ASSUME ~Active, Coming \in Hands, ~reseated, transcript'[Coming] # <<>>
      PROVE  Hand(Coming)'.players = Due.players /\ Hand(Coming)'.rules = Due.rules
  <2>1. CASE transcript[Coming] # <<>>
    <3>1. Hand(Coming).players = Due.players /\ Hand(Coming).rules = Due.rules
      BY <1>5, <2>1 DEF SeatInv, HandSeats
    <3>2. Hand(Coming)'.players = Hand(Coming).players /\ Hand(Coming)'.rules = Hand(Coming).rules
      <4> DEFINE k == Coming
      <4>1. k \in Hands /\ transcript[k] # <<>> /\ k' = k
        BY <1>5, <2>1 DEF Coming
      <4> HIDE DEF k
      <4>2. ReduceHand(transcript'[k]).players = ReduceHand(transcript[k]).players
            /\ ReduceHand(transcript'[k]).rules = ReduceHand(transcript[k]).rules
        BY <1>2, <4>1 DEF Hand
      <4> QED
        BY <4>1, <4>2 DEF Hand, k
    <3> QED
      BY <3>1, <3>2
  <2>2. CASE transcript[Coming] = <<>>
    <3>1. h = Coming
      BY <1>1, <1>5, <2>2
    <3>2. e.type = "HAND_OPENED" /\ transcript'[h] = Append(<<>>, e) /\ e \in Event
      BY <2>2, <3>1 DEF Allowed, Append1, TypesInv
    <3>3. transcript'[h] = <<e>>
      BY <3>2
    <3>4. ReduceHand(transcript'[h]).players = e.players /\ ReduceHand(transcript'[h]).rules = e.rules
      <4>1. <<e>> \in Seq(Event) /\ <<e>> # <<>> /\ <<e>>[1] = e
        BY <3>2
      <4> QED
        BY <3>3, <4>1, Fields
    <3>5. e.rules = Due.rules /\ e.players = Due.players
      BY <1>5, <3>1, <3>2
    <3>6. Hand(Coming)' = ReduceHand(transcript'[h])
      BY <3>1 DEF Hand, Coming
    <3> QED
      BY <3>4, <3>5, <3>6
  <2> QED
    BY <2>1, <2>2
<1>6. ASSUME Active, ~reseated
      PROVE  /\ table.players = Hand(table.handNumber)'.players
             /\ table.rules = Hand(table.handNumber)'.rules
  <2> DEFINE k == table.handNumber
  <2>1. k \in Hands /\ Has(transcript[k], "DECK_COMMITTED")
    BY <1>6, TableNumbers DEF PlayInv, TablePlays
  <2>2. transcript[k] # <<>>
    BY <2>1 DEF Has
  <2>3. table.players = Hand(k).players /\ table.rules = Hand(k).rules
    BY <1>6 DEF SeatInv, HandSeats
  <2>4. k' = k
    OBVIOUS
  <2> HIDE DEF k
  <2>5. ReduceHand(transcript'[k]).players = ReduceHand(transcript[k]).players
        /\ ReduceHand(transcript'[k]).rules = ReduceHand(transcript[k]).rules
    BY <1>2, <2>1, <2>2 DEF Hand
  <2> QED
    BY <2>3, <2>4, <2>5 DEF Hand, k
<1>7. HandSeats'
  <2>1. Coming' = Coming /\ Due' = Due /\ Active' = Active /\ table' = table /\ reseated' = reseated
        /\ preparation' = preparation
    BY DEF Coming, Due, Active, redis
  <2>2. ~reseated /\ ~Active /\ Coming \in Hands /\ preparation[Coming] # NoPreparation =>
           preparation[Coming] = Due.players
    BY DEF SeatInv, HandSeats
  <2> QED
    BY <1>5, <1>6, <2>1, <2>2 DEF HandSeats, Hand
<1>8. ASSUME NEW r \in Dealers, r # d PROVE RunSeats(r)'
  BY <1>8, RunKeepsSeats DEF SeatInv
<1> QED
  BY <1>3, <1>4, <1>7, <1>8 DEF SeatInv

LEMMA PrepareSeats ==
  ASSUME TypesInv, PlayInv, SeatInv, NEW d \in Dealers, Prepares(d)
  PROVE  SeatInv'
<1> SUFFICES ASSUME NEW h \in Hands, h = Id(d) PROVE SeatInv'
  BY PrepareSteps
<1>1. /\ dealer[d].pc \in Preparing /\ Prepared(d) /\ UNCHANGED <<table, reseated>>
      /\ \A e \in Dealers : e # d => dealer'[e] = dealer[e]
  BY PrepareSteps
<1>2. RunSeats(d) /\ RunSeats(d)'
  <2>1. RunSeats(d)
    BY DEF SeatInv
  <2>2. dealer'[d].pc \in Preparing => dealer'[d].setup = dealer[d].setup
    BY <1>1 DEF Prepared, Preparing
  <2> QED
    BY <1>1, <2>1, <2>2, RunKeepsSeats
<1>3. h <= Coming /\ (h = Coming => ~Active)
      /\ (h = Coming /\ ~reseated =>
             dealer[d].setup.players = Due.players /\ dealer[d].setup.rules = Due.rules)
  BY <1>1, <1>2 DEF RunSeats
<1>4. CASE UNCHANGED <<transcript, preparation>>
  BY <1>1, <1>2, <1>4, SeatQuiet
<1>5. CASE UNCHANGED redis /\ \E e : Opens(d, e) /\ Append1(Id(d), e)
  <2>1. PICK e : Opens(d, e) /\ Append1(Id(d), e)
    BY <1>5
  <2>2. e.type = "HAND_OPENED" /\ h = Coming /\ ~reseated => e.rules = Due.rules /\ e.players = Due.players
    BY <1>3, <2>1 DEF Opens
  <2>3. Allowed(h, e) /\ Append1(h, e)
    BY <2>1 DEF Opens
  <2> QED
    BY <1>1, <1>2, <1>3, <1>5, <2>2, <2>3, SeatAppends
<1>6. CASE /\ UNCHANGED transcript
           /\ preparation[Id(d)] = NoPreparation
           /\ preparation' = [preparation EXCEPT ![Id(d)] = dealer[d].setup.players]
  <2>1. /\ preparation'[h] = dealer[d].setup.players
        /\ \A k \in Hands : k # h => preparation'[k] = preparation[k]
    BY <1>6 DEF TypesInv
  <2>2. Coming' = Coming /\ Due' = Due /\ Active' = Active /\ \A k : Hand(k)' = Hand(k)
    BY <1>1, <1>6 DEF Coming, Due, Active, Hand
  <2>3. Untouched'
    <3> SUFFICES ASSUME NEW k \in Hands, k > Coming \/ (k = Coming /\ Active)
                 PROVE  preparation'[k] = NoPreparation /\ transcript[k] = <<>>
      BY <1>6, <2>2 DEF Untouched
    <3>1. preparation[k] = NoPreparation /\ transcript[k] = <<>>
      BY DEF SeatInv, Untouched
    <3>2. k # h
      BY <1>3, ComingIs
    <3> QED
      BY <2>1, <3>1, <3>2
  <2>4. HandSeats'
    <3>1. ~reseated /\ ~Active /\ Coming \in Hands /\ preparation'[Coming] # NoPreparation =>
             preparation'[Coming] = Due.players
      BY <1>3, <2>1 DEF SeatInv, HandSeats
    <3>2. HandSeats
      BY DEF SeatInv
    <3> QED
      BY <1>1, <1>6, <2>2, <3>1, <3>2 DEF HandSeats, Hand, Coming, Due, Active
  <2>5. SeatsFit'
    BY <1>1 DEF SeatInv, SeatsFit, Active
  <2>6. ASSUME NEW r \in Dealers, r # d PROVE RunSeats(r)'
    BY <1>1, <2>6, RunKeepsSeats DEF SeatInv
  <2> QED
    BY <1>2, <2>3, <2>4, <2>5, <2>6 DEF SeatInv
<1> QED
  BY <1>4, <1>5, <1>6, PrepareSteps

\* The table deals a street: the hand and its players stay.
LEMMA SeatStays ==
  ASSUME TypesInv, SeatInv, UNCHANGED <<reseated, transcript, preparation>>,
         table'.status = table.status, table'.handNumber = table.handNumber, Active,
         table'.players = table.players, table'.rules = table.rules,
         \A r \in Dealers : dealer'[r].pc \in Preparing => dealer'[r] = dealer[r]
  PROVE  SeatInv'
<1>1. Coming' = Coming /\ Active' /\ \A k : Hand(k)' = Hand(k)
  BY DEF Coming, Active, Hand
<1>2. SeatsFit' /\ HandSeats'
  BY <1>1 DEF SeatInv, SeatsFit, HandSeats
<1>3. Untouched'
  BY <1>1 DEF SeatInv, Untouched
<1>4. ASSUME NEW r \in Dealers PROVE RunSeats(r)'
  <2>1. RunSeats(r)
    BY DEF SeatInv
  <2> QED
    BY <1>1, <2>1 DEF RunSeats, Id
<1> QED
  BY <1>2, <1>3, <1>4 DEF SeatInv

LEMMA StartSeats ==
  ASSUME TypesInv, PlayInv, SeatInv, NEW d \in Dealers, StartHand(d)
  PROVE  SeatInv'
<1>0. /\ \A e \in Dealers : e # d => dealer'[e] = dealer[e]
      /\ UNCHANGED <<reseated, preparation, committed>>
  BY DealingSteps DEF Preparing, bounds, redis
<1>1. dealer[d].pc = "start" /\ dealer[d].pc \in Logging /\ RunPlays(d) /\ RunSeats(d)
  BY StartSteps DEF PlayInv, At, Logging, SeatInv
<1>2. CASE UNCHANGED <<table, transcript>>
  <2>1. RunSeats(d)'
    <3>1. dealer'[d].pc \notin Preparing
      <4>1. dealer'[d].pc # "start"
        BY <1>1, DealingSteps
      <4>2. dealer'[d].pc \in {"start", "advance", "release", "reveal", "complete", "finish", "failed"}
        BY DealingSteps
      <4> QED
        BY <4>1, <4>2 DEF Preparing
    <3> QED
      BY <3>1 DEF RunSeats
  <2> QED
    BY <1>0, <1>2, <2>1, SeatQuiet
<1>3. CASE /\ table.version = dealer[d].view
           /\ Cardinality(table.active) >= 2 /\ table.handNumber + 1 = Id(d)
           /\ \E betting \in {"BETTING", "AWAITING_RUNOUT"} :
                 table' = Started(d, NextHandSetup(table), betting)
           /\ dealer' = [dealer EXCEPT ![d] = [pc |-> "advance"]]
           /\ UNCHANGED <<transcript, redis, scheduled>>
  <2> DEFINE setup == NextHandSetup(table)
             h == Coming
  <2>1. /\ setup.handId = h /\ setup.players = table.active
        /\ setup.rules \in Rules /\ setup.rules.seats = Cardinality(setup.players)
        /\ setup.rules.seats >= 2 /\ setup.rules.buttonSeat < setup.rules.seats
    BY <1>3, TableFields, SetupOK DEF Coming
  <2>2. ~Active /\ Has(Read(d), "DECK_COMMITTED")
    BY <1>1, <1>3 DEF RunPlays, At
  <2>3. h = Id(d) /\ h \in Hands /\ transcript[h] # <<>>
    <3>1. Has(Log(d), "DECK_COMMITTED") /\ Id(d) \in Hands
      BY <1>1, <2>2, SeenPart, HandStays
    <3> QED
      BY <1>3, <3>1 DEF Coming, Has, Log
  <2>4. ~reseated => setup.players = Hand(h).players /\ setup.rules = Hand(h).rules
    BY <2>2, <2>3 DEF SeatInv, HandSeats, Due
  <2> HIDE DEF setup
  <2>5. /\ table'.handNumber = h /\ table'.status = "HAND_ACTIVE"
        /\ table'.players = setup.players /\ table'.rules = setup.rules
    <3>1. PICK betting \in {"BETTING", "AWAITING_RUNOUT"} : table' = Started(d, setup, betting)
      BY <1>3 DEF setup
    <3>2. table \in TableType
      BY TableFields
    <3> HIDE DEF h
    <3> QED
      BY <2>1, <3>1, <3>2 DEF Started, TableType
  <2> HIDE DEF h
  <2>6. Coming' = h + 1 /\ Active' /\ h \in Nat /\ h = Coming
    BY <2>5, ComingIs DEF Coming, Active, h
  <2>7. dealer'[d] = [pc |-> "advance"] /\ \A e \in Dealers : e # d => dealer'[e] = dealer[e]
    BY <1>3, RunTo
  <2>8. SeatsFit'
    BY <2>1, <2>5 DEF SeatsFit
  <2>9. Untouched'
    <3> SUFFICES ASSUME NEW k \in Hands, k > h + 1 \/ k = h + 1
                 PROVE  preparation[k] = NoPreparation /\ transcript[k] = <<>>
      BY <1>3, <2>6 DEF Untouched, redis
    <3>1. k > Coming
      BY <2>6, ComingIs
    <3> QED
      BY <3>1 DEF SeatInv, Untouched
  <2>10. HandSeats'
    <3>1. Hand(table.handNumber)' = Hand(h)
      BY <1>3, <2>5 DEF Hand
    <3>2. ~reseated' => /\ table'.players = Hand(h).players
                        /\ table'.rules = Hand(h).rules
      BY <1>0, <2>4, <2>5
    <3> QED
      BY <1>3, <2>5, <2>6, <3>1, <3>2 DEF HandSeats, Hand
  <2>11. ASSUME NEW e \in Dealers PROVE RunSeats(e)'
    <3>1. CASE e = d
      BY <2>7, <3>1 DEF RunSeats, Preparing
    <3>2. CASE e # d
      <4>1. RunSeats(e) /\ dealer'[e] = dealer[e] /\ Id(e)' = Id(e)
        BY <2>7, <3>2 DEF SeatInv, Id
      <4>2. dealer[e].pc \in Preparing => Id(e) \in Hands
        BY DEF TypesInv, RunOK
      <4>3. dealer[e].pc \in Preparing => Id(e) <= h + 1 /\ Id(e) # h + 1
        BY <2>6, <4>1, <4>2, ComingIs DEF RunSeats
      <4> QED
        BY <2>6, <4>1, <4>3 DEF RunSeats
    <3> QED
      BY <3>1, <3>2
  <2> QED
    BY <2>8, <2>9, <2>10, <2>11 DEF SeatInv
<1>4. ASSUME Fail(d) PROVE UNCHANGED <<table, transcript>>
  BY <1>4 DEF Fail
<1> QED
  BY <1>2, <1>3, <1>4, StartSteps

LEMMA FinishSeats ==
  ASSUME TypesInv, PlayInv, SeatInv, NEW d \in Dealers, FinishHand(d)
  PROVE  SeatInv'
<1>0. /\ dealer'[d].pc \notin Preparing /\ RunSeats(d)'
      /\ \A e \in Dealers : e # d => dealer'[e] = dealer[e]
      /\ UNCHANGED <<reseated, preparation, transcript>> /\ RunPlays(d) /\ At(d, "finish")
  <2>1. dealer[d].pc = "finish" /\ UNCHANGED transcript
    BY FinishSteps DEF At, Fail
  <2>2. dealer'[d].pc # "start"
    BY <2>1, DealingSteps
  <2>3. dealer'[d].pc \in {"start", "advance", "release", "reveal", "complete", "finish", "failed"}
        /\ UNCHANGED <<redis, lock, bounds>> /\ \A e \in Dealers : e # d => dealer'[e] = dealer[e]
    BY DealingSteps
  <2> QED
    BY <2>1, <2>2, <2>3 DEF Preparing, RunSeats, bounds, redis, PlayInv, At
<1>1. CASE UNCHANGED table
  BY <1>0, <1>1, SeatQuiet
<1>2. CASE /\ table.version = dealer[d].view
           /\ \E gone \in SUBSET table.players : table' = Finished(gone)
  <2>1. Active
    BY <1>0, <1>2 DEF RunPlays, At
  <2>2. table'.status = "WAITING" /\ table'.handNumber = table.handNumber
    BY <1>2, FinishedTyped
  <2>3. ~Active' /\ Coming' = Coming /\ Coming \in Nat
    BY <2>2, ComingIs DEF Active, Coming
  <2>4. \A k \in Hands : k >= Coming => preparation[k] = NoPreparation /\ transcript[k] = <<>>
    BY <2>1, ComingIs DEF SeatInv, Untouched
  <2>5. SeatsFit' /\ Untouched'
    BY <1>0, <2>3, <2>4, ComingIs DEF SeatsFit, Untouched
  <2>6. HandSeats'
    BY <1>0, <2>3, <2>4 DEF HandSeats
  <2>7. ASSUME NEW e \in Dealers, e # d PROVE RunSeats(e)'
    <3>1. RunSeats(e) /\ dealer'[e] = dealer[e] /\ Id(e)' = Id(e)
      BY <1>0, <2>7 DEF SeatInv, Id
    <3>2. dealer[e].pc \in Preparing => Id(e) <= Coming /\ Id(e) # Coming
      BY <2>1, <3>1 DEF RunSeats
    <3> QED
      BY <2>3, <3>1, <3>2 DEF RunSeats
  <2> QED
    BY <1>0, <2>5, <2>6, <2>7 DEF SeatInv
<1> QED
  BY <1>1, <1>2, FinishSteps DEF Fail

LEMMA DealingSeats ==
  ASSUME TypesInv, PlayInv, SeatInv, NEW d \in Dealers,
         ReadForStart(d) \/ Advance(d) \/ RevealPublicCard(d) \/ DealBoard(d) \/ CompleteHand(d)
  PROVE  SeatInv'
<1>1. /\ dealer[d].pc \in {"hand", "start", "advance", "reveal", "complete", "finish"}
      /\ dealer'[d].pc \in {"start", "advance", "release", "reveal", "complete", "finish", "failed"}
      /\ dealer'[d].pc = "start" => dealer[d].pc = "hand" /\ dealer'[d].setup = dealer[d].setup
      /\ \A e \in Dealers : e # d => dealer'[e] = dealer[e]
      /\ UNCHANGED <<redis, lock, bounds>>
      /\ \/ UNCHANGED transcript
         \/ \E h, e : /\ h \in Hands /\ Allowed(h, e) /\ Append1(h, e)
                      /\ e.type \in {"PUBLIC_CARD_REVEALED", "HAND_COMPLETED"}
  BY DealingSteps
<1>2. UNCHANGED <<reseated, preparation>>
  BY <1>1 DEF bounds, redis
<1>3. CASE UNCHANGED table
  <2>1. RunSeats(d)'
    BY <1>1, <1>2, <1>3, RunKeepsSeats DEF SeatInv, Preparing
  <2>2. CASE UNCHANGED transcript
    BY <1>1, <1>2, <1>3, <2>1, <2>2, SeatQuiet
  <2>3. CASE \E h, e : /\ h \in Hands /\ Allowed(h, e) /\ Append1(h, e)
                       /\ e.type \in {"PUBLIC_CARD_REVEALED", "HAND_COMPLETED"}
    <3>1. PICK h, e : /\ h \in Hands /\ Allowed(h, e) /\ Append1(h, e)
                      /\ e.type \in {"PUBLIC_CARD_REVEALED", "HAND_COMPLETED"}
      BY <2>3
    <3>2. transcript[h] # <<>> /\ e.type # "HAND_OPENED"
      BY <3>1 DEF Allowed
    <3> QED
      BY <1>1, <1>2, <1>3, <2>1, <3>1, <3>2, SeatAppends
  <2> QED
    BY <1>1, <2>2, <2>3
<1>4. CASE table # table'
  <2>1. DealBoard(d)
    <3>1. ReadForStart(d) => UNCHANGED table
      BY DEF ReadForStart
    <3>2. Advance(d) => UNCHANGED table
      BY DEF Advance
    <3>3. RevealPublicCard(d) => UNCHANGED table
      BY RevealSteps
    <3>4. CompleteHand(d) => UNCHANGED table
      BY CompleteSteps DEF Fail
    <3> QED
      BY <1>4, <3>1, <3>2, <3>3, <3>4
  <2>2. /\ table.version = dealer[d].view /\ table' = Dealt /\ UNCHANGED transcript
        /\ dealer' = [dealer EXCEPT ![d] = [pc |-> "advance"]] /\ At(d, "reveal")
    BY <1>4, <2>1, DealSteps DEF Fail
  <2>3. Active /\ table.betting \in Awaiting
    <3>1. RunPlays(d)
      BY DEF PlayInv
    <3> QED
      BY <2>2, <3>1 DEF RunPlays, At
  <2>4. /\ table'.status = table.status /\ table'.handNumber = table.handNumber
        /\ table'.rules = table.rules /\ table'.players = table.players
    <3>1. table \in TableType
      BY TableFields
    <3> QED
      BY <2>2, <3>1 DEF Dealt, TableType
  <2>5. \A r \in Dealers : dealer'[r].pc \in Preparing => dealer'[r] = dealer[r]
    <3>1. dealer'[d] = [pc |-> "advance"]
      BY <2>2, RunTo
    <3>2. dealer'[d].pc \notin Preparing
      BY <3>1 DEF Preparing
    <3> QED
      BY <1>1, <3>2
  <2> QED
    BY <1>2, <2>2, <2>3, <2>4, <2>5, SeatStays
<1> QED
  BY <1>3, <1>4

\* Somebody comes or goes: either the hand to come is not prepared, or the
\* history says so.
LEMMA MoveSeats ==
  ASSUME TypesInv, SeatInv, NEW p \in Players,
         Return(p) \/ Go(p) \/ \E d \in Dealers : Seat(p, d)
  PROVE  SeatInv'
<1>1. /\ Move /\ UNCHANGED <<transcript, redis, dealer>>
      /\ \E active : table' = [table EXCEPT !.version = @ + 1, !.active = active]
  <2>1. CASE Return(p)
    BY <2>1 DEF Return
  <2>2. CASE Go(p)
    BY <2>2 DEF Go
  <2>3. CASE \E d \in Dealers : Seat(p, d)
    BY <2>3 DEF Seat
  <2> QED
    BY <2>1, <2>2, <2>3
<1>2. /\ table'.status = table.status /\ table'.handNumber = table.handNumber
      /\ table'.rules = table.rules /\ table'.players = table.players
  BY <1>1, TableChanges
<1>3. Coming' = Coming /\ Active' = Active /\ (\A k : Hand(k)' = Hand(k)) /\ preparation' = preparation
  BY <1>1, <1>2 DEF Coming, Active, Hand, redis
<1>4. /\ reseated => reseated'
      /\ ~reseated' /\ ~Active =>
            /\ preparation[Coming] = NoPreparation
            /\ \A d \in Dealers : dealer[d].pc \notin {"prepare", "put"}
  <2>1. table.status \in {"WAITING", "HAND_ACTIVE"}
    BY TableFields
  <2> QED
    BY <1>1, <2>1 DEF Move, Active, Coming
<1>5. SeatsFit'
  BY <1>2, <1>3 DEF SeatInv, SeatsFit
<1>6. Untouched'
  BY <1>1, <1>3 DEF SeatInv, Untouched
<1>7. HandSeats'
  <2>1. ~reseated' /\ ~Active /\ Coming \in Hands => transcript[Coming] = <<>>
    <3> HAVE ~reseated' /\ ~Active /\ Coming \in Hands
    <3> DEFINE k == Coming
    <3>1. preparation[k] = NoPreparation /\ k \in Hands
      BY <1>4
    <3> HIDE DEF k
    <3>2. LogOK(k)
      BY <3>1 DEF TypesInv
    <3>3. transcript[k] = <<>>
      BY <3>1, <3>2 DEF LogOK
    <3> QED
      BY <3>3 DEF k
  <2>2. ~reseated' /\ Active => /\ table.players = Hand(table.handNumber).players
                                /\ table.rules = Hand(table.handNumber).rules
    BY <1>4 DEF SeatInv, HandSeats
  <2>3. Hand(table.handNumber)' = Hand(table.handNumber) /\ transcript' = transcript
    BY <1>1, <1>2, <1>3 DEF Hand
  <2> QED
    BY <1>2, <1>3, <1>4, <2>1, <2>2, <2>3 DEF HandSeats
<1>8. ASSUME NEW d \in Dealers PROVE RunSeats(d)'
  <2>1. RunSeats(d) /\ dealer'[d] = dealer[d] /\ Id(d)' = Id(d)
    BY <1>1 DEF SeatInv, Id
  <2>2. ASSUME dealer[d].pc \in Preparing, Id(d) = Coming, ~reseated'
        PROVE  FALSE
    <3>1. ~Active
      BY <2>1, <2>2 DEF RunSeats
    <3>2. preparation[Id(d)] = NoPreparation /\ dealer[d].pc \notin {"prepare", "put"}
      BY <1>4, <2>2, <3>1
    <3>3. dealer[d].pc \in Logging => preparation[Id(d)] # NoPreparation
      BY DEF TypesInv, RunOK
    <3> QED
      BY <2>2, <3>2, <3>3 DEF Preparing, Logging
  <2> QED
    BY <1>3, <2>1, <2>2 DEF RunSeats
<1> QED
  BY <1>5, <1>6, <1>7, <1>8 DEF SeatInv

LEMMA ActSeats ==
  ASSUME TypesInv, SeatInv, NEW d \in Dealers, Act(d)
  PROVE  SeatInv'
<1>1. /\ Active /\ table.betting = "BETTING" /\ UNCHANGED <<transcript, preparation, dealer, reseated>>
      /\ \E next \in RoundEnds(table.board) :
            table' = [table EXCEPT !.version = @ + 1, !.betting = next]
  BY DEF Act, Active, redis
<1>2. /\ table'.status = table.status /\ table'.handNumber = table.handNumber
      /\ table'.rules = table.rules /\ table'.players = table.players
  BY <1>1, TableChanges
<1> QED
  BY <1>1, <1>2, SeatStays

LEMMA LockSeats ==
  ASSUME TypesInv, SeatInv, NEW d \in Dealers,
         Acquire(d) \/ ReadTable(d) \/ Release(d) \/ Crash(d) \/ Fault(d)
  PROVE  SeatInv'
<1>1. UNCHANGED <<table, transcript, preparation, reseated>>
  BY DEF Acquire, ReadTable, Release, Crash, Fault, redis, bounds
<1>2. RunSeats(d)
  BY DEF SeatInv
<1>3. RunSeats(d)' /\ \A e \in Dealers : e # d => dealer'[e] = dealer[e]
  <2>1. CASE Acquire(d)
    <3>1. Goto(d, "run")
      BY <2>1 DEF Acquire
    <3> QED
      BY <3>1, GotoIs DEF RunSeats, Preparing
  <2>2. CASE Release(d) \/ Crash(d)
    <3>1. dealer' = [dealer EXCEPT ![d] = Idle] /\ Idle.pc = "idle"
      BY <2>2 DEF Release, Crash, Idle
    <3>2. dealer'[d] = Idle /\ \A e \in Dealers : e # d => dealer'[e] = dealer[e]
      BY <3>1, RunTo
    <3> QED
      BY <3>1, <3>2 DEF RunSeats, Preparing
  <2>3. CASE Fault(d)
    <3>1. CASE dealer[d].pc \in {"find", "append"}
      <4>1. Goto(d, "undo")
        BY <2>3, <3>1 DEF Fault
      <4>2. dealer'[d].setup = dealer[d].setup /\ dealer[d].pc \in Preparing
            /\ \A e \in Dealers : e # d => dealer'[e] = dealer[e]
        BY <3>1, <4>1, GotoPrepared DEF Preparing
      <4> QED
        BY <1>1, <1>2, <4>2, RunKeepsSeats
    <3>2. CASE dealer[d].pc \notin {"find", "append"}
      <4>1. Goto(d, "failed")
        BY <2>3, <3>2 DEF Fault
      <4> QED
        BY <4>1, GotoIs DEF RunSeats, Preparing
    <3> QED
      BY <3>1, <3>2
  <2>4. CASE ReadTable(d)
    <3>1. \A e \in Dealers : e # d => dealer'[e] = dealer[e]
      BY <2>4, ReadTableGoes
    <3>2. CASE dealer'[d].pc = "prepare"
      <4>1. ~Active /\ Cardinality(table.active) >= 2
            /\ dealer'[d] = [pc |-> "prepare", setup |-> NextHandSetup(table)]
        <5>1. table.active \subseteq Players
          BY TableFields
        <5>2. Cardinality(table.active) \in Nat
          BY <5>1, CountPlayers
        <5> QED
          BY <2>4, <3>2, <5>2, ReadTableGoes
      <4>2. NextHandSetup(table).handId = Coming
        BY <4>1, TableFields, SetupOK DEF Coming
      <4>3. Id(d)' = Coming /\ dealer'[d].setup = Due
        BY <4>1, <4>2 DEF Id, Due
      <4>4. Coming' = Coming /\ Due' = Due /\ Active' = Active
        BY <1>1 DEF Coming, Due, Active
      <4>5. Coming <= Coming
        BY ComingIs
      <4> QED
        BY <3>1, <4>1, <4>3, <4>4, <4>5 DEF RunSeats
    <3>3. CASE dealer'[d].pc \in {"advance", "release"}
      <4>1. dealer'[d].pc \notin Preparing
        BY <3>3 DEF Preparing
      <4> QED
        BY <3>1, <4>1 DEF RunSeats
    <3> QED
      BY <2>4, <3>1, <3>2, <3>3, ReadTableGoes
  <2> QED
    BY <2>1, <2>2, <2>3, <2>4
<1> QED
  BY <1>1, <1>3, SeatQuiet

LEMMA SeatInit == ASSUME Init PROVE SeatInv
<1>1. /\ table.status = "WAITING" /\ table.handNumber = 0 /\ MaxHands \in Nat
      /\ preparation = [h \in Hands |-> NoPreparation]
      /\ transcript = [h \in Hands |-> <<>>] /\ dealer = [d \in Dealers |-> Idle] /\ Idle.pc = "idle"
  BY BoundsAssumption DEF Init, Hands, Idle
<1>2. ~Active
  BY <1>1 DEF Active
<1>3. \A d \in Dealers : RunSeats(d)
  BY <1>1 DEF RunSeats, Preparing
<1> QED
  BY <1>1, <1>2, <1>3 DEF SeatInv, SeatsFit, Untouched, HandSeats

LEMMA SeatNext ==
  ASSUME TypesInv, PlayInv, SeatInv, Next
  PROVE  SeatInv'
<1>1. CASE \E p \in Players : Return(p) \/ Go(p) \/ \E d \in Dealers : Seat(p, d)
  BY <1>1, MoveSeats
<1>2. ASSUME UNCHANGED <<table, transcript, preparation, dealer, reseated>> PROVE SeatInv'
  <2>1. \A d \in Dealers : RunSeats(d)'
    BY <1>2, RunKeepsSeats DEF SeatInv
  <2> QED
    BY <1>2, <2>1 DEF SeatInv, SeatsFit, Untouched, HandSeats, Coming, Due, Active, Hand
<1>3. CASE Expire
  BY <1>2, <1>3 DEF Expire, redis
<1>4. ASSUME NEW d \in Dealers, Act(d) \/ RunStep(d) \/ Crash(d) \/ Fault(d) PROVE SeatInv'
  <2>1. CASE Act(d)
    BY <2>1, ActSeats
  <2>2. CASE Acquire(d) \/ ReadTable(d) \/ Release(d) \/ Crash(d) \/ Fault(d)
    BY <2>2, LockSeats
  <2>3. CASE Prepares(d)
    BY <2>3, PrepareSeats
  <2>4. CASE ReadForStart(d) \/ Advance(d) \/ RevealPublicCard(d) \/ DealBoard(d) \/ CompleteHand(d)
    BY <2>4, DealingSeats
  <2>5. CASE StartHand(d) \/ FinishHand(d)
    BY <2>5, StartSeats, FinishSeats
  <2> QED
    BY <1>4, <2>1, <2>2, <2>3, <2>4, <2>5 DEF RunStep, Prepares
<1>5. CASE \E a \in announcing : Announce(a)
  BY <1>2, <1>5 DEF Announce, redis, bounds
<1> QED
  BY <1>1, <1>3, <1>4, <1>5 DEF Next

----------------------------------------------------------------------------
(* The cards of the players *)

LEMMA Wraps ==
  ASSUME NEW n \in 2..9, NEW x \in 0..(n - 1)
  PROVE  x % n = x /\ (x + n) % n = x
<1>1. n = 2 \/ n = 3 \/ n = 4 \/ n = 5 \/ n = 6 \/ n = 7 \/ n = 8 \/ n = 9
  OBVIOUS
<1>2. CASE n = 2
  BY <1>2
<1>3. CASE n = 3
  BY <1>3
<1>4. CASE n = 4
  BY <1>4
<1>5. CASE n = 5
  BY <1>5
<1>6. CASE n = 6
  BY <1>6
<1>7. CASE n = 7
  BY <1>7
<1>8. CASE n = 8
  BY <1>8
<1>9. CASE n = 9
  BY <1>9
<1> QED
  BY <1>1, <1>2, <1>3, <1>4, <1>5, <1>6, <1>7, <1>8, <1>9

\* Every seat has its place in the order in which cards are dealt.
LEMMA PlaceOfSeat ==
  ASSUME NEW n \in 2..9, NEW button \in 0..(n - 1), NEW seat \in 0..(n - 1)
  PROVE  \E i \in 1..n : ActiveSeatOrder(n, button)[i] = seat
<1> DEFINE first == IF n = 2 THEN button ELSE (button + 1) % n
           i == IF seat >= first THEN seat - first + 1 ELSE seat - first + n + 1
<1>1. first \in 0..(n - 1)
  <2>1. CASE n = 2
    BY <2>1
  <2>2. CASE n # 2
    <3>1. CASE button + 1 \in 0..(n - 1)
      <4>1. (button + 1) % n = button + 1
        BY <3>1, Wraps
      <4> QED
        BY <2>2, <3>1, <4>1
    <3>2. CASE button + 1 = 0 + n
      <4>1. (0 + n) % n = 0
        <5>1. 0 \in 0..(n - 1)
          OBVIOUS
        <5> QED
          BY <5>1, Wraps
      <4> QED
        BY <2>2, <3>2, <4>1
    <3> QED
      BY <3>1, <3>2
  <2> QED
    BY <2>1, <2>2
<1>2. ActiveSeatOrder(n, button) = [k \in 1..n |-> (first + k - 1) % n]
  BY DEF ActiveSeatOrder
<1> HIDE DEF first
<1>3. i \in 1..n /\ (first + i - 1 = seat \/ first + i - 1 = seat + n)
  BY <1>1
<1>4. (first + i - 1) % n = seat
  <2>1. seat % n = seat /\ (seat + n) % n = seat
    BY Wraps
  <2> QED
    BY <1>3, <2>1
<1> QED
  BY <1>2, <1>3, <1>4

Rank(p, players) == Cardinality({q \in players : q < p})

LEMMA RankIs ==
  ASSUME NEW players, players \subseteq Players, NEW p \in players
  PROVE  /\ Rank(p, players) \in 0..(Cardinality(players) - 1)
         /\ \A q \in players : q < p => Rank(q, players) < Rank(p, players)
<1> DEFINE Below(q) == {r \in players : r < q}
<1>1. players \subseteq Nat /\ IsFiniteSet(players) /\ Cardinality(players) \in Nat
  <2>1. IsFiniteSet(players) /\ Cardinality(players) \in 0..9
    BY CountPlayers
  <2> QED
    BY <2>1, PlayersAreNumbers
<1>2. ASSUME NEW q \in players, NEW S, S \subseteq players, Below(q) \subseteq S, q \in S
      PROVE  Cardinality(Below(q)) \in Nat /\ Cardinality(Below(q)) < Cardinality(S)
  <2>1. IsFiniteSet(S) /\ IsFiniteSet(Below(q)) /\ Cardinality(S) \in Nat /\ Cardinality(Below(q)) \in Nat
    BY <1>1, <1>2, FS_Subset, FS_CardinalityType
  <2>2. q \notin Below(q)
    BY <1>1, <1>2
  <2>3. Cardinality(Below(q) \cup {q}) = Cardinality(Below(q)) + 1 /\ Below(q) \cup {q} \subseteq S
    BY <1>2, <2>1, <2>2, FS_AddElement
  <2>4. Cardinality(Below(q) \cup {q}) <= Cardinality(S)
    BY <2>1, <2>3, FS_Subset
  <2> QED
    BY <2>1, <2>3, <2>4
<1>3. Cardinality(Below(p)) \in Nat /\ Cardinality(Below(p)) < Cardinality(players)
  BY <1>2
<1>4. ASSUME NEW q \in players, q < p PROVE Cardinality(Below(q)) < Cardinality(Below(p))
  <2>1. Below(q) \subseteq Below(p) /\ q \in Below(p) /\ Below(p) \subseteq players
    <3>1. \A r \in players : r < q => r < p
      <4> TAKE r \in players
      <4>1. r \in Nat /\ q \in Nat /\ p \in Nat
        BY <1>1
      <4> QED
        BY <1>4, <4>1
    <3> QED
      BY <1>4, <3>1
  <2> QED
    BY <1>2, <2>1
<1> QED
  BY <1>1, <1>3, <1>4 DEF Rank

\* The place of a player's seat in the order of the deal.
Place(rules, seat) == CHOOSE i \in 1..rules.seats : ActiveSeatOrder(rules.seats, rules.buttonSeat)[i] = seat

LEMMA HoleCardsAre ==
  ASSUME NEW rules \in Rules, rules.seats >= 2, rules.buttonSeat < rules.seats,
         NEW players, players \subseteq Players, rules.seats = Cardinality(players), NEW p \in players
  PROVE  LET i == Place(rules, Rank(p, players))
         IN  /\ i \in 1..rules.seats
             /\ ActiveSeatOrder(rules.seats, rules.buttonSeat)[i] = Rank(p, players)
             /\ HoleCards(rules, p, players) = {i - 1, rules.seats + i - 1}
<1> DEFINE n == rules.seats
           seat == Rank(p, players)
           i == Place(rules, seat)
           row == [r \in 1..2 |-> (r - 1) * n + i - 1]
<1>1. rules.game = "NLH" /\ n \in 2..9 /\ rules.buttonSeat \in 0..(n - 1)
  BY DEF Rules
<1>2. seat \in 0..(n - 1)
  BY RankIs
<1>3. \E j \in 1..n : ActiveSeatOrder(n, rules.buttonSeat)[j] = seat
  <2> HIDE DEF n, seat
  <2> QED
    BY ZenonT(60), <1>1, <1>2, PlaceOfSeat
<1>4. i \in 1..n /\ ActiveSeatOrder(n, rules.buttonSeat)[i] = seat
  BY <1>3 DEF Place
<1>5. DealPlan(rules).holeCards[seat] = row
  <2> DEFINE cards == [s \in 0..(n - 1) |-> [r \in 1..2 |-> (r - 1) * n + Place(rules, s) - 1]]
  <2>1. DealPlan(rules).holeCards = cards
    BY <1>1 DEF DealPlan, HoleCount, Place
  <2> QED
    BY <1>2, <2>1
<1>6. HoleCards(rules, p, players) = Range(row)
  BY <1>5 DEF HoleCards, Rank
<1> HIDE DEF n, seat, i
<1>7. DOMAIN row = {1, 2} /\ row[1] = i - 1 /\ row[2] = n + i - 1
  <2>1. 1..2 = {1, 2}
    OBVIOUS
  <2> QED
    BY <1>1, <1>4, <2>1
<1> HIDE DEF row
<1>8. Range(row) = {i - 1, n + i - 1}
  <2>1. Range(row) = {row[x] : x \in {1, 2}}
    BY <1>7 DEF Range
  <2> QED
    BY <1>7, <2>1
<1> QED
  BY <1>4, <1>6, <1>8 DEF n, seat, i

\* No card is dealt twice.
LEMMA CardsDiffer ==
  ASSUME NEW rules \in Rules, rules.seats >= 2, rules.buttonSeat < rules.seats,
         NEW players, players \subseteq Players, rules.seats = Cardinality(players), NEW p \in players
  PROVE  /\ HoleCards(rules, p, players) \cap Range(BoardPositions(rules)) = {}
         /\ \A q \in players \ {p} :
               HoleCards(rules, p, players) \cap HoleCards(rules, q, players) = {}
<1> DEFINE n == rules.seats
           i(q) == Place(rules, Rank(q, players))
<1>1. n \in Nat
  BY DEF Rules
<1>2. ASSUME NEW q \in players
      PROVE  /\ i(q) \in 1..n /\ HoleCards(rules, q, players) = {i(q) - 1, n + i(q) - 1}
             /\ ActiveSeatOrder(n, rules.buttonSeat)[i(q)] = Rank(q, players)
  BY HoleCardsAre
<1> HIDE DEF i
<1>3. HoleCards(rules, p, players) \cap Range(BoardPositions(rules)) = {}
  <2> DEFINE m == 2 * n
             cards == BoardPositions(rules)
  <2>1. cards = <<m + 1, m + 2, m + 3, m + 5, m + 7>> /\ m \in Nat /\ cards \in Seq(Nat) /\ Len(cards) = 5
    BY BoardIs
  <2>2. \A x \in Range(cards) : x > m
    <3> TAKE x \in Range(cards)
    <3>1. PICK j \in 1..5 : x = cards[j]
      <4>1. DOMAIN cards = 1..5
        BY <2>1
      <4> QED
        BY <4>1 DEF Range
    <3>2. /\ cards[1] = m + 1 /\ cards[2] = m + 2 /\ cards[3] = m + 3
          /\ cards[4] = m + 5 /\ cards[5] = m + 7
      BY <2>1
    <3> HIDE DEF m, cards
    <3>3. j = 1 \/ j = 2 \/ j = 3 \/ j = 4 \/ j = 5
      OBVIOUS
    <3> QED
      BY <2>1, <3>1, <3>2, <3>3
  <2>3. i(p) - 1 < m /\ n + i(p) - 1 < m
    BY <1>1, <1>2
  <2> HIDE DEF m, cards
  <2>4. \A x \in HoleCards(rules, p, players) : x \in Int /\ x < m
    BY <1>1, <1>2, <2>3
  <2>5. \A x \in Range(cards) : x \in Int
    <3>1. \A x \in Range(cards) : x \in Nat
      BY <2>1 DEF Range
    <3> QED
      BY <3>1
  <2>6. ASSUME NEW x \in HoleCards(rules, p, players), x \in Range(cards) PROVE FALSE
    BY <2>1, <2>2, <2>4, <2>5, <2>6
  <2> QED
    BY <2>6 DEF cards
<1>4. ASSUME NEW q \in players \ {p}
      PROVE  HoleCards(rules, p, players) \cap HoleCards(rules, q, players) = {}
  <2>1. p \in Nat /\ q \in Nat /\ p # q
    BY PlayersAreNumbers
  <2>2. Rank(p, players) # Rank(q, players)
    <3>1. p < q \/ q < p
      BY <2>1
    <3>2. Rank(p, players) \in Int /\ Rank(q, players) \in Int
      <4>1. Cardinality(players) \in Nat
        BY <1>1
      <4> QED
        BY <4>1, RankIs
    <3>3. p < q => Rank(p, players) < Rank(q, players)
      BY RankIs
    <3>4. q < p => Rank(q, players) < Rank(p, players)
      BY RankIs
    <3> QED
      BY <3>1, <3>2, <3>3, <3>4
  <2>3. i(p) # i(q)
    BY <1>2, <2>2
  <2>4. i(p) \in 1..n /\ i(q) \in 1..n
    BY <1>2
  <2>5. {i(p) - 1, n + i(p) - 1} \cap {i(q) - 1, n + i(q) - 1} = {}
    <3> DEFINE a == i(p)
               b == i(q)
    <3>1. a \in 1..n /\ b \in 1..n /\ a # b
      BY <2>3, <2>4
    <3> HIDE DEF a, b, n
    <3>2. a - 1 # b - 1 /\ a - 1 # n + b - 1 /\ n + a - 1 # b - 1 /\ n + a - 1 # n + b - 1
      BY <1>1, <3>1
    <3> QED
      BY <3>2 DEF a, b
  <2> QED
    BY <1>2, <2>5
<1> QED
  BY <1>3, <1>4

LEMMA SeatsImply ==
  ASSUME TypesInv, PlayInv, SeatInv
  PROVE  CardsShownAreCardsPlayed
<1> SUFFICES ASSUME NEW h \in Hands, h = table.handNumber, Active, ~reseated
             PROVE  /\ table.players = Hand(h).players
                    /\ Hand(h).deckRoot.seeds = Hand(h).players
                    /\ \A p \in table.players :
                          /\ HoleCardsFor(h, p) =
                                IF Hand(h).status = "DEALING" /\ committed[h] # NoDeck
                                THEN SettledWith(p) ELSE {}
                          /\ SettledWith(p) \cap Range(BoardPositions(table.rules)) = {}
                          /\ \A q \in table.players \ {p} : SettledWith(p) \cap SettledWith(q) = {}
  <2>1. Active => table.handNumber \in Hands
    BY TableNumbers DEF PlayInv, TablePlays
  <2> QED
    BY <2>1 DEF CardsShownAreCardsPlayed, Active
<1>1. table.players = Hand(h).players /\ table.rules = Hand(h).rules
  BY DEF SeatInv, HandSeats
<1>2. /\ transcript[h] \in Seq(Event) /\ LogOK(h) /\ Has(transcript[h], "DECK_COMMITTED")
      /\ table.rules \in Rules
  BY DEF TypesInv, PlayInv, TablePlays, BoardOK
<1>3. Hand(h).deckRoot = DeckOf(h)
  <2>1. \E i \in 1..Len(transcript[h]) : /\ transcript[h][i].type = "DECK_COMMITTED"
                                           /\ ReduceHand(transcript[h]).deckRoot = transcript[h][i].deckRoot
    BY <1>2, HandTypes
  <2> QED
    BY <1>2, <2>1 DEF LogOK, Hand
<1>4. DeckOf(h).seeds = Hand(h).players
  <2>1. preparation[h] = Hand(h).playerCommitments /\ Hand(h).playerCommitments = Hand(h).players
    BY <1>2 DEF LogOK
  <2>2. DeckOf(h).seeds = preparation[h]
    BY DEF DeckOf, CommittedHand
  <2> QED
    BY <2>1, <2>2
<1>5. committed[h] # NoDeck => committed[h] = Hand(h).deckRoot
  BY <1>2, <1>3 DEF LogOK
<1>6. /\ table.rules.seats = Cardinality(table.players) /\ table.rules.seats >= 2
      /\ table.rules.buttonSeat < table.rules.seats /\ table.players \subseteq Players
  BY TableFields DEF SeatInv, SeatsFit
<1>7. ASSUME NEW p \in table.players
      PROVE  /\ HoleCardsFor(h, p) = IF Hand(h).status = "DEALING" /\ committed[h] # NoDeck
                                     THEN SettledWith(p) ELSE {}
             /\ SettledWith(p) \cap Range(BoardPositions(table.rules)) = {}
             /\ \A q \in table.players \ {p} : SettledWith(p) \cap SettledWith(q) = {}
  <2>1. HoleCardsFor(h, p) = IF Hand(h).status = "DEALING" /\ committed[h] # NoDeck
                             THEN SettledWith(p) ELSE {}
    BY <1>1, <1>5 DEF HoleCardsFor, SettledWith
  <2>2. /\ HoleCards(table.rules, p, table.players) \cap Range(BoardPositions(table.rules)) = {}
        /\ \A q \in table.players \ {p} :
              HoleCards(table.rules, p, table.players) \cap HoleCards(table.rules, q, table.players) = {}
    BY <1>2, <1>6, CardsDiffer
  <2> QED
    BY <2>1, <2>2 DEF SettledWith
<1> QED
  BY <1>1, <1>3, <1>4, <1>7

LEMMA SeatStutters ==
  ASSUME SeatInv, UNCHANGED vars
  PROVE  SeatInv'
<1>1. UNCHANGED <<table, reseated, transcript, preparation, dealer>>
  BY DEF vars, redis, bounds
<1>2. \A d \in Dealers : RunSeats(d)'
  BY <1>1, RunKeepsSeats DEF SeatInv
<1> QED
  BY <1>1, <1>2 DEF SeatInv, SeatsFit, Untouched, HandSeats, Coming, Due, Active, Hand

\* The players of the table are those whose seeds made the deck, and each is
\* shown the cards it is settled with, which nobody else and no board has -
\* unless somebody came or went while the hand was prepared.
THEOREM CardsAgree == Spec => []CardsShownAreCardsPlayed
<1>1. Init => SeatInv
  BY SeatInit
<1>2. TypesInv /\ PlayInv /\ SeatInv /\ [Next]_vars => SeatInv'
  <2> SUFFICES ASSUME TypesInv, PlayInv, SeatInv, [Next]_vars PROVE SeatInv'
    OBVIOUS
  <2>1. CASE Next
    BY <2>1, SeatNext
  <2>2. CASE UNCHANGED vars
    BY <2>2, SeatStutters
  <2> QED
    BY <2>1, <2>2
<1>3. TypesInv /\ PlayInv /\ SeatInv => CardsShownAreCardsPlayed
  BY SeatsImply
<1> QED
  BY <1>1, <1>2, <1>3, DealerTypes, PTL DEF Spec

----------------------------------------------------------------------------
(* Who is awake *)

\* One run goes on, and the table stays.
LEMMA WakeRun ==
  ASSUME WakeInv, UNCHANGED <<table, announcing>>, Needed' => Needed, scheduled \subseteq scheduled',
         NEW d \in Dealers, \A e \in Dealers : e # d => dealer'[e] = dealer[e],
         Needed /\ Awake(d) => Awake(d)', RunWakes(d)'
  PROVE  WakeInv'
<1>1. ASSUME NEW e \in Dealers, e # d PROVE (Awake(e) => Awake(e)') /\ RunWakes(e)'
  <2>1. RunWakes(e) /\ dealer'[e] = dealer[e]
    BY <1>1 DEF WakeInv
  <2> QED
    BY <2>1 DEF Awake, RunWakes, At, Id, Coming, Active
<1>2. WakeUp'
  <2> SUFFICES ASSUME Needed, scheduled' = {}, announcing' = {} PROVE \E e \in Dealers : Awake(e)'
    BY DEF WakeUp
  <2>1. PICK e \in Dealers : Awake(e)
    BY DEF WakeInv, WakeUp
  <2> QED
    BY <1>1, <2>1
<1> QED
  BY <1>1, <1>2 DEF WakeInv

\* The table wakes a run, or needs none.
LEMMA WakeTable ==
  ASSUME WakeInv, UNCHANGED dealer, table'.status = table.status,
         table'.handNumber = table.handNumber, table'.dealtAt = table.dealtAt,
         \/ scheduled' # {} \/ announcing' # {}
         \/ (Needed' => Needed) /\ UNCHANGED <<scheduled, announcing>>
  PROVE  WakeInv'
<1>1. Active' = Active /\ Coming' = Coming
  BY DEF Active, Coming
<1>2. ASSUME NEW d \in Dealers PROVE (Awake(d) => Awake(d)') /\ RunWakes(d)'
  <2>1. RunWakes(d)
    BY DEF WakeInv
  <2> QED
    BY <1>1, <2>1 DEF Awake, RunWakes, At, Id
<1> QED
  BY <1>2 DEF WakeInv, WakeUp

\* Who is to be woken is not, when others come or go and no betting ends.
LEMMA CountFalls ==
  ASSUME TypesInv, table'.status = table.status, table'.handNumber = table.handNumber,
         table'.betting = table.betting, 0 \in unannounced => 0 \in unannounced',
         ~Active => table'.active \ unannounced' \subseteq table.active \ unannounced
  PROVE  Needed' => Needed
<1>1. Active' = Active
  BY DEF Active
<1>2. CASE Active
  BY <1>1, <1>2 DEF Needed
<1>3. CASE ~Active
  <2> DEFINE S == table.active \ unannounced
             T == table'.active \ unannounced'
  <2>1. T \subseteq S /\ IsFiniteSet(S) /\ Cardinality(S) \in Nat
    <3>1. S \subseteq Players
      BY TableFields
    <3>2. IsFiniteSet(S) /\ Cardinality(S) \in 0..9
      BY <3>1, CountPlayers
    <3> QED
      BY <1>3, <3>2
  <2>2. Cardinality(T) <= Cardinality(S) /\ Cardinality(T) \in Nat
    BY <2>1, FS_Subset, FS_CardinalityType
  <2>3. Needed' => table.handNumber < MaxHands /\ Cardinality(T) >= 2
    BY <1>1, <1>3 DEF Needed
  <2> HIDE DEF T
  <2>4. Needed' => Cardinality(S) >= 2
    BY <2>1, <2>2, <2>3
  <2> QED
    BY <1>3, <2>3, <2>4 DEF Needed
<1> QED
  BY <1>2, <1>3

LEMMA SeatWakes ==
  ASSUME TypesInv, WakeInv,
         \/ \E p \in Players : Return(p) \/ Go(p) \/ \E d \in Dealers : Seat(p, d)
         \/ \E d \in Dealers : Act(d)
  PROVE  WakeInv'
<1>1. CASE \E p \in Players, d \in Dealers : Seat(p, d)
  <2>1. PICK p \in Players, d \in Dealers : Seat(p, d)
    BY <1>1
  <2>2. /\ UNCHANGED <<dealer, scheduled>> /\ p # 0
        /\ table' = [table EXCEPT !.version = @ + 1, !.active = table.active \cup {p}]
        /\ \E active : table' = [table EXCEPT !.version = @ + 1, !.active = active]
        /\ \/ announcing' # {}
           \/ unannounced' = unannounced \cup {p} /\ UNCHANGED announcing
    <3>1. p # 0
      BY PlayersAssumption
    <3>2. /\ table' = [table EXCEPT !.version = @ + 1, !.active = table.active \cup {p}]
          /\ UNCHANGED <<dealer, scheduled>> /\ Committed(d, "PLAYER_SEATED", p)
      BY <2>1 DEF Seat
    <3>3. \/ announcing' # {}
          \/ unannounced' = unannounced \cup {p} /\ UNCHANGED announcing
      BY <3>2 DEF Committed
    <3> QED
      BY <3>1, <3>2, <3>3
  <2>3. CASE announcing' # {}
    BY <2>2, <2>3, TableChanges, WakeTable
  <2>4. CASE unannounced' = unannounced \cup {p} /\ UNCHANGED announcing
    <3>1. table'.active = table.active \cup {p} /\ table'.betting = table.betting
      BY <2>2, TableFields DEF TableType
    <3>2. Needed' => Needed
      BY <2>2, <2>4, <3>1, TableChanges, CountFalls
    <3> QED
      BY <2>2, <2>4, <3>2, TableChanges, WakeTable
  <2> QED
    BY <2>2, <2>3, <2>4
<1>2. CASE \E d \in Dealers : Act(d)
  <2>1. /\ UNCHANGED <<dealer, scheduled>> /\ Active /\ table.betting = "BETTING"
        /\ \E next \in RoundEnds(table.board) :
              table' = [table EXCEPT !.version = @ + 1, !.betting = next]
        /\ \/ announcing' # {}
           \/ 0 \in unannounced' /\ UNCHANGED announcing
    BY <1>2 DEF Act, Committed, Active
  <2>2. CASE announcing' # {}
    BY <2>1, <2>2, TableChanges, WakeTable
  <2>3. CASE 0 \in unannounced' /\ UNCHANGED announcing
    <3>1. table'.status = table.status
      BY <2>1, TableChanges
    <3>2. ~Needed'
      BY <2>1, <2>3, <3>1 DEF Needed, Active
    <3> QED
      BY <2>1, <2>3, <3>2, TableChanges, WakeTable
  <2> QED
    BY <2>1, <2>2, <2>3
<1>3. ASSUME NEW p \in Players, Return(p) \/ Go(p) PROVE WakeInv'
  <2>1. /\ UNCHANGED <<dealer, scheduled, announcing>>
        /\ \E active : table' = [table EXCEPT !.version = @ + 1, !.active = active]
        /\ 0 \in unannounced => 0 \in unannounced'
    <3>1. CASE Return(p)
      <4>1. table' = [table EXCEPT !.version = @ + 1, !.active = table.active \cup {p}]
        BY <3>1 DEF Return
      <4> QED
        BY <3>1, <4>1 DEF Return
    <3>2. CASE Go(p)
      <4>1. PICK active :
               /\ active = IF InHand(p) THEN table.active ELSE table.active \ {p}
               /\ table' = [table EXCEPT !.version = @ + 1, !.active = active]
        BY <3>2 DEF Go
      <4>2. p # 0
        BY PlayersAssumption
      <4> QED
        BY <3>2, <4>1, <4>2 DEF Go
    <3> QED
      BY <1>3, <3>1, <3>2
  <2>2. /\ table'.status = table.status /\ table'.handNumber = table.handNumber
        /\ table'.dealtAt = table.dealtAt
        /\ table'.betting = table.betting \/ (Active /\ table.betting = "BETTING")
    BY <2>1, TableChanges
  <2>3. table'.betting = table.betting
    <3>1. table \in TableType
      BY TableFields
    <3> QED
      BY <2>1, <3>1 DEF TableType
  <2>4. ~Active => table'.active \ unannounced' \subseteq table.active \ unannounced
    <3> HAVE ~Active
    <3>1. table \in TableType
      BY TableFields
    <3>2. CASE Return(p)
      <4>1. table' = [table EXCEPT !.version = @ + 1, !.active = @ \cup {p}]
            /\ unannounced' = unannounced \cup {p}
        BY <3>2 DEF Return
      <4>2. table'.active = table.active \cup {p}
        BY <3>1, <4>1 DEF TableType
      <4> QED
        BY <4>1, <4>2
    <3>3. CASE Go(p)
      <4>1. table' = [table EXCEPT !.version = @ + 1, !.active = @ \ {p}]
            /\ unannounced' = unannounced \ {p}
        BY <3>3 DEF Go, InHand, Active
      <4>2. table'.active = table.active \ {p}
        BY <3>1, <4>1 DEF TableType
      <4> QED
        BY <4>1, <4>2
    <3> QED
      BY <1>3, <3>2, <3>3
  <2>5. Needed' => Needed
    BY <2>1, <2>2, <2>3, <2>4, CountFalls
  <2> QED
    BY <2>1, <2>2, <2>5, WakeTable
<1> QED
  BY <1>1, <1>2, <1>3

LEMMA AnnounceWakes ==
  ASSUME AnnouncedTypes, WakeInv, NEW a \in announcing, Announce(a)
  PROVE  WakeInv'
<1>1. a.type \in {"PLAYER_SEATED", "ACTION_APPLIED"}
  BY DEF AnnouncedTypes
<1>2. UNCHANGED <<table, dealer>> /\ scheduled' # {}
  BY <1>1 DEF Announce, Wake, Listens
<1> QED
  BY <1>2, WakeTable

LEMMA LockWakes ==
  ASSUME TypesInv, WakeInv, NEW d \in Dealers,
         Acquire(d) \/ ReadTable(d) \/ Release(d) \/ Crash(d) \/ Fault(d)
  PROVE  WakeInv'
<1>1. CASE Acquire(d)
  <2>1. Goto(d, "run") /\ UNCHANGED <<table, announcing, unannounced>>
    BY <1>1 DEF Acquire
  <2>2. dealer'[d].pc = "run" /\ \A e \in Dealers : e # d => dealer'[e] = dealer[e]
    BY <2>1, GotoIs
  <2>3. Awake(d)' /\ RunWakes(d)'
    BY <2>2 DEF Awake, RunWakes, At
  <2>4. ASSUME NEW e \in Dealers, e # d PROVE RunWakes(e)'
    <3>1. RunWakes(e) /\ dealer'[e] = dealer[e]
      BY <2>2, <2>4 DEF WakeInv
    <3> QED
      BY <2>1, <3>1 DEF RunWakes, At, Id, Active
  <2> QED
    BY <2>3, <2>4 DEF WakeInv, WakeUp
<1>2. CASE ReadTable(d)
  <2>1. UNCHANGED <<table, scheduled>> /\ unannounced' = {}
    BY <1>2 DEF ReadTable
  <2>2. /\ \A e \in Dealers : e # d => dealer'[e] = dealer[e]
        /\ dealer'[d] = IF Active THEN [pc |-> "advance"]
                        ELSE IF Cardinality(table.active) < 2 \/ table.handNumber = MaxHands
                             THEN [pc |-> "release"]
                             ELSE [pc |-> "prepare", setup |-> NextHandSetup(table)]
        /\ dealer'[d].pc \in {"advance", "release", "prepare"}
    BY <1>2, ReadTableGoes
  <2>3. RunWakes(d)'
    BY <2>2 DEF RunWakes, At
  <2>4. ASSUME Needed' PROVE Awake(d)'
    <3>1. CASE Active
      <4>1. dealer'[d].pc = "advance" /\ Active'
        BY <2>1, <2>2, <3>1 DEF Active
      <4> QED
        BY <4>1 DEF Awake
    <3>2. CASE ~Active
      <4>1. table.handNumber < MaxHands /\ Cardinality(table.active) >= 2
        <5>1. table.active \ {} = table.active
          OBVIOUS
        <5> QED
          BY <2>1, <2>4, <3>2, <5>1 DEF Needed, Active
      <4>2. Cardinality(table.active) \in 0..9 /\ table.handNumber \in Nat
        BY TableFields, CountPlayers, TableNumbers
      <4>3. ~(Cardinality(table.active) < 2) /\ table.handNumber # MaxHands
        BY <4>1, <4>2, BoundsAssumption
      <4>4. dealer'[d] = [pc |-> "prepare", setup |-> NextHandSetup(table)]
        BY <2>2, <3>2, <4>3
      <4>5. NextHandSetup(table).handId = Coming
        BY <4>1, TableFields, SetupOK DEF Coming
      <4>6. dealer'[d].pc = "prepare" /\ Id(d)' = Coming /\ Coming' = Coming
        BY <2>1, <4>4, <4>5 DEF Id, Coming
      <4> QED
        BY <4>6 DEF Awake, Preparing
    <3> QED
      BY <3>1, <3>2
  <2>5. ASSUME NEW e \in Dealers, e # d PROVE RunWakes(e)'
    <3>1. RunWakes(e) /\ dealer'[e] = dealer[e]
      BY <2>2, <2>5 DEF WakeInv
    <3> QED
      BY <2>1, <3>1 DEF RunWakes, At, Id, Active
  <2> QED
    BY <2>3, <2>4, <2>5 DEF WakeInv, WakeUp
<1>3. CASE Release(d) \/ Crash(d)
  <2>1. dealer' = [dealer EXCEPT ![d] = Idle] /\ UNCHANGED <<table, unannounced>> /\ Idle.pc = "idle"
    BY <1>3 DEF Release, Crash, Idle
  <2>2. dealer'[d] = Idle /\ \A e \in Dealers : e # d => dealer'[e] = dealer[e]
    BY <2>1, RunTo
  <2>3. RunWakes(d)'
    BY <2>1, <2>2 DEF RunWakes, At
  <2>4. CASE scheduled' # {}
    <3>1. ASSUME NEW e \in Dealers, e # d PROVE RunWakes(e)'
      <4>1. RunWakes(e) /\ dealer'[e] = dealer[e]
        BY <2>2, <3>1 DEF WakeInv
      <4> QED
        BY <2>1, <4>1 DEF RunWakes, At, Id, Active
    <3> QED
      BY <2>3, <2>4, <3>1 DEF WakeInv, WakeUp
  <2>5. CASE scheduled' = {}
    <3>1. At(d, "release") /\ scheduled \subseteq scheduled' /\ UNCHANGED announcing
      BY <1>3, <2>5 DEF Release, Crash, Wake, At
    <3>2. ~Awake(d)
      BY <3>1 DEF Awake, At, Preparing
    <3>3. Needed' => Needed
      BY <2>1 DEF Needed, Active
    <3> QED
      BY <2>1, <2>2, <2>3, <3>1, <3>2, <3>3, WakeRun
  <2> QED
    BY <2>4, <2>5
<1>4. CASE Fault(d)
  <2>1. UNCHANGED <<table, announcing, unannounced, scheduled>>
    BY <1>4 DEF Fault
  <2>2. Needed' => Needed
    BY <2>1 DEF Needed, Active
  <2>3. CASE dealer[d].pc \in {"find", "append"}
    <3>1. Goto(d, "undo")
      BY <1>4, <2>3 DEF Fault
    <3>2. /\ dealer'[d].setup = dealer[d].setup /\ dealer'[d].pc = "undo"
          /\ \A e \in Dealers : e # d => dealer'[e] = dealer[e]
      BY <2>3, <3>1, GotoPrepared
    <3>3. (Awake(d) => Awake(d)') /\ RunWakes(d)'
      BY <2>1, <2>3, <3>2 DEF Awake, RunWakes, At, Preparing, Id, Coming, Active
    <3> QED
      BY <2>1, <2>2, <3>2, <3>3, WakeRun
  <2>4. CASE dealer[d].pc \notin {"find", "append"}
    <3>1. Goto(d, "failed")
      BY <1>4, <2>4 DEF Fault
    <3>2. dealer'[d].pc = "failed" /\ \A e \in Dealers : e # d => dealer'[e] = dealer[e]
      BY <3>1, GotoIs
    <3>3. Awake(d)' /\ RunWakes(d)'
      BY <3>2 DEF Awake, RunWakes, At
    <3> QED
      BY <2>1, <2>2, <3>2, <3>3, WakeRun
  <2> QED
    BY <2>3, <2>4
<1> QED
  BY <1>1, <1>2, <1>3, <1>4

LEMMA PrepareWakes ==
  ASSUME TypesInv, WakeInv, NEW d \in Dealers, Prepares(d)
  PROVE  WakeInv'
<1>1. /\ dealer[d].pc \in Preparing \ {"start"} /\ Prepared(d)
      /\ \A e \in Dealers : e # d => dealer'[e] = dealer[e]
      /\ UNCHANGED <<table, scheduled, announcing, unannounced>>
  BY PrepareSteps
<1>2. Needed' => Needed
  BY <1>1 DEF Needed, Active
<1>3. CASE dealer'[d].pc = "failed"
  <2>1. Awake(d)' /\ RunWakes(d)'
    BY <1>3 DEF Awake, RunWakes, At
  <2> QED
    BY <1>1, <1>2, <2>1, WakeRun
<1>4. CASE dealer'[d].pc \in Preparing \ {"start"} /\ dealer'[d].setup = dealer[d].setup
  <2>1. RunWakes(d)'
    BY <1>4 DEF RunWakes, At, Preparing
  <2>2. Awake(d) => Awake(d)'
    <3>1. Id(d)' = Id(d) /\ Coming' = Coming /\ Active' = Active
      BY <1>1, <1>4 DEF Id, Coming, Active
    <3> QED
      BY <1>1, <1>4, <3>1 DEF Awake, Preparing
  <2> QED
    BY <1>1, <1>2, <2>1, <2>2, WakeRun
<1> QED
  BY <1>1, <1>3, <1>4 DEF Prepared

\* A command of the table takes effect on the version its run has read: none
\* that is left has the version it was computed on.
LEMMA CommandWakes ==
  ASSUME TypesInv, PlayInv, SeatInv, NEW d \in Dealers,
         table'.dealtAt = table.version, \A e \in Dealers : e # d => dealer'[e] = dealer[e],
         \A e \in Dealers : dealer[e].pc = "start" /\ dealer[e].view = table.version =>
                               Id(e) <= table'.handNumber,
         \A e \in Dealers : dealer[e].pc \in {"complete", "finish"} /\ dealer[e].view = table.version =>
                               table'.status # "HAND_ACTIVE",
         dealer'[d].pc \notin {"start", "complete", "finish"}
  PROVE  \A e \in Dealers : RunWakes(e)'
<1> TAKE e \in Dealers
<1>1. CASE e = d
  BY <1>1 DEF RunWakes, At
<1>2. CASE e # d
  <2>1. dealer'[e] = dealer[e] /\ Id(e)' = Id(e)
    BY <1>2 DEF Id
  <2> QED
    BY <2>1 DEF RunWakes, At, Active
<1> QED
  BY <1>1, <1>2

LEMMA FailWakes ==
  ASSUME TypesInv, WakeInv, NEW d \in Dealers, Fail(d), UNCHANGED <<announcing, unannounced>>
  PROVE  WakeInv'
<1>1. /\ dealer'[d].pc = "failed" /\ UNCHANGED <<table, scheduled>>
      /\ \A e \in Dealers : e # d => dealer'[e] = dealer[e]
  BY GotoIs DEF Fail
<1>2. Awake(d)' /\ RunWakes(d)'
  BY <1>1 DEF Awake, RunWakes, At
<1>3. Needed' => Needed
  BY <1>1 DEF Needed, Active
<1> QED
  BY <1>1, <1>2, <1>3, WakeRun

LEMMA ReadForStartWakes ==
  ASSUME TypesInv, PlayInv, WakeInv, NEW d \in Dealers, ReadForStart(d)
  PROVE  WakeInv'
<1>1. /\ dealer[d].pc = "hand" /\ UNCHANGED <<table, transcript, scheduled, announcing, unannounced>>
      /\ Seen(d).status \in {"DEALING", "COMPLETE"}
  BY DEF ReadForStart, At, Keep
<1> DEFINE goes == Seen(d).status = "DEALING" /\ table.status = "WAITING"
           call == IF goes
                   THEN [pc |-> "start", setup |-> dealer[d].setup, seen |-> dealer[d].seen, view |-> table.version]
                   ELSE [pc |-> "advance"]
<1>2. dealer' = [dealer EXCEPT ![d] = call]
  BY DEF ReadForStart
<1>3. dealer'[d] = call /\ \A e \in Dealers : e # d => dealer'[e] = dealer[e]
  <2> HIDE DEF call
  <2> QED
    BY <1>2, RunTo
<1>4. Needed' => Needed
  BY <1>1 DEF Needed, Active
<1>5. CASE goes
  <2>1. dealer'[d].pc = "start" /\ Id(d)' = Id(d) /\ dealer'[d].view = table.version
    BY <1>3, <1>5 DEF Id
  <2>2. RunWakes(d)'
    BY <1>1, <2>1, TableFields DEF RunWakes, At
  <2>3. Awake(d) => Awake(d)'
    <3>1. Coming' = Coming /\ Active' = Active
      BY <1>1 DEF Coming, Active
    <3> QED
      BY <1>1, <2>1, <3>1 DEF Awake, Preparing
  <2> QED
    BY <1>1, <1>3, <1>4, <2>2, <2>3, WakeRun
<1>6. CASE ~goes
  <2>1. dealer'[d].pc = "advance"
    BY <1>3, <1>6
  <2>2. RunWakes(d)'
    BY <2>1 DEF RunWakes, At
  <2>3. Active => Awake(d)'
    BY <1>1, <2>1 DEF Awake, Active
  <2>4. ~Active => ~Awake(d)
    <3> HAVE ~Active
    <3>1. Seen(d).status = "COMPLETE"
      <4>1. table.status = "WAITING"
        BY TableFields DEF Active
      <4> QED
        BY <1>1, <1>6, <4>1
    <3>2. Id(d) \in Hands /\ Has(Log(d), "HAND_COMPLETED")
      <4>1. /\ Id(d) \in Hands /\ Read(d) \in Seq(Event) /\ Log(d) \in Seq(Event)
            /\ Begins(Read(d), Log(d)) /\ Seen(d) = ReduceHand(Read(d))
        BY <1>1, SeenPart DEF Logging
      <4>2. Has(Read(d), "HAND_COMPLETED")
        BY <3>1, <4>1, Status
      <4> QED
        BY <4>1, <4>2, HandStays
    <3>3. ~(Id(d) > table.handNumber)
      BY <3>2 DEF PlayInv, HandsPlayed, Log
    <3>4. Id(d) # Coming
      BY <3>2, <3>3, ComingIs
    <3> QED
      BY <1>1, <3>4 DEF Awake, Preparing
  <2> QED
    BY <1>1, <1>3, <1>4, <2>2, <2>3, <2>4, WakeRun
<1> QED
  BY <1>5, <1>6

LEMMA StartWakes ==
  ASSUME TypesInv, PlayInv, SeatInv, WakeInv, NEW d \in Dealers, StartHand(d)
  PROVE  WakeInv'
<1>1. /\ dealer[d].pc = "start" /\ UNCHANGED <<announcing, unannounced>> /\ RunPlays(d) /\ RunWakes(d)
  BY StartSteps DEF At, Keep, PlayInv, WakeInv
<1>2. CASE /\ table.version = dealer[d].view
           /\ Cardinality(table.active) >= 2 /\ table.handNumber + 1 = Id(d)
           /\ \E betting \in {"BETTING", "AWAITING_RUNOUT"} :
                 table' = Started(d, NextHandSetup(table), betting)
           /\ dealer' = [dealer EXCEPT ![d] = [pc |-> "advance"]]
           /\ UNCHANGED <<transcript, redis, scheduled>>
  <2> DEFINE setup == NextHandSetup(table)
  <2>1. setup.handId = Coming
    BY <1>2, TableFields, SetupOK DEF Coming
  <2> HIDE DEF setup
  <2>2. table'.handNumber = Coming /\ table'.status = "HAND_ACTIVE" /\ table'.dealtAt = table.version
    <3>1. PICK betting \in {"BETTING", "AWAITING_RUNOUT"} : table' = Started(d, setup, betting)
      BY <1>2 DEF setup
    <3>2. table \in TableType
      BY TableFields
    <3> QED
      BY <2>1, <3>1, <3>2 DEF Started, TableType
  <2>3. dealer'[d] = [pc |-> "advance"] /\ \A e \in Dealers : e # d => dealer'[e] = dealer[e]
    BY <1>2, RunTo
  <2>4. dealer'[d].pc = "advance" /\ Active'
    BY <2>2, <2>3 DEF Active
  <2>5. Awake(d)'
    BY <2>4 DEF Awake
  <2>6. \A e \in Dealers : dealer[e].pc = "start" => Id(e) <= table'.handNumber
    <3> TAKE e \in Dealers
    <3> HAVE dealer[e].pc = "start"
    <3>1. RunSeats(e)
      BY DEF SeatInv
    <3> QED
      BY <2>2, <3>1 DEF RunSeats, Preparing
  <2>7. \A e \in Dealers : ~(dealer[e].pc \in {"complete", "finish"} /\ dealer[e].view = table.version)
    <3>1. ~Active
      BY <1>1, <1>2 DEF RunPlays
    <3> TAKE e \in Dealers
    <3>2. RunPlays(e)
      BY DEF PlayInv
    <3> QED
      BY <3>1, <3>2 DEF RunPlays
  <2>8. \A e \in Dealers : RunWakes(e)'
    BY <2>2, <2>3, <2>4, <2>6, <2>7, CommandWakes
  <2> QED
    BY <2>5, <2>8 DEF WakeInv, WakeUp
<1>3. CASE /\ table.dealtAt = dealer[d].view
           /\ dealer' = [dealer EXCEPT ![d] = [pc |-> "advance"]]
           /\ UNCHANGED <<table, transcript, redis, scheduled>>
  <2>1. dealer'[d] = [pc |-> "advance"] /\ \A e \in Dealers : e # d => dealer'[e] = dealer[e]
    BY <1>3, RunTo
  <2>2. dealer'[d].pc = "advance"
    BY <2>1
  <2>3. RunWakes(d)' /\ (Active => Awake(d)')
    BY <1>3, <2>2 DEF RunWakes, At, Awake, Active
  <2>4. ~Active => ~Awake(d)
    <3>1. Id(d) <= table.handNumber
      BY <1>1, <1>3 DEF RunWakes, At
    <3>2. Id(d) \in Hands
      BY <1>1 DEF TypesInv, RunOK, Preparing
    <3>3. Id(d) # Coming
      BY <3>1, <3>2, ComingIs
    <3> QED
      BY <1>1, <3>3 DEF Awake, Preparing
  <2>5. Needed' => Needed
    BY <1>1, <1>3 DEF Needed, Active
  <2> QED
    BY <1>1, <1>3, <2>1, <2>3, <2>4, <2>5, WakeRun
<1>4. CASE Fail(d)
  BY <1>1, <1>4, FailWakes
<1> QED
  BY <1>2, <1>3, <1>4, StartSteps

LEMMA DealWakes ==
  ASSUME TypesInv, PlayInv, SeatInv, WakeInv, NEW d \in Dealers, DealBoard(d)
  PROVE  WakeInv'
<1>1. /\ dealer[d].pc = "reveal" /\ UNCHANGED <<announcing, unannounced>> /\ RunPlays(d)
  BY DealSteps DEF At, Keep, PlayInv
<1>2. CASE /\ table.version = dealer[d].view /\ table' = Dealt
           /\ scheduled' = scheduled \cup {d}
           /\ dealer' = [dealer EXCEPT ![d] = [pc |-> "advance"]]
  <2>1. Active /\ table.betting \in Awaiting
    BY <1>1, <1>2 DEF RunPlays
  <2>2. table'.handNumber = table.handNumber /\ table'.dealtAt = table.version
    <3>1. table \in TableType
      BY TableFields
    <3> QED
      BY <1>2, <3>1 DEF Dealt, TableType
  <2>3. dealer'[d] = [pc |-> "advance"] /\ \A e \in Dealers : e # d => dealer'[e] = dealer[e]
    BY <1>2, RunTo
  <2>4. dealer'[d].pc = "advance"
    BY <2>3
  <2>5. \A e \in Dealers : /\ ~(dealer[e].pc = "start" /\ dealer[e].view = table.version)
                           /\ ~(dealer[e].pc \in {"complete", "finish"} /\ dealer[e].view = table.version)
    <3> TAKE e \in Dealers
    <3>1. RunPlays(e)
      BY DEF PlayInv
    <3> QED
      BY <2>1, <3>1 DEF RunPlays, Awaiting, Ended
  <2>6. \A e \in Dealers : RunWakes(e)'
    BY <2>2, <2>3, <2>4, <2>5, CommandWakes
  <2> QED
    BY <1>2, <2>6 DEF WakeInv, WakeUp
<1>3. CASE /\ dealer' = [dealer EXCEPT ![d] = [pc |-> "advance"]]
           /\ UNCHANGED <<table, transcript, redis, scheduled>>
  <2>1. dealer'[d] = [pc |-> "advance"] /\ \A e \in Dealers : e # d => dealer'[e] = dealer[e]
    BY <1>3, RunTo
  <2>2. dealer'[d].pc = "advance"
    BY <2>1
  <2>3. RunWakes(d)' /\ (Awake(d) => Awake(d)')
    BY <1>1, <1>3, <2>2 DEF RunWakes, At, Awake, Active, Preparing
  <2>4. Needed' => Needed
    BY <1>1, <1>3 DEF Needed, Active
  <2> QED
    BY <1>1, <1>3, <2>1, <2>3, <2>4, WakeRun
<1>4. CASE Fail(d)
  BY <1>1, <1>4, FailWakes
<1> QED
  BY <1>2, <1>3, <1>4, DealSteps

LEMMA FinishWakes ==
  ASSUME TypesInv, PlayInv, SeatInv, WakeInv, NEW d \in Dealers, FinishHand(d)
  PROVE  WakeInv'
<1>1. /\ dealer[d].pc = "finish" /\ UNCHANGED <<announcing, unannounced>> /\ RunPlays(d) /\ RunWakes(d)
  BY FinishSteps DEF At, Keep, PlayInv, WakeInv
<1>2. CASE /\ table.version = dealer[d].view
           /\ \E gone \in SUBSET table.players : table' = Finished(gone)
           /\ scheduled' = scheduled \cup {d}
           /\ dealer' = [dealer EXCEPT ![d] = [pc |-> "release"]]
  <2>1. Active
    BY <1>1, <1>2 DEF RunPlays
  <2>2. table'.status = "WAITING" /\ table'.dealtAt = table.version
    <3>1. table \in TableType
      BY TableFields
    <3> QED
      BY <1>2, <3>1 DEF Finished, TableType
  <2>3. dealer'[d] = [pc |-> "release"] /\ \A e \in Dealers : e # d => dealer'[e] = dealer[e]
    BY <1>2, RunTo
  <2>4. dealer'[d].pc = "release"
    BY <2>3
  <2>5. \A e \in Dealers : ~(dealer[e].pc = "start" /\ dealer[e].view = table.version)
    <3> TAKE e \in Dealers
    <3>1. RunPlays(e)
      BY DEF PlayInv
    <3> QED
      BY <2>1, <3>1 DEF RunPlays
  <2>6. \A e \in Dealers : RunWakes(e)'
    BY <2>2, <2>3, <2>4, <2>5, CommandWakes
  <2> QED
    BY <1>2, <2>6 DEF WakeInv, WakeUp
<1>3. CASE /\ table.dealtAt = dealer[d].view
           /\ dealer' = [dealer EXCEPT ![d] = [pc |-> "release"]]
           /\ UNCHANGED <<table, transcript, redis, scheduled>>
  <2>1. dealer'[d] = [pc |-> "release"] /\ \A e \in Dealers : e # d => dealer'[e] = dealer[e]
    BY <1>3, RunTo
  <2>2. dealer'[d].pc = "release"
    BY <2>1
  <2>3. RunWakes(d)'
    BY <2>2 DEF RunWakes, At
  <2>4. ~Awake(d)
    BY <1>1, <1>3 DEF RunWakes, Awake, Preparing
  <2>5. Needed' => Needed
    BY <1>1, <1>3 DEF Needed, Active
  <2> QED
    BY <1>1, <1>3, <2>1, <2>3, <2>4, <2>5, WakeRun
<1>4. CASE Fail(d)
  BY <1>1, <1>4, FailWakes
<1> QED
  BY <1>2, <1>3, <1>4, FinishSteps

LEMMA AdvanceWakes ==
  ASSUME TypesInv, WakeInv, NEW d \in Dealers, Advance(d)
  PROVE  WakeInv'
<1> DEFINE ends == table.betting \in {"COMPLETE", "SHOWDOWN"}
           rests == table.status # "HAND_ACTIVE" \/ table.betting = "BETTING"
           call == IF rests THEN [pc |-> "release"]
                   ELSE [pc |-> IF ends THEN "complete" ELSE "reveal",
                         setup |-> [handId |-> table.handNumber],
                         seen |-> Len(transcript[table.handNumber]), view |-> table.version,
                         wanted |-> IF ends THEN <<>> ELSE Wanted(table)]
<1>1. /\ dealer[d].pc = "advance" /\ dealer' = [dealer EXCEPT ![d] = call]
      /\ UNCHANGED <<table, scheduled, announcing>> /\ unannounced' = unannounced \ {0}
  BY DEF Advance, At
<1>2. dealer'[d] = call /\ \A e \in Dealers : e # d => dealer'[e] = dealer[e]
  <2> HIDE DEF call
  <2> QED
    BY <1>1, RunTo
<1>3. CASE rests
  <2>1. dealer'[d].pc = "release"
    BY <1>2, <1>3
  <2>2. RunWakes(d)'
    BY <2>1 DEF RunWakes, At
  <2>3. Needed /\ Awake(d) => FALSE
    BY <1>1, <1>3 DEF Needed, Awake, Active, Preparing
  <2>4. Needed' => Needed
    <3>1. table.active \ unannounced' = table.active \ unannounced
      BY <1>1, TableFields, PlayersAssumption
    <3> QED
      BY <1>1, <1>3, <3>1 DEF Needed, Active
  <2> QED
    BY <1>1, <1>2, <2>2, <2>3, <2>4, WakeRun
<1>4. CASE ~rests
  <2>1. dealer'[d].pc \in {"complete", "reveal"} /\ dealer'[d].view = table.version
    BY <1>2, <1>4
  <2>2. RunWakes(d)'
    BY <1>1, <2>1, TableFields DEF RunWakes, At
  <2>3. Awake(d)'
    <3>1. Active'
      BY <1>1, <1>4 DEF Active
    <3> QED
      BY <2>1, <3>1 DEF Awake
  <2>4. ASSUME NEW e \in Dealers, e # d PROVE RunWakes(e)'
    <3>1. RunWakes(e) /\ dealer'[e] = dealer[e]
      BY <1>2, <2>4 DEF WakeInv
    <3> QED
      BY <1>1, <3>1 DEF RunWakes, At, Id, Active
  <2> QED
    BY <2>2, <2>3, <2>4 DEF WakeInv, WakeUp
<1> QED
  BY <1>3, <1>4

LEMMA RevealWakes ==
  ASSUME TypesInv, WakeInv, NEW d \in Dealers, RevealPublicCard(d)
  PROVE  WakeInv'
<1>1. /\ dealer[d].pc = "reveal" /\ UNCHANGED <<table, scheduled, announcing, unannounced>>
  BY RevealSteps DEF At, Keep
<1>2. /\ \A e \in Dealers : e # d => dealer'[e] = dealer[e]
      /\ dealer'[d].pc \in {"reveal", "failed"}
  <2>1. \A e \in Dealers : e # d => dealer'[e] = dealer[e]
    BY DealingSteps
  <2>2. dealer'[d].pc \in {"reveal", "failed"}
    BY RevealGoes
  <2> QED
    BY <2>1, <2>2
<1>3. RunWakes(d)'
  BY <1>2 DEF RunWakes, At
<1>4. Awake(d) => Awake(d)'
  BY <1>1, <1>2 DEF Awake, Active, Preparing
<1>5. Needed' => Needed
  BY <1>1 DEF Needed, Active
<1> QED
  BY <1>1, <1>2, <1>3, <1>4, <1>5, WakeRun

LEMMA CompleteWakes ==
  ASSUME TypesInv, WakeInv, NEW d \in Dealers, CompleteHand(d)
  PROVE  WakeInv'
<1> SUFFICES ASSUME NEW h \in Hands, h = Id(d) PROVE WakeInv'
  BY CompleteSteps
<1> DEFINE call == [pc |-> "finish", view |-> dealer[d].view, bundle |-> AuditBundle(committed[h])]
<1>1. /\ dealer[d].pc = "complete" /\ UNCHANGED <<table, scheduled, announcing, unannounced>> /\ RunWakes(d)
  BY CompleteSteps DEF At, Keep, Fail, WakeInv
<1>2. CASE Fail(d)
  BY <1>1, <1>2, FailWakes
<1>3. CASE dealer' = [dealer EXCEPT ![d] = call]
  <2>1. dealer'[d] = call /\ \A e \in Dealers : e # d => dealer'[e] = dealer[e]
    <3> HIDE DEF call
    <3> QED
      BY <1>3, RunTo
  <2>2. dealer'[d].pc = "finish" /\ dealer'[d].view = dealer[d].view
    BY <2>1
  <2>3. RunWakes(d)' /\ (Awake(d) => Awake(d)')
    BY <1>1, <2>2 DEF RunWakes, Awake, At, Active, Preparing
  <2>4. Needed' => Needed
    BY <1>1 DEF Needed, Active
  <2> QED
    BY <1>1, <2>1, <2>3, <2>4, WakeRun
<1> QED
  BY <1>2, <1>3, CompleteSteps

LEMMA WakeInit == ASSUME Init PROVE WakeInv
<1>1. /\ table.status = "WAITING" /\ table.active = {Min(Players)}
      /\ unannounced = {} /\ dealer = [d \in Dealers |-> Idle] /\ Idle.pc = "idle"
  BY DEF Init, Idle
<1>2. Cardinality(table.active \ unannounced) = 1
  <2>1. table.active \ unannounced = {Min(Players)}
    BY <1>1
  <2> QED
    BY <2>1, FS_Singleton
<1>3. ~Needed
  BY <1>1, <1>2 DEF Needed, Active
<1>4. \A d \in Dealers : RunWakes(d)
  BY <1>1 DEF RunWakes, At
<1> QED
  BY <1>3, <1>4 DEF WakeInv, WakeUp

LEMMA WakeNext ==
  ASSUME TypesInv, AnnouncedTypes, PlayInv, SeatInv, WakeInv, Next
  PROVE  WakeInv'
<1>1. CASE \E p \in Players : Return(p) \/ Go(p) \/ \E d \in Dealers : Seat(p, d)
  BY <1>1, SeatWakes
<1>2. CASE Expire
  BY <1>2, WakeTable DEF Expire, Needed, Active
<1>3. ASSUME NEW d \in Dealers, Act(d) \/ RunStep(d) \/ Crash(d) \/ Fault(d) PROVE WakeInv'
  <2>1. CASE Act(d)
    BY <2>1, SeatWakes
  <2>2. CASE Acquire(d) \/ ReadTable(d) \/ Release(d) \/ Crash(d) \/ Fault(d)
    BY <2>2, LockWakes
  <2>3. CASE Prepares(d)
    BY <2>3, PrepareWakes
  <2>4. CASE ReadForStart(d) \/ StartHand(d) \/ Advance(d) \/ RevealPublicCard(d)
    BY <2>4, ReadForStartWakes, StartWakes, AdvanceWakes, RevealWakes
  <2>5. CASE DealBoard(d) \/ CompleteHand(d) \/ FinishHand(d)
    BY <2>5, DealWakes, CompleteWakes, FinishWakes
  <2> QED
    BY <1>3, <2>1, <2>2, <2>3, <2>4, <2>5 DEF RunStep, Prepares
<1>4. CASE \E a \in announcing : Announce(a)
  BY <1>4, AnnounceWakes
<1> QED
  BY <1>1, <1>2, <1>3, <1>4 DEF Next

\* A table that waits for its dealer has a run going or scheduled, or an event
\* that is still to be announced; but for players who came back, and for those
\* who sat down and betting that ended by an event whose append was not answered.
THEOREM NobodySleepsThrough == Spec => []NoLostWakeup
<1>1. Init => SeatInv /\ WakeInv
  BY SeatInit, WakeInit
<1>2. TypesInv /\ AnnouncedTypes /\ PlayInv /\ SeatInv /\ WakeInv /\ [Next]_vars
         => SeatInv' /\ WakeInv'
  <2> SUFFICES ASSUME TypesInv, AnnouncedTypes, PlayInv, SeatInv, WakeInv, [Next]_vars
               PROVE  SeatInv' /\ WakeInv'
    OBVIOUS
  <2>1. CASE Next
    BY <2>1, SeatNext, WakeNext
  <2>2. CASE UNCHANGED vars
    <3>1. UNCHANGED <<table, scheduled, announcing, dealer, unannounced>>
      BY <2>2 DEF vars
    <3>2. WakeInv'
      BY <3>1 DEF WakeInv, WakeUp, RunWakes, Needed, Awake, At, Id, Coming, Active
    <3> QED
      BY <2>2, <3>2, SeatStutters
  <2> QED
    BY <2>1, <2>2
<1>3. TypesInv /\ WakeInv => NoLostWakeup
  <2> SUFFICES ASSUME TypesInv, WakeInv, Awaits, Asleep
               PROVE  IF table.status = "WAITING"
                      THEN Cardinality(table.active \ unannounced) < 2
                      ELSE 0 \in unannounced
    BY DEF NoLostWakeup
  <2>1. ~Needed
    BY DEF WakeInv, WakeUp, Asleep, Awake, At, Preparing
  <2>2. CASE table.status = "WAITING"
    <3>1. Cardinality(table.active \ unannounced) \in 0..9
      <4>1. table.active \ unannounced \subseteq Players
        BY TableFields
      <4> QED
        BY <4>1, CountPlayers
    <3> QED
      BY <2>1, <2>2, <3>1 DEF Awaits, Needed, Active
  <2>3. CASE table.status # "WAITING"
    BY <2>1, <2>3 DEF Awaits, Needed, Active
  <2> QED
    BY <2>2, <2>3
<1> QED
  BY <1>1, <1>2, <1>3, DealerTypes, PTL DEF Spec
============================================================================
