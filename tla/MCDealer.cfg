SPECIFICATION FairSpec
CONSTANTS
    Players = {1, 2, 3}
    d1 = d1
    d2 = d2
    Dealers = {d1, d2}
    Serving <- TwoReplicas
    NoDealer = NoDealer
    NoHand = NoHand
    NoPreparation = NoPreparation
    NoDeck = NoDeck
    MaxHands = 1
    MaxGone = 0
    MaxMoves = 2
    MaxStreet = 3
    MaxAnnouncing = 1
    MaxTroubles = 1
INVARIANTS
    TableFollowsTranscript CardsShownAreCardsPlayed SecretKept NoLostWakeup
PROPERTIES DealerGetsOn
CHECK_DEADLOCK FALSE
