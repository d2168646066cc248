SPECIFICATION FairSpec
CONSTANTS
    Absent = Absent
    Torn = Torn
    Seeds = {s1, s2}
    Channels = {c1}
    MaxFaults = 3
    NoOffer = NoOffer
    Fields = {"ask"}
    Prices = {1, 2}
    Spreads = {0, 15}
    MaxMoves = 2
INVARIANTS
    TypeOK
    NodeBelongsToSeed
    ChannelsAreWatched
    ApiFindsSingletons
PROPERTIES
    NeverBackToZero
    OfferFollowsMarket
    OfferWithdrawn
    StartsWithoutMaker
