SPECIFICATION Spec
CONSTANTS
    Null = Null
    Output = {o1}
    Openers = {c1}
    Screens = {s1, s2}
    Timer = t1
    Offers <- OneOffer
    MaxDbErrors = 1
    MaxDrops = 1
    MaxCrashes = 1
INVARIANTS
    TypeOK
    NoOrphanedMargin
    ClosedAtSettlementPrice
    MakerDiesOnlyOfDroppedOutput
PROPERTIES
    KeepsBook
