SPECIFICATION FairSpec
CONSTANTS
    Null = Null
    Output = {o1}
    Openers = {c1}
    Screens = {s1}
    Timer = t1
    Offers <- OneOffer
    MaxDbErrors = 1
    MaxDrops = 1
    MaxCrashes = 1
PROPERTIES
    ClosedIsShown
    SettleEnds
