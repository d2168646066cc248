SPECIFICATION Spec
CONSTANTS
    Null = Null
    Output = {o1}
    Openers = {c1}
    Screens = {s1}
    Timer = t1
    Offers <- OneOffer
    MaxDbErrors = 0
    MaxDrops = 1
    MaxCrashes = 0
INVARIANTS
    ClosedFreesMargin
