SPECIFICATION FairSpec
CONSTANTS
    Null = Null
    Outgoing = {o1}
    Incoming = {i1}
    Spontaneous = {}
    Callers = {c1}
    Refreshers = {r1}
    SyncTask = r1
    InvoiceExpiry = 0
    Lifetime = 0
    MaxTime = 1
    MaxParts = 1
    MaxAttempts = 1
    MaxDbErrors = 1
    MaxCrashes = 1
INVARIANTS
    DeadOnlyAfterMissedPaymentSent
    OnlySpontaneousHasNoExpiry
PROPERTIES
    PendingEnds
    ReceivedIsBooked
