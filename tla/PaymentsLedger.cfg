SPECIFICATION Spec
CONSTANTS
    Null = Null
    Outgoing = {o1}
    Incoming = {}
    Spontaneous = {}
    Callers = {c1, c2}
    Refreshers = {r1}
    SyncTask = r1
    InvoiceExpiry = 0
    Lifetime = 1
    MaxTime = 1
    MaxParts = 2
    MaxAttempts = 2
    MaxDbErrors = 0
    MaxCrashes = 1
INVARIANTS
    TypeOK
    SucceededIsSettled
    DeadOnlyAfterMissedPaymentSent
    HistoryHidesExpired
PROPERTIES
    KeepsLedger
