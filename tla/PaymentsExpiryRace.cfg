SPECIFICATION Spec
CONSTANTS
    Null = Null
    Outgoing = {}
    Incoming = {i1}
    Spontaneous = {s1}
    Callers = {c1}
    Refreshers = {r1}
    SyncTask = r1
    InvoiceExpiry = 0
    Lifetime = 0
    MaxTime = 1
    MaxParts = 1
    MaxAttempts = 1
    MaxDbErrors = 0
    MaxCrashes = 0
PROPERTIES
    OnlyPendingExpires
