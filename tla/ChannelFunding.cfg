SPECIFICATION FairSpec
CONSTANTS
    Calls = {c1, c2}
    Readers = {r1}
    Deposit = Deposit
    None = None
    Unset = Unset
    TakerSats = 8
    TakerAmount = 2
    Extra = 1
    WaitLimit = 2
    MaxFaults = 1
INVARIANTS
    TypeOK
    HistoryHidesOnlyAfterSecondPayment
    TakerKeepsItsMoney
    SyncPreventsDoubleSpend
    ThreadDiesOnlyOfGoneChannel
PROPERTIES
    NotedPaymentIsHidden
    KeepsAccounts
    CallEnds
