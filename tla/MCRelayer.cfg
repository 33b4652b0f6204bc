SPECIFICATION Spec
CONSTANTS
    Requests = {r1, r2}
    t1 = t1
    t2 = t2
    Txs = {t1, t2}
    Sponsored = {t1, t2}
    Modes <- AllModes
    Cost <- EqualCosts
    MaxLamports = 2
    MaxTxPerHour = 1
    Hour = 1
    Validity = 1
    ConfirmTimeout = 2
    WatchTimeout = 1
    SignedAheadMax = 2
    ReadRetries = 0
    SimRetries = 1
    CounterRetries = 1
    SendRetries = 0
    MaxLag = 1
    MaxSlot = 3
    MaxCrashes = 1
    NotSigned = NotSigned
    NotLanded = NotLanded
    Open = Open
CONSTRAINT Meetings
SYMMETRY Callers
INVARIANTS RateBound StaleCounterTrue 
