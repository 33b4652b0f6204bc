SPECIFICATION MCFairSpec
CONSTANTS
    Requests = {r1}
    t1 = t1
    t2 = t2
    Txs = {t1, t2}
    Sponsored = {t1}
    Modes <- AllModes
    Cost <- EqualCosts
    MaxLamports = 1
    MaxTxPerHour = 2
    Hour = 1
    Validity = 1
    ConfirmTimeout = 2
    WatchTimeout = 1
    SignedAheadMax = 2
    ReadRetries = 1
    SimRetries = 1
    CounterRetries = 1
    SendRetries = 1
    MaxLag = 1
    MaxSlot = 3
    MaxCrashes = 1
    NotSigned = NotSigned
    NotLanded = NotLanded
    Open = Open
    Nodes = {n1}
    MaxHeight = 2
    Budget = 2
    MaxBackoff = 2
    MaxFaults = 1
    Floors <- MCFloors
    a = a
    b = b
    Members = {a, b}
    Local <- MCLocal
    Multisigs <- TwoOfTwo
    THRESHOLD = 2
    PROPOSE_ONLY = FALSE
    MIN_EXTEND = 2
    BufferSizes = {1}
    Commands = {"memo"}
    AppActs = FALSE
    MaxTx = 2
    MaxAppTx = 1
    MaxSize = 4
    MaxDeaths = 3
    None = None
    Vault = Vault
    Key = Key
INVARIANTS SignedCounterUnspent
PROPERTIES EveryRequestAnswered Service EveryPrepareEnds Resumable
CHECK_DEADLOCK FALSE
