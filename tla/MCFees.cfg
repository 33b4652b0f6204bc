SPECIFICATION MCSpec
CONSTANTS
    u1 = u1
    u2 = u2
    c1 = c1
    k1 = k1
    k2 = k2
    Users = {u1, u2}
    PROTOCOL_INIT_AUTHORITY = u1
    ShardIds = {0, 1}
    Treasuries <- MC_Treasuries
    MAX_PROTOCOL_FEE_LAMPORTS = 1
    RENT = 1
    U32_MAX = 1
    U64_MAX = 2
    Funds = 3
    MaxSwept = 2
    MaxVersion = 2
    Admins = {u1, u2}
    Gifts <- MC_Gifts
    NoAccount = NoAccount
    NoKey = NoKey
    Clients = {c1}
    Calls = {k1, k2}
    CallKinds = {"createWallet", "execute", "execute passkey", "executeDeferredFromPayload"}
    Payers = {u2}
    NumShards = {1, 2, 256, 258}
    MaxCalls = 3
    FeePairs <- MC_FeePairs
    None = None
INVARIANTS FeesAccounted PendingIsCurrent NoFreeze StaleConfigServes 
CHECK_DEADLOCK FALSE
