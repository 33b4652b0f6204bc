SPECIFICATION MCSpec
CONSTANTS
    w1 = w1
    w2 = w2
    e1 = e1
    p1 = p1
    p2 = p2
    s1 = s1
    r1 = r1
    b1 = b1
    Wallets = {w1, w2}
    Ed25519Keys = {e1}
    Passkeys = {p1, p2}
    SessionKeys = {s1}
    Payers = {r1}
    Batches = {b1}
    MAX_SLOT_AGE = 2
    MAX_SESSION_SLOTS = 2
    MIN_EXPIRY_SLOTS = 1
    MAX_EXPIRY_SLOTS = 2
    U32_MAX = 2
    MaxSlot = 3
    MaxSigned = 2
    Requests <- MC_Requests
    NoAccount = NoAccount
    TxSigner = TxSigner
    Never = Never
INVARIANTS DeferredPdaFree
CHECK_DEADLOCK FALSE
