CONSTANTS
    MaxAccountIndex = 7
    Program = Program
    SystemProgram = SystemProgram
    SysvarRent = SysvarRent
    SysvarInstructions = SysvarInstructions
    Secp256r1Program = Secp256r1Program
    Credential = Credential
    PublicKey = PublicKey
    AdminKey = AdminKey
    OtherId = OtherId
    SessionKey = SessionKey
    NoRefund = NoRefund
    w1 = w1
    w2 = w2
    payer = payer
    relayer = relayer
    newKey = newKey
    newCredential = newCredential
    newPublicKey = newPublicKey
    Wallets = {w1, w2}
    Payers = {payer, relayer}
    NewOwners <- MCNewOwners
    Policies <- MCPolicies
    Slots <- MCSlots
    Counter = 3
    Now = 9
    MaxSlotAge = 2
    MaxPrompts = 2
SPECIFICATION MCSpec
SYMMETRY Symmetric
INVARIANTS KitAcceptedIsAsked LegacyLandsWhatWasAnswered
CHECK_DEADLOCK FALSE
