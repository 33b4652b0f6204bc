CONSTANTS
    MaxAccountIndex = 7
    Program = Program
    SystemProgram = SystemProgram
    SysvarRent = SysvarRent
    SysvarInstructions = SysvarInstructions
    Secp256r1Program = Secp256r1Program
    Credential = Credential
    PublicKey = PublicKey
    AdminKey = AdminKey
    SessionKey = SessionKey
    None = None
    Wallet = Wallet
    ConfigPda = ConfigPda
    ShardPda = ShardPda
    payer = payer
    relayer = relayer
    coSigner = coSigner
    token = token
    Wallets = {Wallet}
    Payers = {payer, relayer, AdminKey}
    InnerIxs <- MCInnerIxs
    MaxAlterations = 1
    Counter = 3
    Now = 9
    MaxSlotAge = 2
SPECIFICATION MCSpec
INVARIANTS RunsWhatWasAsked 
CHECK_DEADLOCK FALSE
