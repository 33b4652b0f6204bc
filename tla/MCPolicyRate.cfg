SPECIFICATION MCSpec
CONSTANTS
    usdc = usdc
    wsol = wsol
    ata = ata
    fresh = fresh
    wrapped = wrapped
    dex = dex
    SOL = SOL
    Elsewhere = Elsewhere
    Idle = Idle
    Mints = {usdc, wsol}
    Native = {}
    TokenAccounts = {}
    MintOf <- NoAccounts
    Programs = {dex}
    Grants <- SolGrants
    FirstSlot = 0
    MaxSlot = 7
    MaxAmount = 2
    MaxCpis = 2
INVARIANTS NominalRate
CHECK_DEADLOCK FALSE
