CONSTANTS
    a1 = a1
    f1 = f1
    f2 = f2
    q1 = q1
    z1 = z1
    h1 = h1
    n1 = n1
    s1 = s1
    s2 = s2
    x = x
    t = t
    MintOf <- MCMintOf
    Kind <- MCKind
    Watched = {}
    MaxTokens = 2
    Scenarios <- MCScenarios
SPECIFICATION MCSpec
INVARIANTS    ControlledAloneHolds
CHECK_DEADLOCK FALSE
