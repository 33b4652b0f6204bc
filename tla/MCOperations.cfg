SPECIFICATION MCSpec
CONSTANTS
    r1 = r1 r2 = r2 r3 = r3 r4 = r4 c1 = c1 c2 = c2
    Unset = Unset
    Runs = {r1, r2, r3}
    Commits = {c1, c2}
    RunOf <- ThreeReleases
    Merged = {c1, c2}
    Bumped <- AllBumped
    InitialTags <- Candidates
    StaleReads = FALSE
    MaxFailures = 1
    MaxRetags = 0
    MaxChecks = 0
    a = a b = b c = c None = None Vault = Vault Key = Key
    d1 = d1 d2 = d2 d3 = d3 k1 = k1 k2 = k2 k3 = k3 sp = sp other = other
INVARIANTS NpmInOrder SafeUpgrades KeepersHonest 
PROPERTIES TagsNeverBack
CHECK_DEADLOCK FALSE
