SPECIFICATION FairSpec
CONSTANTS
    c1 = c1
    c2 = c2
    h1 = h1
    h2 = h2
    Conns <- TwoConns
    Hashes <- TwoHashes
    BlockedPlans <- Refused
    MaxPlans = 2
    MaxApplies = 2
    MAX_RETAINED_SYNC_PLANS = 2
    DEAD_CAP = 1
    Drains = TRUE
    CancelsAt = {"opening", "gated"}
CONSTRAINT Load
CHECK_DEADLOCK FALSE
INVARIANTS SingleUse MarkHasHolder RegistryIsExact
PROPERTIES TeardownCompletes
