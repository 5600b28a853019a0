SPECIFICATION Spec
CONSTANTS
    Procs = {r1, r2}
    Users = {"u1"}
    Names = {"Main", "main!", "Cold", "???"}
    Slug <- MCSlug
    Wallets = {"eth", "sol"}
    FreeWallets = {"eth"}
    Manual = "manual"
    PLAN_CAPS <- MCCaps
    MaxPortfolios = 2
    Mixes <- MCMixes
    Asked <- MCAsked
    FirstDay = 2
    MaxDay = 4
    Retention = 2
    TailGap = 2
    Chunk = 1
    JobSlots = {j1, j2}
INVARIANTS
    PortfoliosAreDistinct
    StreamsAreOwned
    BaselineIsReal
    JobCoversPro
PROPERTIES
    RealIsKept
CHECK_DEADLOCK FALSE
SYMMETRY MCSymmetry
