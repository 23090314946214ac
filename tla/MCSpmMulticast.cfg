SPECIFICATION CastFairSpec
CONSTANTS
    Cores = {c1, c2, c3}
    Producer = c1
    Crowded = {c1, c2}
    Profiles = {{"spm_silent_retry"}}
    MaxOps = 3
    MaxEvictions = 1
    Ops = {"Store", "Copy", "Claim", "Read"}
    DmaOps = {}
    FetchedBefore = FALSE
INVARIANTS ClaimExact CopiesDelivered CastsWoken
PROPERTIES CastCompletes
CHECK_DEADLOCK FALSE
