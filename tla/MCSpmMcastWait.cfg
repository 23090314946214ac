SPECIFICATION CastSpec
CONSTANTS
    Cores = {c1, c2}
    Producer = c1
    Crowded = {c1, c2}
    Profiles = {{"spm_silent_retry"}}
    MaxOps = 5
    MaxEvictions = 0
    Ops = {"Load", "Store", "Claim"}
    DmaOps = {}
    FetchedBefore = FALSE
INVARIANTS CastDefined
CHECK_DEADLOCK FALSE
