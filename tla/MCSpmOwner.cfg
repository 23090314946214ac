SPECIFICATION Spec
CONSTANTS
    Cores = {c1}
    Profiles = {{}}
    MaxOps = 2
    MaxEvictions = 0
    Ops = {"Wb"}
    DmaOps = {"Read", "Write"}
    FetchedBefore = FALSE
INVARIANTS InvReachesLlc
CHECK_DEADLOCK FALSE
