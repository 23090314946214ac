SPECIFICATION FairSpec
CONSTANTS
    Cores = {c1, c2}
    Profiles = {{}, {"return_lane", "spm_silent_retry", "spm_retain_llc"}}
    MaxOps = 3
    MaxEvictions = 1
    Ops = {"Store", "Copy", "Wb"}
    DmaOps = {"Write"}
    FetchedBefore = TRUE
INVARIANTS NoStaleRead NoUndefinedEvent TransfersOnce
PROPERTIES Completes
CHECK_DEADLOCK FALSE
