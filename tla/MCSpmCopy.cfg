SPECIFICATION Spec
CONSTANTS
    Cores = {c1, c2, c3}
    Profiles = {{"return_lane"}}
    MaxOps = 3
    MaxEvictions = 3
    Ops = {"Load", "Store", "Copy", "Wb"}
    DmaOps = {"Read", "Write"}
    FetchedBefore = TRUE
SYMMETRY Perms
INVARIANTS TypeOK MemoryBusy Coherent NoUndefinedEvent NoDeadlock CopiesCurrent NoStaleRead NoLostWakeup TransfersOnce
PROPERTIES LineImplemented
CHECK_DEADLOCK FALSE
