SPECIFICATION FairSpec
CONSTANTS
    Cores = {c1, c2}
    Ways = 4
    RowWays = 4
    FinalWays = 2
    MaxOps = 4
    PhaseOps <- PhaseBound
    Rows = {0}
    Mix <- MixBound
    SourceCap = 1
    FlightCap = 2
    Entries = 2
    Pipeline = TRUE
    ServicePort = TRUE
    MaxLive = 1
INVARIANTS Exclusive FoldsExact BankWakes
PROPERTIES Atomic Drains
CHECK_DEADLOCK FALSE
