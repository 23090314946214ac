SPECIFICATION FairSpec
CONSTANTS
    Slots = {0, 1}
    Lines = {"a"}
    Ops <- SmallOps
    MaxSeq = 3
    SpmSq = 2
    SpmLq = 2
    Bounded = TRUE
    Forwarding = TRUE
    EarlyAddress = TRUE
    Fenced = {"slot reuse", "copy source", "DMA slots"}
INVARIANTS ProgramOrder Replays NoWarDeferral Budgets FenceDrains
PROPERTIES Completes
CHECK_DEADLOCK FALSE
