SPECIFICATION Spec
CONSTANTS
    Slots = {0, 1}
    Lines = {"a"}
    Ops <- SmallOps
    MaxSeq = 3
    SpmSq = 2
    SpmLq = 2
    Bounded = TRUE
    Forwarding = TRUE
    EarlyAddress = TRUE
    Fenced = {"slot reuse", "DMA slots"}
INVARIANTS ProgramOrder
CHECK_DEADLOCK FALSE
