SPECIFICATION FairSpec
CONSTANTS
    Lines = {"x", "y", "z", "w"}
    Slots = {"s", "t", "u"}
    MaxSize = 3
    Lookahead = 2
    CopyDemand = FALSE
    DemandProbes = 4
    Requests <- MixRequests
    Ports = {"data", "fetch"}
    PortOf <- FetchPort
    MaxReqs = 6
    Asks <- MixAsks
    MaxOutstanding = 5
    FetchCredits = 1
    BridgeCredits = 0
    LineTargets = 3
    MicroTargets = 2
    MissCredits = 1
    BridgePool = 1
INVARIANTS OutstandingExact OneTransaction QueueBound NoStrandedPort AnsweredRight
PROPERTIES BypassSafe Completes
CHECK_DEADLOCK FALSE
