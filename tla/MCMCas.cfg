SPECIFICATION FairSpec
CONSTANTS
    v0 = v0
    v1 = v1
    Values <- TwoValues
    Initial = v0
    Scripts <- AllScripts
    NThreads = 3
    NAddresses = 3
    MaxCalls = 3
    MaxFail = 1
    Pool = 3
    Null = Null
    Fail = Fail
INVARIANTS
    AssociatedIsInstalled
    RetiredIsUnreachable
    ReadIsLinearizable
PROPERTIES
    LogicalStep
    CallsReturn
CHECK_DEADLOCK FALSE
