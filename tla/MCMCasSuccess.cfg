SPECIFICATION Spec
CONSTANTS
    v0 = v0
    v1 = v1
    Values <- TwoValues
    Initial = v0
    Scripts <- MiddleOnly
    NThreads = 3
    NAddresses = 3
    MaxCalls = 3
    MaxFail = 1
    Pool = 3
    Null = Null
    Fail = Fail
INVARIANTS
    SuccessIsTotal
CHECK_DEADLOCK FALSE
