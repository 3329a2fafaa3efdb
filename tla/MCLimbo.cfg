SPECIFICATION FairSpec
CONSTANTS
    NThreads = 2
    Objects = {o1, o2}
    Callbacks = {c1}
    MaxEpoch = 2
    CacheSize = 2
    Budget = 2
INVARIANTS
    Strengthening
    SafeAcrossPasses
    ExactlyOnePlace
    ScanIsSound
PROPERTIES
    ReclaimsByGracePeriod
    CallsReturn
    DeinitReturns
CHECK_DEADLOCK FALSE
