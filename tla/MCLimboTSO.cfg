SPECIFICATION SpecTSO
CONSTANTS
    NThreads = 2
    Objects = {o1}
    Callbacks = {}
    MaxEpoch = 2
    CacheSize = 2
    Budget = 2
INVARIANTS
    NoUseAfterFree
CHECK_DEADLOCK FALSE
