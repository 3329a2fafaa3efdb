SPECIFICATION FairSpec
CONSTANTS
    Threads = {1, 2}
    Keys <- AllKeys
    v1 = v1
    v2 = v2
    Values = {v1, v2}
    None = None
    LeafWidth = 3
    InterWidth = 2
    InsertBits = 1
    MaxNodes = 12
    Scripts <- Tests
INVARIANTS
    HoldsTheMap
    LeavesAreLinked
    RetiredIsGone
PROPERTIES
    IsOrderedMap
    CallsReturn
CHECK_DEADLOCK FALSE
