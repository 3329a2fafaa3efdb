SPECIFICATION FairSpec
CONSTANTS
    Threads = {1, 2, 3}
    Objects = {a, b}
    MaxPins = 4
    PinCount = 2
    PurgatorySize = 2
    Versions = 16
    Budgets <- Mixed
    Null = Null
INVARIANTS
    HeldIsSafe
    ObjectsInOnePlace
    PinsInOnePlace
PROPERTIES
    CallsReturn
CHECK_DEADLOCK FALSE
