SPECIFICATION Spec
CONSTANTS
    Items = {a, b, c, d}
    Callbacks = {c}
    NoPtr = NoPtr
    MaxEpoch = 2
    Capacity = 3
    Budget = 2
PROPERTIES
    IsRecordQueue
CHECK_DEADLOCK FALSE
