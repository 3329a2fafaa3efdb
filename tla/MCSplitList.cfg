SPECIFICATION FairSpec
CONSTANTS
    Threads = {1, 2}
    Elements = {a, b, c}
    Keys = {1, 2, 3}
    Hash <- HashOf
    Cut <- CutOf
    HashBits = 4
    MaxSize = 4
    Flags = 1
    Scripts <- Mixed
    Present = Present
    None = None
INVARIANTS
    ElementsInOnePlace
    UsedIsNotReclaimed
    BucketsSplitTheList
PROPERTIES
    IsKeyMap
    CallsReturn
CHECK_DEADLOCK FALSE
