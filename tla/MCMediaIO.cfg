SPECIFICATION Spec
CONSTANTS
    NULL = NULL
    Threads = {d1, d2}
    MaxFd = 5
    MaxPrepares = 2
    Faults = {"refuse", "bind", "accept", "partial", "daemon"}
INVARIANTS
    DescriptorsOwned
    LostCounted
PROPERTIES
    CallsReturn
    PictureEnds
CHECK_DEADLOCK FALSE
