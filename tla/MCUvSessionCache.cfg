SPECIFICATION UvSpec
CONSTANTS
    NULL = NULL
    e1 = e1
    e2 = e2
    Controllees <- MCControllees
    Controllers = {c1}
    States = {0, 1}
    Words <- MCWords
    Titles = {}
    Artists = {}
    NotifyQueue = 2
    MaxAsked = 1
    MaxRequests = 2
SYMMETRY Symmetry
INVARIANTS
    CacheComplete
CHECK_DEADLOCK FALSE
