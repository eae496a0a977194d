SPECIFICATION Spec
CONSTANTS
    NULL = NULL
    e1 = e1
    e2 = e2
    Controllees <- MCControllees
    Controllers = {c1}
    States = {0, 1}
    Words <- MCWords
    Titles <- TwoWords
    Artists = {}
    NotifyQueue = 2
    MaxAsked = 1
SYMMETRY Symmetry
INVARIANTS
    KeepsGiven
    CacheFresh
CHECK_DEADLOCK FALSE
