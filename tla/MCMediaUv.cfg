SPECIFICATION Spec
CONSTANTS
    NULL = NULL
    Worlds <- MCWorlds
    MaxMessages = 2
    MaxPipes = 4
    MaxEvents = 1
    BindMayFail = TRUE
    EarlyConnect = FALSE
INVARIANTS
    AnswersPaired
    OrderKept
    NoUseAfterFree
    ReleasedLast
PROPERTIES
    QueueMoves
    CloseReleases
CHECK_DEADLOCK FALSE
