SPECIFICATION ProxySpec
CONSTANTS
    NULL = NULL
    MaxSuggestions = 2
    ProxyFaults = {"listen", "thread", "accept", "server"}
INVARIANTS
    NoUseAfterFree
    RefsCounted
PROPERTIES
    AbandonReleases
    AbandonReturns
CHECK_DEADLOCK FALSE
