SPECIFICATION Spec
CONSTANTS
    NULL = NULL
    CLOSED = CLOSED
    c1 = c1
    c2 = c2
    k1 = k1
    k2 = k2
    k3 = k3
    Clients = {c1, c2}
    MEDIA_SERVER_MAXCONN = 2
    Criteria = {k1, k2, k3}
    Persistent = {k1, k2}
    MaxValue <- MCMaxValue
    Wanted <- MCWanted
    Handles = {h1, h2}
    Faults = {"unknown", "restart"}
INVARIANTS
    PolicyTypeOK
    SubscriptionsKept
PROPERTIES
    LastSaved
CHECK_DEADLOCK FALSE
