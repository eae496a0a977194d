SPECIFICATION Spec
CONSTANTS
    NULL = NULL
    CLOSED = CLOSED
    c1 = c1
    c2 = c2
    c3 = c3
    f1 = f1
    f2 = f2
    Clients = {c1, c2}
    MEDIA_SERVER_MAXCONN = 2
    FilterSeq <- MCFilterSeq
    Stream <- MCStream
    Ctxs = {x1, x2}
    PolicyCommand <- MCPolicyCommand
    ClientCommands = {"start", "get"}
    MaxCommands <- MCMaxCommands
    Faults = {"command"}
INVARIANTS
    GraphTypeOK
    ClientKeeps
    EventsToOwner
    InOrder
PROPERTIES
    ClosedIsFreed
CHECK_DEADLOCK FALSE
