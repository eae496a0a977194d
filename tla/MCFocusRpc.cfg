SPECIFICATION RpcSpec
CONSTANTS
    c1 = c1
    c2 = c2
    c3 = c3
    Clients <- RpcClients
    NULL = NULL
    CLOSED = CLOSED
    Daemon = Daemon
    max_size = 2
    MEDIA_SERVER_MAXCONN = 2
    num = 3
    pro_inter <- MCpro_inter
    pas_inter <- MCpas_inter
    NotifyMayFail = FALSE
    NotifyQueue = 2
SYMMETRY RpcSymmetry
INVARIANTS
    HeardIsCurrent
CHECK_DEADLOCK FALSE
