SPECIFICATION Spec
CONSTANTS
    c1 = c1
    c2 = c2
    c3 = c3
    Clients <- MCClients
    NULL = NULL
    CLOSED = CLOSED
    Daemon = Daemon
    max_size = 3
    MEDIA_SERVER_MAXCONN = 3
    num = 3
    pro_inter <- MCpro_inter
    pas_inter <- MCpas_inter
    NotifyMayFail = FALSE
SYMMETRY Symmetry
INVARIANTS
    CookieBelongs
    Arbitrated
    StopIsFinal
CHECK_DEADLOCK FALSE
