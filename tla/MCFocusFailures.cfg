SPECIFICATION Spec
CONSTANTS
    c1 = c1
    c2 = c2
    c3 = c3
    Clients <- MCClients
    NULL = NULL
    CLOSED = CLOSED
    Daemon = Daemon
    max_size = 2
    MEDIA_SERVER_MAXCONN = 2
    num = 3
    pro_inter <- MCpro_inter
    pas_inter <- MCpas_inter
    NotifyMayFail = TRUE
SYMMETRY Symmetry
INVARIANTS
    TypeOK
    FocusStackShape
    HandleIsOwn
    CleanExit
PROPERTY OnlyOwnerLeaves
CHECK_DEADLOCK FALSE
