SPECIFICATION Spec
CONSTANTS
    NULL = NULL
    MEDIA_PARCEL_DATA_LEN = 4
    Threads = {t1, t2}
    Requests <- MCRequests
    Handler <- MCHandler
    Key <- MCKey
    Cpu <- MCCpu
    SockBuf = 3
    MaxRestarts = 1
INVARIANTS
    InBounds
PROPERTIES
    Implements
CHECK_DEADLOCK FALSE
