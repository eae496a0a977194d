SPECIFICATION Spec
CONSTANTS
    NULL = NULL
    Kinds = {"player", "recorder", "picture"}
    Cpus = {1, 2}
    Focuses = {1, 2}
    MaxPrepares = 2
    MaxCalls = 3
    Faults = {"refuse", "listen", "focus", "volume"}
INVARIANTS
    StreamTypeOK
    StreamOutlivesCallbacks
    CallbacksOnce
PROPERTIES
    CloseComes
CHECK_DEADLOCK FALSE
