SPECIFICATION Spec
CONSTANTS
    Conns       = {k1, k2}
    Fds         = {f1, f2}
    Free        = Free
    Foreign     = Foreign
    MaxMessages = 1
    MaxForeign  = 1
INVARIANT
    SweepReachesAll
CHECK_DEADLOCK FALSE
