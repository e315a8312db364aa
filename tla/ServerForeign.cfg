SPECIFICATION Spec
CONSTANTS
    Conns       = {k1}
    Fds         = {f1, f2}
    Free        = Free
    Foreign     = Foreign
    MaxMessages = 1
    MaxForeign  = 1
PROPERTY
    ForeignUntouched
CHECK_DEADLOCK FALSE
