SPECIFICATION Spec
CONSTANTS
    Conns       = {k1, k2}
    Fds         = {f1, f2}
    Free        = Free
    Foreign     = Foreign
    MaxMessages = 1
    MaxForeign  = 1
INVARIANTS
    TypeOK
    OwnConnectionOnly
    NeverAnothers
    ActiveHasThread
    StopQuiesces
PROPERTIES
    DisconnectIsReaped
    ConnectionIsServed
    StopHangsOnlyAsKnown
\* The system stops for good when stop() has returned, or hangs.
CHECK_DEADLOCK FALSE
