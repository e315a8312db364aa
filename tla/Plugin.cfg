SPECIFICATION Spec
CONSTANTS
    k1 = k1
    k2 = k2
    Conns       = {k1, k2}
    Fds         = {f1}
    Free        = Free
    Foreign     = Foreign
    MaxMessages = 1
    MaxForeign  = 0
    Documents   <- MCDocuments
    Registered  = {}
    MaxRequests = 2
    TickBatch   = 1
    MaxNesting  = 1
    MaxSent     = 2
INVARIANTS
    NothingLeftBehind
PROPERTIES
    ImplementsPipeline
    RequestsAreAnswered
ACTION_CONSTRAINT
    InOrderOfConnecting
\* The system stops for good when the plugin is unloaded, hangs or has crashed.
CHECK_DEADLOCK FALSE
