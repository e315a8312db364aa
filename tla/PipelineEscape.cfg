SPECIFICATION Spec
CONSTANTS
    Clients     = {c1, c2}
    Documents   <- MCReadable
    Registered  <- MCRegistered
    MaxRequests = 2
    TickBatch   = 2
    MaxNesting  = 2
INVARIANT
    CallbackCatchesAll
\* The system stops for good when the plugin is unloaded or has crashed.
CHECK_DEADLOCK FALSE
