SPECIFICATION Spec
CONSTANTS
    Clients     = {c1, c2}
    Documents   <- MCDocuments
    Registered  <- MCRegistered
    MaxRequests = 2
    TickBatch   = 2
    MaxNesting  = 2
INVARIANTS
    TypeOK
    InOrderOnce
    HeldUntilAnswered
    RepliesMatch
    UnansweredIsAwaitedOrTimedOut
PROPERTIES
    SetOnce
    CatchesUp
    ImplementsRpcService
\* The system stops for good when the plugin is unloaded or has crashed.
CHECK_DEADLOCK FALSE
