SPECIFICATION Spec
CONSTANTS
    Installations <- MCInstallations
    Addresses     = {"0.0.0.0", "127.0.0.1"}
    Ephemeral     = {50000}
    MaxSessions   = 2
INVARIANTS
    TypeOK
    
    NullCallsOnlyAsKnown
    BlocksAreEnded
    LossesOnlyAsKnown
PROPERTIES
    RestartKeeps
\* The bound on the sessions is reached, or REAPER has crashed in the last.
CHECK_DEADLOCK FALSE
