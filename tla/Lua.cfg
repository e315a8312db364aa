SPECIFICATION Spec
CONSTANTS
    MaxScripts = 3
    MaxNesting = 2
INVARIANTS
    TypeOK
    RepliesAreOwn
    ExtStateIsCleared
    FilesAreRemoved
\* The bound on the scripts is reached.
CHECK_DEADLOCK FALSE
