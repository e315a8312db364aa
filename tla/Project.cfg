SPECIFICATION Spec
CONSTANTS
    Start       <- MCStart
    Times       = {1, 2, 3}
    Numbers     = {1, 2}
    MaxTracks   = 3
    MaxCommands = 3
INVARIANTS
    TypeOK
    FailuresChangeNothing
    UndoIsUpToDate
    BooksAreRight
    SuccessIsOfSomething
\* The bound on the commands is reached.
CHECK_DEADLOCK FALSE
