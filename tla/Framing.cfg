SPECIFICATION Spec
CONSTANTS
    Base      = 2
    Digits    = 3
    MaxLength = 3
    Payloads  <- MCPayloads
    MaxSent   = 3
INVARIANTS
    TypeOK
    DeliveredInStep
PROPERTIES
    AllArrive
    RefusalEnds
\* The reader fails, or the bound on the messages is reached.
CHECK_DEADLOCK FALSE
