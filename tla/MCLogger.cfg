SPECIFICATION Spec
CONSTANTS
    Callers = {c1, c2, c3}
    QueueCap = 2
    BatchEntries = 2
    MaxEntries = 1
INVARIANTS
    TypeOK
    AcceptedIsWritten
    EntriesBalance
PROPERTY
    CloseReturns
CHECK_DEADLOCK FALSE
