SPECIFICATION Spec
CONSTANTS
    Instruments = {i1}
    NatsPorts <- MCNatsPorts
    MaxInserts = 1
INVARIANTS
    TypeOK
    StatusAfterCore
    ForeignDaemonSurvives
    DrainedOnReturn
    ReleasedOnExit
    PanicsInWindows
PROPERTY
    ShutdownEnds
CHECK_DEADLOCK FALSE
