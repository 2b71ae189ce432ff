SPECIFICATION Spec
CONSTANTS
    Instruments = {i1}
    NatsPorts <- MCNatsPorts
    MaxInserts = 1
INVARIANT
    SignalDrains
CHECK_DEADLOCK FALSE
