SPECIFICATION Spec
CONSTANTS
    g1 = g1
    g2 = g2
    Gates = {g1, g2}
    Samples = samples
    GateValues = {0, 1}
    SampleCounts = {1, 2}
    Requests <- MCRequests
    MaxPrimitives = 2
    MaxMeasure = 2
    MaxSetting = 1
INVARIANT
    ReadsObserveWrites
CHECK_DEADLOCK FALSE
