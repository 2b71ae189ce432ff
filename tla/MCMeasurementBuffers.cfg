SPECIFICATION Spec
CONSTANTS
    Callers = {measure, setting}
    MeasureCallers = {measure}
    Buffers = {b1, b2}
    NoBuffer = NoBuffer
    MaxMeasurements = 3
    MaxReturned = 2
SYMMETRY BufferSymmetry
INVARIANTS
    TypeOK
    RefsAccounted
    ExclusiveClaim
    NothingLeftBehind
    DeliveredOnce
PROPERTY
    OnlyOwnerReleases
CHECK_DEADLOCK FALSE
