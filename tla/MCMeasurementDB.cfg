SPECIFICATION Spec
CONSTANTS
    Callers = {c1, c2}
    i1 = i1
    i2 = i2
    i3 = i3
    Items = {i1, i2, i3}
    Key <- MCKey
    NoItem = NoItem
    Capacity = 2
    MaxBoots = 2
INVARIANTS
    TypeOK
    CatalogBacked
    RecordedInOrder
    NoOrphanWithoutMishap
    HealthyAtStartup
PROPERTIES
    KeepsPromise
    CloseTerminates
CHECK_DEADLOCK FALSE
