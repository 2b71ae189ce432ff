SPECIFICATION Spec
CONSTANTS
    Callers = {c1, c2}
    Base = 3
    JobTime = 2
    ArgKinds <- MCArgKinds
    ItemKinds <- MCItemKinds
    ReturnTypes <- MCReturnTypes
    OtherForms <- MCOtherForms
    MaxJobs = 3
INVARIANTS
    TypeOK
    NoFalseTimeout
    
    ResultKeepsType
PROPERTY
    CallsReturn
CHECK_DEADLOCK FALSE
