SPECIFICATION Spec
CONSTANTS
    NREG = 4
    Layouts = {TRUE, FALSE}
    MaxStack = 5
INVARIANTS
    TypeOK
    OneOwner
PROPERTY
    ExhaustedNearLimit
