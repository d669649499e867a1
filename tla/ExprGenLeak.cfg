SPECIFICATION Spec
CONSTANTS
    NREG = 4
    Layouts = {FALSE}
    MaxStack = 5
PROPERTY
    ExhaustedOnlyWhenUsed
