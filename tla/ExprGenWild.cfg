SPECIFICATION Spec
CONSTANTS
    NREG = 4
    Layouts = {FALSE}
    MaxStack = 5
INVARIANT
    NeverWild
