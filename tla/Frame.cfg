SPECIFICATION Spec
CONSTANTS
    NREG = 2
    Function = {1, 2, 3}
    Main = 3
    NLocals <- MCNLocals
    Top = 16
CHECK_DEADLOCK FALSE
INVARIANTS
    TypeOK
    LinksKept
    LocalsKept
PROPERTY
    CallPreserves
