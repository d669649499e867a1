SPECIFICATION Spec
CONSTANTS
    a = a
    b = b
    c = c
    Name = {a, b}
    Symbol = {s1, s2, s3, s4, s5}
    MaxScope = 1
    Key <- MCKey
    HT_SIZ = 2
    hash <- MCHash
    NULL = NULL
SYMMETRY SymbolSymmetry
CHECK_DEADLOCK FALSE
INVARIANT RefusedOnlyByLive
