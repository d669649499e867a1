SPECIFICATION Spec
CONSTANTS
    k1 = k1
    k2 = k2
    k3 = k3
    k4 = k4
    Key = {k1, k2, k3, k4}
    HT_SIZ = 3
    hash <- MCHash
    NULL = NULL
    Data = {d1, d2, d3, d4}
PROPERTY RemovesOneEntry
