SPECIFICATION Spec
CONSTANTS
    a = a
    b = b
    f = f
    Name = {a, b, f}
    BaseType = {"INT", "FLOAT"}
    MaxSymbol = 3
    MaxType = 2
    MaxObject = 3
    MaxField = 2
    MaxDeclarator = 2
    MaxReference = 2
SYMMETRY MCSymmetry
CHECK_DEADLOCK FALSE
INVARIANTS
    TypeOK
    
    
    
    TypeNamesUnique
    
