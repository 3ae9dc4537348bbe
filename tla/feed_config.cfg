CONSTANTS
    Ids = {i1, i2}
    Addresses = {a1, a2}
    MaxDeclared = 2
    MaxMapped = 2
SPECIFICATION Spec
INVARIANTS
    TypeOK
    RoutesFollowFile
CHECK_DEADLOCK FALSE
SYMMETRY NameSymmetry
