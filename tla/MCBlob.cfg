CONSTANTS
    x = x
    y = y
    Row = {r1, r2}
    Byte = {x, y}
    I32Max = 3
    I64Max = 7
    BufLen = {0, 1, 3, 4, 7}
    Start = {0, 1, 3, 4, 9, 15}
    Offset <- MCOffset
    Created <- MCCreated
    Builds = {TRUE, FALSE}
SYMMETRY RowSymmetry
SPECIFICATION Spec
INVARIANTS
    TypeOK
    BufferSafe
    CastsExact
PROPERTIES
    ImplementsFile
