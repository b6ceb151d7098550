CONSTANTS
    Data = {d1, d2, d3}
    ClientName = {"app"}
    Function = {"f"}
    Collation = {"c"}
    Schema = {"s"}
    Module = {m1, m2}
    VTable = {v1, v2}
    Cursor = {c1}
    Failures = {"name", "sqlite", "preset", "read"}
    Null = Null
    Default = Default
SYMMETRY Symmetry
SPECIFICATION VSpec
INVARIANTS
    PointersLive
    EachBoxOnce
    CursorsLive
CHECK_DEADLOCK FALSE
