CONSTANTS
    Data = {d1, d2}
    ClientName = {}
    Function = {"f"}
    Collation = {}
    Schema = {}
    Module = {}
    VTable = {}
    Cursor = {}
    Failures = {}
    Null = Null
    Default = Default
SYMMETRY DataSymmetry
SPECIFICATION Spec
INVARIANTS
    RollbackHookLive
CHECK_DEADLOCK FALSE
