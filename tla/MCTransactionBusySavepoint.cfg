CONSTANTS
    Write = {w1, w2}
    Name = {"_rusqlite_sp"}
    Behavior = {"Rollback"}
    Root = {"sp"}
    MaxDepth = 3
    ReuseNames = FALSE
    Busy = {"sp"}
    AutoRollback = FALSE
SYMMETRY WriteSymmetry
SPECIFICATION Spec
INVARIANTS
    EndsClosed
CHECK_DEADLOCK FALSE
