CONSTANTS
    Write = {w1, w2}
    Name = {"_rusqlite_sp"}
    Behavior = {"Rollback", "Commit", "Ignore", "Panic"}
    Root = {"tx", "sp"}
    MaxDepth = 3
    ReuseNames = TRUE
    Busy = {"tx"}
    AutoRollback = TRUE
SYMMETRY WriteSymmetry
SPECIFICATION Spec
INVARIANTS
    EndsClosed
    Aligned
PROPERTIES
    DropRestores
    CommitAllOrNothing
    DurableAtTheEnd
CHECK_DEADLOCK FALSE
