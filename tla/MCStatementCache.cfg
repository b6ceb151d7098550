CONSTANTS
    Handle = {h1, h2, h3}
    a = a
    b = b
    e = e
    m = m
    NoSql = NoSql
    Sql <- MCSql
    Kind <- MCKind
    MaxCapacity = 2
    Leaks = {{"stmt"}, {"rows"}}
SYMMETRY HandleSymmetry
SPECIFICATION Spec
INVARIANTS
    OneOwner
    CacheIsAMap
    RowIsCurrent
    CloseIsClean
    CachedIsClean
PROPERTIES
    EvictsOldest
    ImplementsFresh
CHECK_DEADLOCK FALSE
