SPECIFICATION Spec
CONSTANTS
    MaxPages = 3
    MaxChanges = 2
    Stores = {"journal", "wal", "memory"}
    StepPages = {1, 2}
    Faults = TRUE
    NoPage = NoPage
    OldPage = OldPage
INVARIANT Copied
PROPERTY ImplementsSnapshot
PROPERTY RunCompletes
PROPERTY CallsEnd
