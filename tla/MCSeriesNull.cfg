CONSTANTS
    I64Max = 15
    Unbounded = 8
    MaxRows = 12
    Value <- MCValue
    Step <- MCStep
SPECIFICATION FairSpec
INVARIANTS
    NullNoRows
CHECK_DEADLOCK FALSE
