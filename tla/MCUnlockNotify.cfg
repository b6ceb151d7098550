CONSTANTS
    Conn = {c1, c2}
    Table = {t1, t2}
    Schema = Schema
    None = None
    Mode = {"read", "write", "drop"}
    MaxOps = 2
SPECIFICATION FairSpec
INVARIANTS
    CallbackOnLive
    NoLostWakeup
    NoWaitCycle
PROPERTIES
    WaitEnds
    SelfLockReturns
