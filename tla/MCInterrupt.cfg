CONSTANTS
    Interrupter = {i1, i2}
    Owner = Owner
    Nobody = Nobody
    Ownership = {TRUE, FALSE}
    MaxInterrupts = 2
    MaxCloses = 2
SPECIFICATION HFairSpec
INVARIANTS
    NoInterruptOfClosed
    CloseAssertion
PROPERTIES
    InterruptStopsQuery
    CallsComplete
CHECK_DEADLOCK FALSE
