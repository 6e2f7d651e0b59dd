CONSTANTS
    Collections = {c1, c2}
    Keys = {k1}
    Bodies = {b1}
    TxIds = {x1}
    NoDoc = NoDoc
    NoTx = NoTx
    Ttls = {0, 1, 2}
    MaxTime = 2
    MaxRequests = 4
    MaxRestarts = 1
    Capacity = 12
SPECIFICATION Spec
INVARIANTS
    ExpiredStaysGone
    HeapCovers
PROPERTIES
    ExpiredSwept
CHECK_DEADLOCK FALSE
