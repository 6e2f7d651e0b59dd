CONSTANTS
    Collections = {c1}
    Keys = {k1, k2}
    Bodies = {b1, b2}
    TxIds = {w1, w2}
    NoDoc = NoDoc
    NoTx = NoTx
    MaxSize <- NoCaps
    Ops = {"insert"}
    MaxGuard = 0
    MaxRequests = 3
    MaxCrashes = 1
SPECIFICATION Spec
INVARIANTS
    AckedWritesDurable
PROPERTIES
    WritesAreAtomic
