CONSTANTS
    Collections = {c1, c2}
    Keys = {k1}
    Bodies = {b1}
    TxIds = {w1, w2}
    NoDoc = NoDoc
    NoTx = NoTx
    MaxSize <- NoCaps
    Ops = {"insert"}
    MaxGuard = 0
    MaxRequests = 2
    MaxCrashes = 0
SPECIFICATION Spec
SYMMETRY Symmetry
INVARIANTS
    AckedWritesDurable
