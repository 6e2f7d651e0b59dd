CONSTANTS
    Collections = {c1}
    Keys = {k1, k2}
    Bodies = {b1}
    TxIds = {w1, w2}
    NoDoc = NoDoc
    NoTx = NoTx
    MaxSize <- CapOne
    Ops = {"insert", "delete", "delete_n"}
    MaxGuard = 0
    MaxRequests = 3
    MaxCrashes = 0
SPECIFICATION FairSpec
INVARIANTS
    SeqUnique
    IndexMatches
PROPERTIES
    RequestsReturn
