CONSTANTS
    Collections = {c1}
    Keys = {k1, k2}
    Bodies = {b1, b2}
    TxIds = {w1}
    NoDoc = NoDoc
    NoTx = NoTx
    MaxSize <- CapOne
    Ops = {"insert", "update", "delete", "delete_n", "delete_filtered", "delete_collection", "set_schema"}
    MaxGuard = 2
    MaxRequests = 4
    MaxCrashes = 1
SPECIFICATION Spec
INVARIANTS
    TypeOK
    AckedWritesDurable
    SeqUnique
    IndexMatchesWhenQuiescent
PROPERTIES
    VersionNamesContent
    EvictionExact
    WritesAreAtomic
