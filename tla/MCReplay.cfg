CONSTANTS
    Collections = {c1}
    Keys = {k1}
    Bodies = {b1}
    TxIds = {x1, x2}
    NoDoc = NoDoc
    NoTx = NoTx
    MaxLog = 5
    MaxStamped = 4
    MaxTime = 1
SPECIFICATION Spec
SYMMETRY Symmetry
INVARIANTS
    ReplayIsCommittedWrites
    AccumulatorIsReplay
    RecoverIsPastReplay
CHECK_DEADLOCK FALSE
