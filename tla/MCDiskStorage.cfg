CONSTANTS
    Collections = {c1}
    Keys = {k1, k2}
    Bodies = {b1}
    TxIds = {x1}
    NoDoc = NoDoc
    NoTx = NoTx
    NoFile = NoFile
    Modes = {"sync", "async"}
    WritesDuringCompaction = FALSE
    MaxWrites = 2
    MaxCompactions = 2
    MaxRestarts = 1
    MaxFaults = 1
SPECIFICATION Spec
INVARIANTS
    TypeOK
PROPERTIES
    RestartKeepsAcked
    CrashLosesSuffix
    CompactionReturns
    AckedReachesDisk
CHECK_DEADLOCK FALSE
