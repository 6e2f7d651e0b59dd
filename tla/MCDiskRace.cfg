CONSTANTS
    Collections = {c1}
    Keys = {k1, k2}
    Bodies = {b1}
    TxIds = {x1}
    NoDoc = NoDoc
    NoTx = NoTx
    NoFile = NoFile
    Modes = {"sync"}
    WritesDuringCompaction = TRUE
    MaxWrites = 2
    MaxCompactions = 1
    MaxRestarts = 1
    MaxFaults = 0
SPECIFICATION Spec
PROPERTIES
    ZeroDataLoss
CHECK_DEADLOCK FALSE
