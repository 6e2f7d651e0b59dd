\* Two callers, two collections, two workers; one write and one dead thread.
CONSTANTS
    a = a  b = b
    Callers = {c1, c2}
    Collections = {a, b}
    Workers = {w1, w2}
    Keys = {1, 2, 3}
    Vals = {0, 1, 2}
    Requests <- MCRequests
    Starts <- MCStarts
    Batches <- MCBatches
    NoDoc = NoDoc
    NoCol = NoCol
    MaxBatch = 2
    MaxWrites = 1
    MaxFailures = 1
SPECIFICATION Spec
INVARIANTS StableAnswerExact BatchSeenWhole
PROPERTIES EveryScanAnswered
CHECK_DEADLOCK FALSE
