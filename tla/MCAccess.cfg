\* Two handlers, the pruner and a socket; three requests, one prune, one restart.
CONSTANTS
    Handlers = {h1, h2}
    Sockets = {s1}
    Pruner = pruner
    Ids <- MCIds
    Sec = 2
    Ttls = {4}
    Menu <- PassMenu
    RevokeTtl = 2
    Leeway = 0
    Limit = 2
    Window = 2
    Grace = 0
    MaxTime = 2
    MaxRequests = 3
    MaxPrunes = 1
    MaxRestarts = 1
SPECIFICATION Spec
INVARIANTS SuccessorsBounded
PROPERTIES RefusedUntilDeadline RateExact RevokedSocketCloses
CHECK_DEADLOCK FALSE
