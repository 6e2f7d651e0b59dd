\* One handler: no two saves overlap.
CONSTANTS
    Handlers = {h1}
    Sockets = {s1}
    Pruner = pruner
    Ids <- MCIds
    Sec = 2
    Ttls = {4}
    Menu <- MCMenu
    RevokeTtl = 4
    Leeway = 2
    Limit = 2
    Window = 2
    Grace = 2
    MaxTime = 3
    MaxRequests = 3
    MaxPrunes = 0
    MaxRestarts = 0
SPECIFICATION Spec
INVARIANTS RevocationsReload
CHECK_DEADLOCK FALSE
