SPECIFICATION Spec
CONSTANTS
    a = a
    b = b
    c = c
    d = d
    Units = {a, b, c, d}
    DepTypes = {}
    Graphs <- LoopToBroken
    Following <- NobodyFollows
    Unloadable = {d}
    Perpetual = {}
    Devices = {}
    CanReload = {a}
    IgnoreOnIsolate = {}
    Requests <- StartA
    States = {"inactive"}
    InstalledJobs <- NothingInstalled
    OrderIgnored = {}
INVARIANTS RequiredStarted
CHECK_DEADLOCK FALSE
