SPECIFICATION Spec
CONSTANTS
    a = a
    b = b
    c = c
    d = d
    Units = {a, b, c}
    DepTypes = {}
    Graphs <- EngineGraphs
    Following <- NobodyFollows
    Unloadable = {}
    Perpetual = {c}
    Devices = {}
    CanReload = {a, b, c}
    IgnoreOnIsolate = {c}
    Requests <- EngineAsks
    States = {"inactive", "active", "activating"}
    InstalledJobs <- OneInstalled
    OrderIgnored = {b}
INVARIANTS EngineOutcome RequirementsMet ConflictsStopped OrderVerified
CHECK_DEADLOCK FALSE
