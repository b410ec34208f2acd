SPECIFICATION Spec
CONSTANTS
    a = a
    b = b
    c = c
    d = d
    Units = {a, b, c}
    DepTypes = {"Requires", "Requisite", "Wants", "Conflicts", "PropagatesStopTo", "PropagatesReloadTo", "Triggers"}
    Graphs <- UpToTwo
    Following <- Aliases
    Unloadable = {c}
    Perpetual = {}
    Devices = {b, c}
    CanReload = {a}
    IgnoreOnIsolate = {}
    Requests <- TypesA
    States = {"inactive", "active"}
    InstalledJobs <- NothingInstalled
    OrderIgnored = {}
INVARIANTS NoStalePointer RequirementsMet
PROPERTIES Settles
CHECK_DEADLOCK FALSE
