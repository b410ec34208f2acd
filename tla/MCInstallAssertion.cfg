SPECIFICATION Spec
CONSTANTS
    a = a
    b = b
    c = c
    Units = {a, b}
    Dep <- MCDep
    TransactionJobs <- MCTransactionJobs
    Declared <- BoundToSocket
    Devices = {}
    Mounts = {}
    StopWhenUnneeded = {}
    IgnoreOnIsolate = {}
    JobTimeout = {}
    JobRunningTimeout = {}
    Requests <- StartStop
    States <- MainStates
    MaxDepth = 4
INVARIANTS InstallAssertion
