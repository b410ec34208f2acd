SPECIFICATION LiveSpec
CONSTANTS
    a = a
    b = b
    c = c
    Units = {a, b, c}
    Dep <- MCDep
    TransactionJobs <- MCTransactionJobs
    Declared <- SocketActivation
    Devices = {}
    Mounts = {}
    StopWhenUnneeded = {}
    IgnoreOnIsolate = {}
    JobTimeout = {}
    JobRunningTimeout = {}
    Requests <- ModesA
    States <- AllStates
    MaxDepth = 4
    MaxRequests = 2
    MaxChanges = 1
INVARIANTS InstallAssertion
PROPERTIES JobsEnd HandlersReturn
CHECK_DEADLOCK FALSE
