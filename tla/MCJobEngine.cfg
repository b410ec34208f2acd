SPECIFICATION Spec
CONSTANTS
    a = a
    b = b
    c = c
    Units = {a, b, c}
    Dep <- MCDep
    TransactionJobs <- MCTransactionJobs
    Declared <- MountOnDevice
    Devices = {b}
    Mounts = {a}
    StopWhenUnneeded = {}
    IgnoreOnIsolate = {}
    JobTimeout = {a}
    JobRunningTimeout = {b}
    Requests <- RequestsA
    States <- FewStates
    MaxDepth = 4
INVARIANTS TypeOK NoDanglingJob TimersArmed RunningConsistent NoLostWakeup NoLostGc NoOrderDeadlock
