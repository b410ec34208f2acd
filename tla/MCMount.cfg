SPECIFICATION FairSpec
CONSTANTS
    Configs <- MountUnits
    Requests = {"start", "verify", "stop", "restart", "reload"}
    Exits = {"success", "exit-code"}
    RETRY_UMOUNT_MAX = 2
    MaxStack = 2
INVARIANTS TypeOK NoAssertion MirrorsKernel TimeoutArmed
PROPERTIES ImplementsContract ExitSeesTable OperationEnds
