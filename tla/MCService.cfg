SPECIFICATION FairSpec
CONSTANTS
    Pids = {p1, p2}
    NoPid = NoPid
    Configs <- Services
    Requests = {"start", "stop", "restart", "reload"}
    Exits = {"success", "exit-code"}
INVARIANTS TypeOK NoAssertion TimeoutArmed WatchdogArmed StopSticks
PROPERTIES ImplementsContract StartingEnds StoppingEnds
