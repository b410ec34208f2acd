SPECIFICATION Spec
CONSTANTS
    Pids = {p1, p2}
    NoPid = NoPid
    Configs <- TwoCommands
    Requests = {"start", "stop"}
    Exits = {"success", "exit-code"}
INVARIANTS TimeoutArmed
