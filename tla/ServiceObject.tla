--------------------------- MODULE ServiceObject ----------------------------
(***************************************************************************)
(* What a Service object is, for the proofs about services.                *)
(***************************************************************************)
EXTENDS ServiceSteps

\* The fields of a Service object.
Fields == {"state", "result", "reload_result", "main", "main_known", "main_alien", "main_command",
           "control", "control_command", "timer", "watchdog", "exec_fd", "pid_watch", "notify_state",
           "bus_name_good", "forbid_restart", "stopped", "tick", "armed", "perform", "live", "zombie", "foreign",
           "empty", "job", "run", "next", "notified", "aborted"}

\* w is a Service object.
Object(w) ==
    /\ w = [k \in Fields |-> w[k]]
    /\ w.live \subseteq Pids /\ w.zombie \subseteq Pids
    /\ w.main_command \in Int /\ w.main_command <= conf.commands["start"] /\ conf.commands["start"] \in Nat

\* The states service_enter_signal() enters.
Signals == StopSignal \cup FinalSignal

=============================================================================
