----------------------------- MODULE MCService ------------------------------
(***************************************************************************)
(* Unit files to check the service state machine with.                     *)
(***************************************************************************)
EXTENDS ServiceContract

\* Type=simple with every timeout finite and otherwise the defaults.
Default ==
    [type |-> "simple", exit_type |-> "main", restart |-> "no", restart_mode |-> "normal",
     remain_after_exit |-> FALSE, pid_file |-> FALSE, guess_main_pid |-> TRUE,
     commands |-> [c \in Commands |-> IF c = "start" THEN 1 ELSE 0],
     kill_mode |-> "control-group", send_sigkill |-> TRUE,
     timeout_start |-> TRUE, timeout_stop |-> TRUE, timeout_abort |-> TRUE,
     timeout_clean |-> TRUE, runtime_max |-> FALSE,
     start_failure_mode |-> "terminate", stop_failure_mode |-> "terminate",
     watchdog |-> FALSE, notify_access |-> "none", oom_policy |-> "continue",
     clean |-> FALSE, says |-> {}, forks |-> FALSE]

Has(c, commands) == [c EXCEPT !.commands = [k \in Commands |-> IF k \in commands THEN 1 ELSE @[k]]]

\* A daemon that is restarted, with all it takes to stop it.
Simple == Has([Default EXCEPT !.restart = "always", !.restart_mode = "direct"], {"start-pre", "stop", "stop-post"})

\* One that hands over to a child.
Successor == [Default EXCEPT !.exit_type = "cgroup", !.kill_mode = "mixed", !.forks = TRUE, !.restart = "on-success",
                             !.notify_access = "all", !.says = {"MAINPID"}]

Watchdog == [Default EXCEPT !.type = "notify", !.notify_access = "main", !.says = {"READY", "WATCHDOG"},
                            !.watchdog = TRUE, !.restart = "on-failure"]

Reloads == [Default EXCEPT !.type = "notify-reload", !.notify_access = "main", !.watchdog = TRUE,
                           !.says = {"READY", "READY RELOADING", "RELOADING"}]

Forking == Has([Default EXCEPT !.type = "forking", !.forks = TRUE, !.pid_file = TRUE],
               {"start-post"})

Oneshot == [Default EXCEPT !.type = "oneshot", !.remain_after_exit = TRUE,
                           !.commands = [@ EXCEPT !["start"] = 2, !["reload"] = 2, !["stop"] = 2]]

Exec == Has([Default EXCEPT !.type = "exec", !.clean = TRUE, !.oom_policy = "stop"], {"start-post"})

Dbus == Has([Default EXCEPT !.type = "dbus", !.runtime_max = TRUE, !.send_sigkill = FALSE, !.oom_policy = "kill",
                            !.notify_access = "exec", !.says = {"STOPPING"},
                            !.start_failure_mode = "kill", !.stop_failure_mode = "abort",
                            !.timeout_abort = FALSE], {"condition"})

Services == {Simple, Successor, Watchdog, Reloads, Forking, Oneshot, Exec, Dbus}

\* Type=oneshot has no start timeout unless TimeoutStartSec= is set.
TwoCommands == {[Default EXCEPT !.type = "oneshot", !.timeout_start = FALSE, !.commands["start"] = 2]}

=============================================================================
