---------------------------- MODULE ServiceSteps ----------------------------
(***************************************************************************)
(* The state machine of a service unit (src/core/service.c): the service_  *)
(* enter_*() functions, which call each other until one of them has put    *)
(* the service in a state to wait in.  Each operator maps the Service      *)
(* object w it is called on to the set of objects it may leave behind:     *)
(* forking a process, killing some or arming a timer may fail.  Such a     *)
(* function calls the next one last if at all; w.next is that call.        *)
(*                                                                         *)
(* An object also has its unit's job, the unit states it notified the job  *)
(* engine of, and the processes in its control group.  conf is what the    *)
(* unit file says.                                                         *)
(***************************************************************************)
EXTENDS UnitJob, FiniteSets

CONSTANTS Pids,     \* bound: the processes that exist at one time
          NoPid

ASSUME PidsAssumption == NoPid \notin Pids

VARIABLE conf

Starting == {"condition", "start-pre", "start", "start-post"}
Reloading == {"reload", "reload-signal", "reload-notify"}
StopSignal == {"stop-watchdog", "stop-sigterm", "stop-sigkill"}
FinalSignal == {"final-watchdog", "final-sigterm", "final-sigkill"}
Stopping == {"stop", "stop-post"} \cup StopSignal \cup FinalSignal
BeforeRestart == {"dead-before-auto-restart", "failed-before-auto-restart"}
AutoRestart == {"auto-restart", "auto-restart-queued"}
ServiceState == {"dead", "failed", "running", "exited", "cleaning"}
                \cup Starting \cup Reloading \cup Stopping \cup BeforeRestart \cup AutoRestart

ServiceResult == {"success", "resources", "protocol", "timeout", "exit-code", "signal",
                  "core-dump", "watchdog", "start-limit-hit", "oom-kill", "skip-condition"}

\* enum ServiceExecCommand: conf.commands has the length of each list of commands.
Commands == {"condition", "start-pre", "start", "start-post", "reload", "stop", "stop-post"}

\* Mutant of Timed: the timeout of a service that has exited stays set.
Mut_Timed ==
    Starting \cup {"running", "exited"} \cup Reloading \cup Stopping \cup {"auto-restart", "cleaning"}

\* The states with a timeout, with a main process, a control process and a
\* watchdog, as service_set_state() lists them.
Timed == Starting \cup {"running"} \cup Reloading \cup Stopping \cup {"auto-restart", "cleaning"}
WithMain == {"start", "start-post", "running"} \cup Reloading \cup Stopping
WithControl == Starting \cup Reloading \cup Stopping \cup {"cleaning"}
Watched == {"start-post", "running"} \cup Reloading

\* state_translation_table, state_translation_table_idle.
service_active_state(state) ==
    IF state \in {"dead", "dead-before-auto-restart"} THEN "inactive"
    ELSE IF state \in {"failed", "failed-before-auto-restart"} THEN "failed"
    ELSE IF state \in Starting THEN IF conf.type = "idle" THEN "active" ELSE "activating"
    ELSE IF state \in AutoRestart THEN "activating"
    ELSE IF state \in {"running", "exited"} THEN "active"
    ELSE IF state \in Reloading THEN "reloading"
    ELSE IF state \in Stopping THEN "deactivating" ELSE "maintenance"

service_set_state(w, state) ==
    unit_notify([w EXCEPT !.state = state,
                          !.pid_watch = FALSE,
                          !.timer = @ /\ state \in Timed,
                          !.main = IF state \in WithMain THEN @ ELSE NoPid,
                          !.main_command = IF state \in WithMain THEN @ ELSE 0,
                          !.control = IF state \in WithControl THEN @ ELSE NoPid,
                          !.control_command = IF state \in WithControl THEN @ ELSE 0,
                          !.exec_fd = IF state = "start" THEN @ ELSE "none",
                          !.watchdog = @ /\ state \in Watched,
                          !.perform = FALSE],
                service_active_state(state))

service_arm_timer(w, finite) == [w EXCEPT !.timer = finite, !.armed = TRUE]

\* if (s->result == SERVICE_SUCCESS) s->result = f
Blame(w, f) == [w EXCEPT !.result = IF @ = "success" THEN f ELSE @]

\* The call a function ends with: service_enter_<op>(f), or service_enter_signal(
\* to, f), or service_enter_dead(f, to = "restart").
NoCall == <<"none", "success", "none">>
Then(w, op, f, to) == {[w EXCEPT !.next = <<op, f, to>>]}
ThenEnter(w, op, f) == Then(w, op, f, "none")
ThenSignal(w, state, f) == Then(w, "signal", f, state)
ThenDead(w, f) == Then(w, "dead", f, "restart")

\* An assertion fails: PID 1 is gone.
Abort(w) == {[w EXCEPT !.aborted = TRUE]}

-----------------------------------------------------------------------------
(* Processes.                                                              *)

service_set_main_pidref(w, p) ==
    IF p = w.main /\ w.main_known THEN w
    ELSE [w EXCEPT !.main = p, !.main_known = TRUE, !.main_alien = p \in w.foreign]

\* The process ID the kernel picks next: one that is not in use.
Fresh(w) ==
    LET free == Pids \ (w.live \cup w.zombie \cup {w.main, w.control})
    IN IF free = {} THEN {} ELSE {CHOOSE p \in free : TRUE}

\* service_spawn(): a process more and the timeout set.  If it fails there is
\* neither, or only the timeout, or both but PID 1 does not know the process.
Spawn(w, p, finite) == [w EXCEPT !.live = @ \cup {p}, !.timer = finite, !.armed = TRUE]
SpawnFails(w, finite) == {w, service_arm_timer(w, finite)} \cup {Spawn(w, p, finite) : p \in Fresh(w)}

\* ... command n of a list, counted from its end, as the control process
SpawnControl(w, n, finite) ==
    IF w.exec_fd # "none" THEN Abort(w)
    ELSE {[Spawn(w, p, finite) EXCEPT !.control = p, !.control_command = n] : p \in Fresh(w)}

\* ... and as the main process, with a pipe to it for Type=exec
MainPipe == IF conf.type = "exec" THEN "cold" ELSE "none"
SpawnMain(w, n, finite) ==
    IF w.exec_fd # "none" THEN Abort(w)
    ELSE {[service_set_main_pidref(Spawn(w, p, finite), p) EXCEPT
             !.main_command = n, !.exec_fd = MainPipe] : p \in Fresh(w)}
SpawnMainFails(w, finite) ==
    {w, service_arm_timer(w, finite)} \cup {[Spawn(w, p, finite) EXCEPT !.exec_fd = MainPipe] : p \in Fresh(w)}

\* control_command only matters as long as there is a control process.
service_unwatch_control_pid(w) == [w EXCEPT !.control = NoPid, !.control_command = 0]

main_pid_good(w) ==
    IF ~ w.main_known THEN -1
    ELSE IF w.main # NoPid /\ (w.main_alien => w.main \in w.live) THEN 1 ELSE 0
control_pid_good(w) == w.control # NoPid
cgroup_good(w) == w.live # {}

service_good(w) ==
    /\ conf.type = "dbus" => w.bus_name_good
    /\ \/ main_pid_good(w) > 0
       \/ ~ (main_pid_good(w) = 0 /\ conf.exit_type = "main") /\ cgroup_good(w)

\* unit_kill_context() killed something worth waiting for.
unit_kill_context(w, kill) ==
    \/ w.main # NoPid /\ ~ w.main_alien
    \/ w.control # NoPid
    \/ /\ conf.kill_mode = "control-group" \/ (conf.kill_mode = "mixed" /\ kill)
       /\ w.live \ {w.main, w.control} # {}

-----------------------------------------------------------------------------
(* Going down.                                                             *)

\* Mutant of service_shall_restart: manual stops are not told apart.
Mut_service_shall_restart(w) ==
    \/ conf.restart = "always" /\ w.result # "skip-condition"
    \/ conf.restart = "on-success" /\ w.result = "success"
    \/ conf.restart = "on-failure" /\ w.result \notin {"success", "skip-condition"}

service_shall_restart(w) ==
    /\ ~ w.forbid_restart
    /\ \/ conf.restart = "always" /\ w.result # "skip-condition"
       \/ conf.restart = "on-success" /\ w.result = "success"
       \/ conf.restart = "on-failure" /\ w.result \notin {"success", "skip-condition"}
       \/ conf.restart = "on-abnormal" /\ w.result \notin {"success", "exit-code", "skip-condition"}
       \/ conf.restart = "on-watchdog" /\ w.result = "watchdog"
       \/ conf.restart = "on-abort" /\ w.result \in {"signal", "core-dump"}

service_enter_dead(w, f, allow_restart) ==
    LET v == Blame(w, f)
        clean(x) == x.result \in {"success", "skip-condition"}
        end(x) == [service_set_state(x, IF clean(x) THEN "dead" ELSE "failed") EXCEPT !.forbid_restart = FALSE]
        down == IF conf.restart_mode = "direct" THEN v
                ELSE service_set_state(v, IF clean(v) THEN "dead-before-auto-restart" ELSE "failed-before-auto-restart")
    IN IF allow_restart /\ w.job # "stop" /\ service_shall_restart(v)
       THEN {[service_set_state(service_arm_timer(down, TRUE), "auto-restart") EXCEPT !.forbid_restart = FALSE],
             end(Blame(down, "resources"))}
       ELSE {end(v)}

\* What is next if there was nothing to kill, and if killing failed.
Escalate(w, state, f) ==
    IF state = "final-sigkill" \/ (state \in FinalSignal /\ (~ conf.send_sigkill \/ f # "success")) THEN ThenDead(w, f)
    ELSE IF state \in FinalSignal THEN ThenSignal(w, "final-sigkill", f)
    ELSE IF state \in {"stop-watchdog", "stop-sigterm"} /\ conf.send_sigkill /\ f = "success"
    THEN ThenSignal(w, "stop-sigkill", f) ELSE ThenEnter(w, "stop-post", f)

\* TimeoutAbortSec= is for SIGABRT, or what else WatchdogSignal= is.
StopTimeout(state) == IF state \in {"stop-watchdog", "final-watchdog"} THEN conf.timeout_abort ELSE conf.timeout_stop

service_enter_signal(u, state, f) ==
    LET w == Blame(u, f)
    IN IF conf.kill_mode = "none" THEN Escalate(w, state, "success")
       ELSE Escalate(w, state, "resources")
            \cup (IF unit_kill_context(w, state \in {"stop-sigkill", "final-sigkill"})
                  THEN {service_set_state(service_arm_timer(w, StopTimeout(state)), state)}
                  ELSE Escalate(w, state, "success"))

service_enter_stop_post(w, f) ==
    LET v == service_unwatch_control_pid(Blame(w, f))
        n == conf.commands["stop-post"]
    IN IF n = 0 THEN ThenSignal(v, "final-sigterm", "success")
       ELSE {service_set_state(x, "stop-post") : x \in SpawnControl(v, n, conf.timeout_stop)}
            \cup UNION {ThenSignal(x, "final-sigterm", "resources") : x \in SpawnFails(v, conf.timeout_stop)}

service_enter_stop_by_notify(w) ==
    {service_set_state(service_arm_timer(w, conf.timeout_stop), "stop-sigterm")}
    \cup ThenSignal(w, "stop-sigterm", "resources")

service_enter_stop(w, f) ==
    LET v == service_unwatch_control_pid(Blame(w, f))
        n == conf.commands["stop"]
    IN IF n = 0 THEN ThenSignal(v, "stop-sigterm", "success")
       ELSE {service_set_state(x, "stop") : x \in SpawnControl(v, n, conf.timeout_stop)}
            \cup UNION {ThenSignal(x, "stop-sigterm", "resources") : x \in SpawnFails(v, conf.timeout_stop)}

-----------------------------------------------------------------------------
(* Going up.                                                               *)

\* Back to service_enter_running(), the reload having failed.
ReloadFails(w, f) == ThenEnter([w EXCEPT !.reload_result = f], "running", "success")

service_enter_reload_by_notify(w) ==
    {service_set_state(service_arm_timer(w, conf.timeout_start), "reload-notify")} \cup ReloadFails(w, "resources")

service_enter_running(w, f) ==
    LET v == service_unwatch_control_pid(Blame(w, f))
        running == service_set_state(v, "running")
    IN IF v.result # "success" THEN ThenSignal(v, "stop-sigterm", f)
       ELSE IF service_good(v)
       THEN IF v.notify_state = "reloading" THEN service_enter_reload_by_notify(v)
            ELSE IF v.notify_state = "stopping" THEN service_enter_stop_by_notify(v)
            ELSE {service_arm_timer(running, conf.runtime_max)}
                 \cup ThenSignal(running, "stop-sigterm", "resources")
       ELSE IF conf.remain_after_exit THEN {service_set_state(v, "exited")}
       ELSE ThenEnter(v, "stop", "success")

service_enter_start_post(w) ==
    LET v == [service_unwatch_control_pid(w) EXCEPT !.watchdog = conf.watchdog]
        n == conf.commands["start-post"]
    IN IF n = 0 THEN ThenEnter(v, "running", "success")
       ELSE {service_set_state(x, "start-post") : x \in SpawnControl(v, n, conf.timeout_start)}
            \cup UNION {ThenEnter(x, "stop", "resources") : x \in SpawnFails(v, conf.timeout_start)}

\* SendSIGKILL=no services do not start next to processes of a former run.
service_adverse_to_leftover_processes(w) ==
    w.live # {} /\ conf.kill_mode \in {"mixed", "control-group"} /\ ~ conf.send_sigkill

\* Type=simple services are up once they are forked.
Launched(spawned) ==
    IF conf.type \in {"simple", "idle"} THEN UNION {ThenEnter(x, "start-post", "success") : x \in spawned}
    ELSE {service_set_state(x, "start") : x \in spawned}

service_enter_start(w) ==
    LET v == [service_unwatch_control_pid(w) EXCEPT !.main = NoPid]
        n == conf.commands["start"]
        finite == conf.timeout_start /\ conf.type \notin {"simple", "idle"}
        command == [v EXCEPT !.main_command = IF conf.type = "forking" THEN 0 ELSE n]
        spawned == IF conf.type = "forking" THEN SpawnControl(command, n, finite) ELSE SpawnMain(command, n, finite)
    IN IF service_adverse_to_leftover_processes(w) THEN ThenSignal(v, "stop-sigterm", "resources")
       ELSE IF n = 0   \* only Type=oneshot has no ExecStart=
       THEN ThenEnter(service_set_state(command, "start"), "start-post", "success")
       ELSE Launched(spawned)
            \cup UNION {ThenSignal(x, "stop-sigterm", "resources") : x \in SpawnMainFails(command, finite)}

\* ExecCondition= and ExecStartPre=: the step of that name, or the next one.
EnterControlStep(w, state, next) ==
    LET v == service_unwatch_control_pid(w)
        n == conf.commands[state]
    IN IF n = 0 THEN ThenEnter(w, next, "success")
       ELSE IF service_adverse_to_leftover_processes(v) THEN ThenDead(v, "resources")
       ELSE {service_set_state(x, state) : x \in SpawnControl(v, n, conf.timeout_start)}
            \cup UNION {ThenDead(x, "resources") : x \in SpawnFails(v, conf.timeout_start)}

service_enter_start_pre(w) == EnterControlStep(w, "start-pre", "start")
service_enter_condition(w) == EnterControlStep(w, "condition", "start-pre")

\* A running job is run again after the merge, even by a job it covers.
service_enter_restart(w) ==
    IF w.job = "stop" THEN {w}
    ELSE service_enter_dead(w, "resources", FALSE)
         \cup {service_set_state([job_install(w, service_active_state(w.state), "start") EXCEPT !.run = FALSE], "auto-restart-queued")}

service_enter_reload(w) ==
    LET v == [service_unwatch_control_pid(w) EXCEPT !.reload_result = "success"]
        n == conf.commands["reload"]
    IN IF n > 0
       THEN {service_set_state(x, "reload") : x \in SpawnControl(v, n, conf.timeout_start)}
            \cup UNION {ReloadFails(x, "resources") : x \in SpawnFails(v, conf.timeout_start)}
       ELSE IF conf.type = "notify-reload" /\ v.main # NoPid
       THEN {service_set_state(service_arm_timer(v, conf.timeout_start), "reload-signal")} \cup ReloadFails(v, "resources")
       ELSE ThenEnter(v, "running", "success")

service_run_next_control(w) ==
    LET v == service_unwatch_control_pid(w)
        n == w.control_command - 1
        finite == IF w.state \in Starting \cup {"running", "reload"} THEN conf.timeout_start ELSE conf.timeout_stop
        fail(x) == IF w.state \in {"condition", "start-pre", "start-post", "stop"}
                   THEN ThenSignal(x, "stop-sigterm", "resources")
                   ELSE IF w.state = "stop-post" THEN ThenDead(x, "resources")
                   ELSE IF w.state = "reload" THEN ReloadFails(x, "resources")
                   ELSE ThenEnter(x, "stop", "resources")
    IN SpawnControl(v, n, finite) \cup UNION {fail(x) : x \in SpawnFails(v, finite)}

service_run_next_main(w) ==
    LET v == [w EXCEPT !.main = NoPid]
        n == w.main_command - 1
    IN SpawnMain(v, n, conf.timeout_start)
       \cup UNION {ThenEnter([x EXCEPT !.main_command = n], "stop", "resources") : x \in SpawnFails(v, conf.timeout_start)}

-----------------------------------------------------------------------------
\* The call w.next.
Call(u) ==
    LET w == [u EXCEPT !.next = NoCall]
        op == u.next[1]
        f == u.next[2]
        to == u.next[3]
    IN IF op = "dead" THEN service_enter_dead(w, f, to = "restart")
       ELSE IF op = "signal" THEN service_enter_signal(w, to, f)
       ELSE IF op = "stop-post" THEN service_enter_stop_post(w, f)
       ELSE IF op = "stop" THEN service_enter_stop(w, f)
       ELSE IF op = "running" THEN service_enter_running(w, f)
       ELSE IF op = "start-post" THEN service_enter_start_post(w)
       ELSE IF op = "start" THEN service_enter_start(w)
       ELSE service_enter_start_pre(w)

=============================================================================
