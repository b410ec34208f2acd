------------------------------ MODULE Service -------------------------------
(***************************************************************************)
(* A service unit: what PID 1 does to it when a job is run, a process      *)
(* exits, a timeout elapses, a notification arrives or the manager         *)
(* reloads, with the service's processes doing what they like.  conf also  *)
(* has what they are up to: says is what they say over the notify socket,  *)
(* forks whether they fork.  stopped, tick, armed and perform are history: *)
(* no start was carried out since the service was last stopped, the last   *)
(* step was service_dispatch_timer(), the last step set the timer anew,    *)
(* the job being run has had no effect yet.                                *)
(***************************************************************************)
EXTENDS ServiceSteps

CONSTANTS Configs,        \* unit files
          Requests,       \* the job types clients ask for
          Exits           \* how processes end, "success" being a clean exit

ASSUME RequestsAssumption == Requests \subseteq MergingTypes
ASSUME ConfigsAssumption == \A c \in Configs, k \in Commands : c.commands[k] \in Nat
ASSUME ExitsAssumption == Exits \subseteq ServiceResult

VARIABLE svc

vars == <<conf, svc>>

\* PID 1 handles one event at a time, and none once it has crashed.
Step(outcomes) ==
    /\ ~ svc.aborted /\ svc.next = NoCall
    /\ svc' \in outcomes /\ UNCHANGED conf

\* The object as a handler finds it.
Called == [svc EXCEPT !.notified = <<>>, !.tick = FALSE, !.armed = FALSE, !.perform = FALSE]

\* The handler goes on.
Continue ==
    /\ ~ svc.aborted /\ svc.next # NoCall
    /\ svc' \in Call([svc EXCEPT !.notified = <<>>, !.tick = FALSE, !.armed = FALSE]) /\ UNCHANGED conf

-----------------------------------------------------------------------------
(* The jobs of the unit.                                                   *)

service_start(w) ==
    IF w.state \in Stopping \cup {"cleaning", "auto-restart"} \cup BeforeRestart THEN {TryAgain(w)}
    ELSE IF w.state \in Starting THEN {w}
    ELSE IF w.state \notin {"dead", "failed", "auto-restart-queued"} THEN Abort(w)
    ELSE service_enter_condition(
            [w EXCEPT !.result = "success", !.reload_result = "success", !.main_known = FALSE,
                      !.main_alien = FALSE, !.forbid_restart = FALSE, !.notify_state = "unknown",
                      !.stopped = FALSE])

\* Conditions, assertions and dependencies may end the job before the service
\* hears of it; service_can_start() checks the start limit.
unit_start(w) ==
    LET active == service_active_state(w.state)
    IN IF IsActiveOrReloading(active) THEN {job_finish(w)}
       ELSE IF active = "maintenance" THEN {TryAgain(w)}
       ELSE {job_finish(w)}
            \cup service_enter_dead(w, "start-limit-hit", FALSE)
            \cup service_start(w)

service_stop(w) ==
    LET v == [w EXCEPT !.forbid_restart = TRUE, !.stopped = TRUE]
    IN IF w.state \in Stopping \ {"stop-watchdog"} THEN {v}
       ELSE IF w.state \in AutoRestart THEN {service_set_state(v, "dead")}
       ELSE IF w.state \in Starting \cup Reloading \cup {"stop-watchdog"}
       THEN service_enter_signal(v, "stop-sigterm", "success")
       ELSE IF w.state = "cleaning" THEN service_enter_signal(v, "final-sigkill", "success")
       ELSE IF w.state \in {"running", "exited"} THEN service_enter_stop(v, "success")
       ELSE Abort(v)

unit_stop(w) ==
    IF IsInactiveOrFailed(service_active_state(w.state)) THEN {job_finish(w)} ELSE service_stop(w)

service_reload(w) ==
    IF w.state \in {"running", "exited"} THEN service_enter_reload(w) ELSE Abort(w)

service_can_reload == conf.commands["reload"] > 0 \/ conf.type = "notify-reload"

unit_reload(w) ==
    LET active == service_active_state(w.state)
    IN IF ~ service_can_reload THEN {job_finish(w)}
       ELSE IF active = "reloading" THEN {TryAgain(w)}
       ELSE IF active # "active" THEN {job_finish(w)} ELSE service_reload(w)

\* unit_job_is_applicable() turns down reloads of a service that has none.
Request(t) == (t = "reload" => service_can_reload) /\ Step({job_install(Called, service_active_state(svc.state), t)})

Cancel == svc.job # "none" /\ Step({[Called EXCEPT !.job = "none", !.run = FALSE]})

RunJob ==
    /\ svc.job # "none" /\ ~ svc.run
    /\ LET w == [Called EXCEPT !.run = TRUE, !.perform = TRUE]
       IN Step(IF w.job = "start" THEN unit_start(w)
               ELSE IF w.job = "verify" THEN verify_active(w, service_active_state(w.state))
               ELSE IF w.job = "reload" THEN unit_reload(w) ELSE unit_stop(w))

-----------------------------------------------------------------------------
(* The service's processes.                                                *)

\* A process of the service forks; the child is PID 1's own if it is orphaned.
Fork ==
    /\ conf.forks /\ svc.live # {}
    /\ \E p \in Fresh(svc), orphan \in BOOLEAN :
         Step({[Called EXCEPT !.live = @ \cup {p}, !.foreign = IF orphan THEN @ ELSE @ \cup {p}]})

\* A process ends.  PID 1 hears of its own children, and gets theirs.
Exit(p) ==
    /\ p \in svc.live
    /\ \E adopted \in SUBSET (svc.foreign \ {p}) :
         Step({[Called EXCEPT !.live = @ \ {p},
                              !.zombie = IF p \in svc.foreign THEN @ ELSE @ \cup {p},
                              !.foreign = @ \ ({p} \cup adopted),
                              !.empty = @ \/ svc.live = {p}]})

-----------------------------------------------------------------------------
(* The main PID.                                                           *)

\* <<r, w>>: the return value and the object.  The file may be missing, or name
\* any process of the service but the control process.
service_load_pid_file(w) ==
    {<<-1, w>>}
    \cup (IF ~ conf.pid_file THEN {}
          ELSE (IF w.main_known /\ w.main # NoPid THEN {<<0, w>>} ELSE {})
               \cup {<<1, service_set_main_pidref([w EXCEPT !.main_known = FALSE], p)>>
                        : p \in w.live \ ({w.control} \cup (IF w.main_known THEN {w.main} ELSE {}))})

service_search_main_pid(w) ==
    IF w.main_known \/ ~ conf.guess_main_pid THEN {w}
    ELSE {w} \cup {service_set_main_pidref(w, p) : p \in w.live \ (w.foreign \cup {w.control})}

\* service_retry_pid_file(), and the watch that stays if there is no file yet.
RetryPidFile(w) ==
    UNION {IF r[1] < 0 THEN {r[2]}
           ELSE service_enter_running([r[2] EXCEPT !.pid_watch = FALSE], "success") : r \in service_load_pid_file(w)}

\* Either the file is watched for, or fail is what happens.
service_demand_pid_file(w, fail) ==
    IF w.pid_watch THEN Abort(w)
    ELSE fail \cup (IF ~ cgroup_good(w) THEN {} ELSE RetryPidFile([w EXCEPT !.pid_watch = TRUE]))

service_dispatch_inotify_io ==
    /\ svc.pid_watch
    /\ Step(IF svc.state \notin {"start", "start-post"} THEN Abort(Called)
            ELSE RetryPidFile(Called)
                 \cup service_enter_signal([Called EXCEPT !.pid_watch = FALSE], "stop-sigterm", "resources"))

-----------------------------------------------------------------------------
(* SIGCHLD.                                                                *)

MainGone(w, f) ==
    LET alone == ~ control_pid_good(w)
    IN IF w.state \in {"start-post"} \cup Reloading THEN IF alone THEN service_enter_stop(w, f) ELSE {w}
       ELSE IF w.state = "stop" THEN {w}
       ELSE IF w.state = "start" /\ conf.type = "oneshot"
       THEN IF f = "success" THEN service_enter_start_post(w) ELSE service_enter_signal(w, "stop-sigterm", f)
       ELSE IF w.state = "start" /\ conf.type \in {"notify", "notify-reload"}
       THEN IF f # "success" THEN service_enter_signal(w, "stop-sigterm", f)
            ELSE IF ~ conf.remain_after_exit \/ conf.notify_access = "main"
            THEN service_enter_signal(w, "stop-sigterm", "protocol") ELSE {w}
       ELSE IF w.state \in {"start", "running"} THEN service_enter_running(w, f)
       ELSE IF w.state \in StopSignal THEN IF alone THEN service_enter_stop_post(w, f) ELSE {w}
       ELSE IF w.state = "stop-post" THEN IF alone THEN service_enter_signal(w, "final-sigterm", f) ELSE {w}
       ELSE IF w.state \in FinalSignal THEN IF alone THEN service_enter_dead(w, f, TRUE) ELSE {w}
       ELSE Abort(w)

\* Mutant of MainExited: command_next is not looked at.
Mut_MainExited(u, f) ==
    LET w == Blame([u EXCEPT !.exec_fd = "none", !.main = NoPid], f)
    IN IF conf.type = "oneshot" /\ f = "success" THEN service_run_next_main(w)
       ELSE MainGone([w EXCEPT !.main_command = 0], f)

MainExited(u, f) ==
    LET v == [u EXCEPT !.exec_fd = "none"]
        moved == {r \in service_load_pid_file(v) : r[1] > 0}
        w == Blame([v EXCEPT !.main = NoPid], f)
        z == [w EXCEPT !.main_command = 0]
    IN {r[2] : r \in moved}
       \cup (IF w.main_command > 1 /\ conf.type = "oneshot" /\ f = "success" THEN service_run_next_main(w)
             ELSE IF conf.exit_type = "main" \/ ~ cgroup_good(w) THEN MainGone(z, f)
             ELSE IF w.state = "start" /\ conf.type \notin {"notify", "notify-reload", "dbus"}
             THEN service_enter_start_post(z) ELSE {z})

ControlGone(w, f) ==
    LET ok == f = "success"
        terminate == service_enter_signal(w, "stop-sigterm", f)
        dead == main_pid_good(w) <= 0
    IN IF w.state = "condition" THEN IF ok THEN service_enter_start_pre(w) ELSE terminate
       ELSE IF w.state = "start-pre" THEN IF ok THEN service_enter_start(w) ELSE terminate
       ELSE IF w.state = "start" /\ conf.type # "forking" THEN {w}
       ELSE IF w.state \in {"start", "start-post"} /\ ~ ok THEN terminate
       ELSE IF w.state = "start" /\ conf.pid_file
       THEN UNION {IF conf.commands["start-post"] = 0 /\ r[1] < 0
                   THEN service_demand_pid_file(r[2], service_enter_signal(r[2], "stop-sigterm", "protocol"))
                   ELSE service_enter_start_post(r[2]) : r \in service_load_pid_file(w)}
       ELSE IF w.state = "start" THEN UNION {service_enter_start_post(x) : x \in service_search_main_pid(w)}
       ELSE IF w.state = "start-post" /\ conf.pid_file
       THEN UNION {IF r[1] < 0 THEN service_demand_pid_file(r[2], service_enter_stop(r[2], "protocol"))
                   ELSE service_enter_running(r[2], "success") : r \in service_load_pid_file(w)}
       ELSE IF w.state = "start-post" THEN UNION {service_enter_running(x, "success") : x \in service_search_main_pid(w)}
       ELSE IF w.state \in Reloading
       THEN UNION {IF x.notify_state = "reloading" THEN {service_set_state(x, "reload-notify")}
                   ELSE service_enter_running(x, "success")
                   : x \in {[y EXCEPT !.reload_result = f] :
                              y \in IF ~ ok THEN {w}
                                    ELSE UNION {IF r[1] < 0 THEN service_search_main_pid(r[2]) ELSE {r[2]}
                                                  : r \in service_load_pid_file(w)}}}
       ELSE IF w.state = "stop" THEN terminate
       ELSE IF w.state \in StopSignal THEN IF dead THEN service_enter_stop_post(w, f) ELSE {w}
       ELSE IF w.state = "stop-post" THEN IF dead THEN service_enter_signal(w, "final-sigterm", f) ELSE {w}
       ELSE IF w.state \in FinalSignal THEN IF dead THEN service_enter_dead(w, f, TRUE) ELSE {w}
       ELSE IF w.state = "cleaning" THEN service_enter_dead(w, "success", FALSE)
       ELSE Abort(w)

\* ExecCondition= that exits with 1 to 254 has the service skipped.
ControlExited(u, e) ==
    UNION {LET n == u.control_command
               v == [service_unwatch_control_pid(u) EXCEPT !.control_command = n]
               w == IF u.state = "reload" THEN v ELSE Blame(v, f)
           IN IF n > 1 /\ f = "success" THEN service_run_next_control(w)
              ELSE ControlGone([w EXCEPT !.control_command = 0], f)
           : f \in {e} \cup (IF u.state = "condition" /\ e = "exit-code" THEN {"skip-condition"} ELSE {})}

service_sigchld_event(p, f) ==
    /\ p \in svc.zombie
    /\ LET w == [Called EXCEPT !.zombie = @ \ {p}]
       IN Step(IF p = w.main THEN MainExited(w, f)
               ELSE IF p = w.control THEN ControlExited(w, f) ELSE {w})

-----------------------------------------------------------------------------
(* Other events.                                                           *)

CgroupEmpty(w) ==
    LET gone == main_pid_good(w) = 0 /\ ~ control_pid_good(w)
        all == main_pid_good(w) <= 0 /\ ~ control_pid_good(w)
    IN IF w.state = "start" /\ conf.type \in {"notify", "notify-reload"} /\ gone
       THEN service_enter_stop_post(w, "protocol")
       ELSE IF w.state = "start" /\ conf.exit_type = "cgroup" /\ main_pid_good(w) <= 0
       THEN service_enter_stop_post(w, "success")
       ELSE IF w.state \in {"start", "start-post"} /\ w.pid_watch /\ gone
       THEN LET v == [w EXCEPT !.pid_watch = FALSE]
            IN IF w.state = "start" THEN service_enter_stop_post(v, "protocol") ELSE service_enter_stop(v, "protocol")
       ELSE IF w.state = "running" THEN service_enter_running(w, "success")
       ELSE IF w.state \in StopSignal /\ all THEN service_enter_stop_post(w, "success")
       ELSE IF w.state \in {"stop-post"} \cup FinalSignal /\ all THEN service_enter_dead(w, "success", TRUE)
       ELSE {w}

\* SIGCHLD is dispatched first.  The event goes unnoticed if a new process was
\* started before PID 1 looked.
service_notify_cgroup_empty_event ==
    /\ svc.empty /\ svc.zombie = {}
    /\ LET w == [Called EXCEPT !.empty = FALSE]
       IN Step(CgroupEmpty(w) \cup (IF w.live = {} THEN {} ELSE {w}))

\* The process that was killed may be gone by now.
service_notify_cgroup_oom_event ==
    /\ conf.oom_policy # "continue"
    /\ LET w == Called
           kill == conf.oom_policy = "kill"
       IN Step(IF w.state \in Starting \cup {"stop"}
               THEN service_enter_signal(w, IF kill THEN "stop-sigkill" ELSE "stop-sigterm", "oom-kill")
               ELSE IF w.state \in {"exited", "running"}
               THEN IF kill THEN service_enter_signal(w, "stop-sigkill", "oom-kill") ELSE service_enter_stop(w, "oom-kill")
               ELSE IF w.state \in {"stop-watchdog", "stop-sigterm"} THEN service_enter_signal(w, "stop-sigkill", "oom-kill")
               ELSE IF w.state \in {"stop-sigkill", "final-sigkill"} THEN {Blame(w, "oom-kill")}
               ELSE IF w.state \in {"stop-post", "final-sigterm"} THEN service_enter_signal(w, "final-sigkill", "oom-kill")
               ELSE {w})

\* The pipe to a Type=exec process that has yet to execve(): a byte announces
\* the execve() or its failure, EOF its success or the end of the process.  The
\* announcement is "forgotten" after a daemon-reload.
service_dispatch_exec_io ==
    /\ svc.exec_fd # "none"
    /\ LET w == [Called EXCEPT !.exec_fd = "none"]
       IN \/ svc.main \in svc.live /\ Step({[Called EXCEPT !.exec_fd = IF @ = "cold" THEN "hot" ELSE "cold"]})
          \/ svc.exec_fd = "hot" /\ Step(IF w.state = "start" THEN service_enter_start_post(w) ELSE {w})
          \/ (svc.exec_fd = "cold" => svc.main \notin svc.live) /\ svc.exec_fd # "hot" /\ Step({w})

\* Mutant of KillOr: the signal that did not help is sent once more.
Mut_KillOr(w, state, skip) == service_enter_signal(w, w.state, "timeout")

\* What follows a timeout after which SIGKILL is next.
KillOr(w, state, skip) == IF conf.send_sigkill THEN service_enter_signal(w, state, "timeout") ELSE skip

\* Mutant of FailureMode: the process gets more time.
Mut_FailureMode(w, mode, term, watchdog, sigkill, skip) == {service_arm_timer(w, TRUE)}

FailureMode(w, mode, term, watchdog, sigkill, skip) ==
    IF mode = "terminate" THEN service_enter_signal(w, term, "timeout")
    ELSE IF mode = "abort" THEN service_enter_signal(w, watchdog, "timeout")
    ELSE KillOr(w, sigkill, skip)

TimedOut(w) ==
    LET stop_post == service_enter_stop_post(w, "timeout")
        failed == service_enter_dead(w, "timeout", FALSE)
    IN IF w.state \in Starting
       THEN FailureMode(w, conf.start_failure_mode, "stop-sigterm", "stop-watchdog", "stop-sigkill", stop_post)
       ELSE IF w.state = "running" THEN service_enter_stop(w, "timeout")
       ELSE IF w.state \in Reloading
       THEN service_enter_running([w EXCEPT !.reload_result = "timeout"], "success")
       ELSE IF w.state = "stop"
       THEN FailureMode(w, conf.stop_failure_mode, "stop-sigterm", "stop-watchdog", "stop-sigkill", stop_post)
       ELSE IF w.state = "stop-sigterm" /\ conf.stop_failure_mode = "abort"
       THEN service_enter_signal(w, "stop-watchdog", "timeout")
       ELSE IF w.state \in {"stop-watchdog", "stop-sigterm"} THEN KillOr(w, "stop-sigkill", stop_post)
       ELSE IF w.state = "stop-sigkill" THEN stop_post
       ELSE IF w.state = "stop-post"
       THEN FailureMode(w, conf.stop_failure_mode, "final-sigterm", "final-watchdog", "final-sigkill", failed)
       ELSE IF w.state = "final-sigterm" /\ conf.stop_failure_mode = "abort"
       THEN service_enter_signal(w, "final-watchdog", "timeout")
       ELSE IF w.state \in {"final-watchdog", "final-sigterm"} THEN KillOr(w, "final-sigkill", failed)
       ELSE IF w.state = "final-sigkill" THEN service_enter_dead(w, "timeout", TRUE)
       ELSE IF w.state = "auto-restart" THEN service_enter_restart(w)
       ELSE IF w.state = "cleaning" THEN service_enter_signal(w, "final-sigkill", "success")
       ELSE Abort(w)

service_dispatch_timer == svc.timer /\ Step(TimedOut([Called EXCEPT !.timer = FALSE, !.tick = TRUE]))

service_dispatch_watchdog ==
    svc.watchdog /\ Step(service_enter_signal([Called EXCEPT !.watchdog = FALSE], "stop-watchdog", "watchdog"))

service_notify_message_authorized(p) ==
    \/ conf.notify_access = "all"
    \/ conf.notify_access \in {"main", "exec"} /\ p = svc.main
    \/ conf.notify_access = "exec" /\ p = svc.control

\* Process q is announced as the main process.
NewMain(q) ==
    IF svc.state \in {"start", "start-post", "running"} \cup Reloading /\ q # svc.control
    THEN service_set_main_pidref(Called, q) ELSE Called

\* fresh: RELOADING=1 comes with a timestamp after the last reload request.
Notified(message, fresh) ==
    LET w == Called
        says(n) == [w EXCEPT !.notify_state = n]
    IN IF message = "STOPPING"
       THEN IF w.state \in {"running", "reload-signal", "reload-notify"}
            THEN service_enter_stop_by_notify(says("stopping")) ELSE {says("stopping")}
       ELSE IF message \in {"READY", "READY RELOADING"}
       THEN IF w.state = "start" /\ conf.type \in {"notify", "notify-reload"}
            THEN service_enter_start_post(says("ready"))
            ELSE IF w.state = "reload-notify" \/ (w.state = "reload-signal" /\ message = "READY RELOADING" /\ fresh)
            THEN service_enter_running(says("ready"), "success")
            ELSE {says("ready")}
       ELSE IF message = "RELOADING"
       THEN IF w.state = "reload-signal" /\ fresh THEN {service_set_state(says("reloading"), "reload-notify")}
            ELSE IF w.state = "running" THEN service_enter_reload_by_notify(says("reloading"))
            ELSE {says("reloading")}
       ELSE IF message = "WATCHDOG" THEN {[w EXCEPT !.watchdog = conf.watchdog]}
       ELSE service_enter_signal(w, "stop-watchdog", "watchdog")   \* WATCHDOG=trigger

service_notify_message ==
    \E p \in svc.live \cup svc.zombie :
       /\ service_notify_message_authorized(p)
       /\ \/ \E message \in conf.says \ {"MAINPID"}, fresh \in BOOLEAN : Step(Notified(message, fresh))
          \/ "MAINPID" \in conf.says /\ \E q \in svc.live : Step({NewMain(q)})

service_bus_name_owner_change ==
    /\ conf.type = "dbus"
    /\ LET w == [Called EXCEPT !.bus_name_good = ~ @]
       IN Step(IF w.state = "running" THEN service_enter_running(w, "success")
               ELSE IF w.state = "start" /\ w.bus_name_good THEN service_enter_start_post(w) ELSE {w})

service_reset_failed ==
    /\ svc.result # "success"
    /\ LET w == IF svc.state = "failed" THEN service_set_state(Called, "dead") ELSE Called
       IN Step({[w EXCEPT !.result = "success", !.reload_result = "success"]})

service_clean ==
    /\ conf.clean /\ svc.state = "dead" /\ svc.job = "none"
    /\ Step({service_set_state(x, "cleaning") : x \in SpawnControl(Called, 0, conf.timeout_clean)})

\* Mutant of ColdplugTimeout: stopping is forgotten.
Mut_ColdplugTimeout ==
    \/ svc.state \in Starting \cup Reloading /\ conf.timeout_start
    \/ svc.state = "running" /\ conf.runtime_max

\* service_coldplug_timeout()
ColdplugTimeout ==
    \/ svc.state \in Starting \cup Reloading /\ conf.timeout_start
    \/ svc.state = "running" /\ conf.runtime_max
    \/ svc.state \in Stopping /\ StopTimeout(svc.state)
    \/ svc.state = "auto-restart"
    \/ svc.state = "cleaning" /\ conf.timeout_clean

\* Mutant of Reload: the watchdog is not armed again.
Mut_Reload ==
    Step({[Called EXCEPT !.timer = ColdplugTimeout, !.watchdog = FALSE, !.notify_state = "unknown", !.pid_watch = FALSE]})

\* daemon-reload: service_serialize(), service_deserialize_item() and
\* service_coldplug().  Jobs are not told of the states read back.
Reload ==
    Step({[Called EXCEPT !.timer = ColdplugTimeout,
                         !.watchdog = conf.watchdog /\ svc.state \in Watched,
                         !.main = IF svc.main_known THEN @ ELSE NoPid,
                         !.main_alien = svc.main # NoPid /\ svc.main \notin (svc.live \ svc.foreign) \cup svc.zombie,
                         !.exec_fd = IF @ = "hot" THEN "forgotten" ELSE @,
                         !.notify_state = "unknown",
                         !.pid_watch = FALSE]})

-----------------------------------------------------------------------------
Init ==
    /\ conf \in Configs
    /\ svc = [state |-> "dead", result |-> "success", reload_result |-> "success",
              main |-> NoPid, main_known |-> FALSE, main_alien |-> FALSE, main_command |-> 0,
              control |-> NoPid, control_command |-> 0,
              timer |-> FALSE, watchdog |-> FALSE, exec_fd |-> "none", pid_watch |-> FALSE,
              notify_state |-> "unknown", bus_name_good |-> FALSE, forbid_restart |-> FALSE,
              stopped |-> TRUE, tick |-> FALSE, armed |-> FALSE, perform |-> FALSE,
              live |-> {}, zombie |-> {}, foreign |-> {}, empty |-> FALSE,
              job |-> "none", run |-> FALSE, next |-> NoCall, notified |-> <<>>, aborted |-> FALSE]

Dispatch == \/ RunJob \/ \E p \in Pids, f \in Exits : service_sigchld_event(p, f)
            \/ service_notify_cgroup_empty_event \/ service_dispatch_timer

Next == \/ Continue \/ Dispatch \/ Cancel \/ \E t \in Requests : Request(t)
        \/ Fork \/ \E p \in Pids : Exit(p)
        \/ service_dispatch_inotify_io \/ service_dispatch_exec_io \/ service_dispatch_watchdog
        \/ service_notify_message \/ service_bus_name_owner_change \/ service_notify_cgroup_oom_event
        \/ service_reset_failed \/ service_clean \/ Reload

Spec == Init /\ [][Next]_vars

\* A handler runs to its end, and sd-event dispatches a timer in the end, unless
\* it is disabled or set anew, again and again, before it elapses.
FairSpec == /\ Spec /\ []<>(svc.next = NoCall)
            /\ []<>(~ svc.timer) \/ []<><<svc'.tick \/ svc'.armed>>_vars

\* No handler is in progress, or ever will be.
Idle == svc.next = NoCall /\ ~ svc.aborted

-----------------------------------------------------------------------------
(* Properties.                                                             *)

\* The fields hold what the code's types allow.
TypeOK ==
    /\ svc.state \in ServiceState
    /\ svc.result \in ServiceResult /\ svc.reload_result \in ServiceResult
    /\ {svc.main, svc.control} \subseteq Pids \cup {NoPid}
    /\ svc.live \subseteq Pids /\ svc.zombie \subseteq Pids /\ svc.foreign \subseteq svc.live
    /\ svc.main_command \in 0 .. conf.commands["start"] /\ svc.control_command \in Nat
    /\ svc.job \in MergingTypes \cup {"none"}
    /\ svc.exec_fd \in {"none", "cold", "hot", "forgotten"}
    /\ svc.notify_state \in {"unknown", "ready", "reloading", "stopping"}

\* No assertion fails: service_start(), service_stop() and service_reload() are
\* called in the states they expect, a process whose SIGCHLD, a timer whose
\* expiry or a PID file whose change is dispatched belongs to the state, and
\* service_spawn() finds no exec_fd in use.
NoAssertion == ~ svc.aborted

\* A service that is starting, reloading or stopping cannot hang: unless its
\* timeout is infinite the timer that ends the operation is set, through every
\* chain of service_enter_*() calls, failures and daemon-reloads.
TimeoutArmed ==
    Idle => /\ svc.state \in Starting \cup Reloading /\ conf.timeout_start => svc.timer
            /\ svc.state \in Stopping /\ StopTimeout(svc.state) => svc.timer
            /\ svc.state = "cleaning" /\ conf.timeout_clean => svc.timer

\* A service with WatchdogSec= that is up is watched: the watchdog armed in
\* service_enter_start_post() survives reloads and daemon-reloads.  (A service
\* that is up without a main process, RemainAfterExit=, is not watched.)
WatchdogArmed ==
    Idle /\ conf.watchdog /\ ~ conf.remain_after_exit /\ svc.state \in Watched => svc.watchdog

\* What systemctl stop took down, or nobody started, stays down: Restart= only
\* acts on a service that was not stopped since its last start.
StopSticks == svc.stopped => svc.state \notin AutoRestart

\* Starting ends: with TimeoutStartSec= something happens in the end, whatever
\* the processes do.
StartingEnds == conf.timeout_start /\ svc.state \in Starting ~> svc.state \notin Starting

\* ... and so does stopping.  It may start over for a service that asks for its
\* watchdog to bite, for clients that stop it anew after every SIGABRT, and if
\* ExecStop= has commands that cannot be spawned.
StoppingEnds ==
    (/\ svc.state \in Stopping /\ conf.timeout_stop /\ conf.timeout_abort
     /\ conf.says \cap {"WATCHDOG", "trigger"} = {}
     /\ conf.stop_failure_mode # "abort"
     /\ conf.commands["stop"] <= 1) ~> svc.state \notin Stopping

=============================================================================
