------------------------------- MODULE Mount --------------------------------
(***************************************************************************)
(* A mount unit (src/core/mount.c).  Its state follows two sources that    *)
(* are not synchronized: the helper process (mount, umount) it waits for,  *)
(* and the kernel's table of mounts, of which a pollable file says only    *)
(* that it has changed.  Anybody may mount and unmount at any time; what   *)
(* the helper does to the table is not told apart from that.  tick, armed  *)
(* and moved are history: the last step was mount_dispatch_timer(), the    *)
(* last step put off the deadline, and state_change_timestamp has moved    *)
(* since the deadline was set.                                             *)
(***************************************************************************)
EXTENDS UnitJob, FiniteSets

CONSTANTS Configs,           \* unit files
          Requests,          \* the job types clients ask for
          Exits,             \* how helpers end, "success" being a clean exit
          RETRY_UMOUNT_MAX,
          MaxStack           \* bound: mounts on top of each other

ASSUME ConfigsAssumption ==
    \A c \in Configs : {c.timeout, c.timeout_clean, c.send_sigkill, c.fragment, c.clean, c.start_limit} \subseteq BOOLEAN
ASSUME RequestsAssumption == Requests \subseteq MergingTypes
ASSUME ExitsAssumption == Exits \subseteq {"success", "exit-code", "signal", "core-dump"}
ASSUME BoundsAssumption == RETRY_UMOUNT_MAX \in Nat /\ MaxStack \in Nat \ {0}

VARIABLES conf,     \* what the unit file says
          mnt,      \* the Mount object, with its unit's job
          stacked,  \* how many file systems are mounted there
          event     \* the table has changed since it was last read

vars == <<conf, mnt, stacked, event>>

Mounting == {"mounting", "mounting-done"}
RemountSignal == {"remounting-sigterm", "remounting-sigkill"}
Unmounting == {"unmounting", "unmounting-sigterm", "unmounting-sigkill"}
MOUNT_STATE_WITH_PROCESS == Mounting \cup {"remounting", "cleaning"} \cup RemountSignal \cup Unmounting
MountState == {"dead", "mounted", "failed"} \cup MOUNT_STATE_WITH_PROCESS

MountResult == {"success", "resources", "timeout", "exit-code", "signal", "core-dump", "start-limit-hit", "protocol"}

\* state_translation_table
mount_active_state(state) ==
    IF state = "dead" THEN "inactive" ELSE IF state = "failed" THEN "failed"
    ELSE IF state \in Mounting THEN "activating" ELSE IF state = "mounted" THEN "active"
    ELSE IF state \in {"remounting"} \cup RemountSignal THEN "reloading"
    ELSE IF state \in Unmounting THEN "deactivating" ELSE "maintenance"

\* PID 1 handles one event at a time, and none once an assertion has failed.
Step(outcomes) == ~ mnt.aborted /\ mnt' \in outcomes /\ UNCHANGED <<conf, stacked>>
Quietly(outcomes) == Step(outcomes) /\ UNCHANGED event

Called == [mnt EXCEPT !.notified = <<>>, !.tick = FALSE, !.armed = FALSE]

Abort(w) == {[w EXCEPT !.aborted = TRUE]}

-----------------------------------------------------------------------------
(* Entering states.                                                        *)

mount_set_state(w, state) ==
    unit_notify([w EXCEPT !.state = state, !.moved = TRUE,
                          !.timer = @ /\ state \in MOUNT_STATE_WITH_PROCESS,
                          !.control = IF state \in MOUNT_STATE_WITH_PROCESS THEN @ ELSE "none"],
                mount_active_state(state))

\* if (m->result == MOUNT_SUCCESS) m->result = f
Blame(w, f) == [w EXCEPT !.result = IF @ = "success" THEN f ELSE @]

mount_enter_dead(w, f, flush_result) ==
    LET v == IF flush_result THEN [w EXCEPT !.result = f] ELSE Blame(w, f)
    IN mount_set_state(v, IF v.result = "success" THEN "dead" ELSE "failed")

mount_enter_mounted(w, f) == mount_set_state(Blame(w, f), "mounted")

\* Mutant of mount_enter_dead_or_mounted: the state the operation was to lead to.
Mut_enter_dead_or_mounted(w, f, flush_result) ==
    IF w.state \in Unmounting THEN mount_enter_dead(w, f, flush_result) ELSE mount_enter_mounted(w, f)

mount_enter_dead_or_mounted(w, f, flush_result) ==
    IF w.from_proc_self_mountinfo THEN mount_enter_mounted(w, f) ELSE mount_enter_dead(w, f, flush_result)

mount_arm_timer(w, finite) == [w EXCEPT !.timer = finite, !.armed = TRUE, !.moved = FALSE]

\* unit_kill_context() has a helper to wait for except with KillMode=none.
mount_enter_signal(w, state, f) ==
    LET v == Blame(w, f)
    IN IF conf.kill_mode = "none"
       THEN {IF state \in RemountSignal THEN mount_enter_mounted(v, "success")
             ELSE mount_enter_dead_or_mounted(v, "success", FALSE)}
       ELSE {mount_set_state(mount_arm_timer(v, conf.timeout), state),
             mount_enter_dead_or_mounted(v, "resources", FALSE)}

\* mount_spawn(): a helper, watched and with its timeout set.
mount_spawn(w, state) == mount_set_state(mount_arm_timer([w EXCEPT !.control = "running"], conf.timeout), state)

\* Mutant of mount_enter_unmounting: the tries of a stop that goes on are forgotten.
Mut_enter_unmounting(w) ==
    LET v == [w EXCEPT !.n_retry_umount = 0]
    IN {mount_spawn(v, "unmounting"), mount_enter_dead_or_mounted(v, "resources", FALSE)}

mount_enter_unmounting(w) ==
    LET v == IF w.state \in Unmounting THEN w ELSE [w EXCEPT !.n_retry_umount = 0]
    IN {mount_spawn(v, "unmounting"), mount_enter_dead_or_mounted(v, "resources", FALSE)}

\* Without a unit file there are no parameters to mount with.
mount_enter_mounting(w) ==
    {mount_enter_dead_or_mounted(w, "resources", FALSE)}
    \cup (IF conf.fragment THEN {mount_spawn(w, "mounting")} ELSE {})

mount_set_reload_result(w, f) == [w EXCEPT !.reload_result = IF @ = "success" THEN f ELSE @]

mount_enter_remounting(w) ==
    LET v == [w EXCEPT !.reload_result = "success"]
    IN {mount_enter_dead_or_mounted(mount_set_reload_result(v, "resources"), "success", FALSE)}
       \cup (IF conf.fragment THEN {mount_spawn(v, "remounting")} ELSE {})

mount_cycle_clear(w) == [w EXCEPT !.result = "success", !.reload_result = "success"]

-----------------------------------------------------------------------------
(* /proc/self/mountinfo.                                                   *)

\* The mount point is not in the table.
NotMounted(w) ==
    LET v == [w EXCEPT !.from_proc_self_mountinfo = FALSE]
    IN IF v.state = "mounted" THEN mount_enter_dead(mount_cycle_clear(v), "success", TRUE)
       ELSE IF v.state = "mounting-done" THEN mount_set_state(v, "mounting") ELSE v

\* MOUNT_PROC_JUST_MOUNTED
JustMounted(w) == ~ w.from_proc_self_mountinfo \/ w.state = "mounting"

\* It is.  changed: MOUNT_PROC_JUST_CHANGED
IsMounted(w, changed) ==
    LET v == [w EXCEPT !.from_proc_self_mountinfo = TRUE]
    IN IF ~ (JustMounted(w) \/ changed) THEN v
       ELSE IF v.state \in {"dead", "failed"} THEN mount_enter_mounted(mount_cycle_clear(v), "success")
       ELSE mount_set_state(v, IF v.state = "mounting" THEN "mounting-done" ELSE v.state)

\* drain_libmount() finds nothing if there was no event.
mount_process_proc_self_mountinfo(w) ==
    LET v == [w EXCEPT !.invalidated_state = FALSE]
    IN IF ~ event THEN {w}
       ELSE IF stacked = 0 THEN {NotMounted(v)} ELSE {IsMounted(v, changed) : changed \in BOOLEAN}

mount_dispatch_io ==
    event /\ event' = FALSE /\ Step(mount_process_proc_self_mountinfo(Called))

\* Somebody mounts, unmounts or remounts.
Kernel ==
    /\ ~ mnt.aborted
    /\ stacked' \in {n \in 0 .. MaxStack : n \in {stacked - 1, stacked, stacked + 1}}
    /\ event' = TRUE /\ mnt' = Called /\ UNCHANGED conf

\* PID 1 unmounts the credentials of a service itself.
mount_invalidate_state_by_path ==
    /\ ~ mnt.aborted /\ stacked > 0
    /\ stacked' = stacked - 1 /\ event' = TRUE
    /\ mnt' = [Called EXCEPT !.invalidated_state = TRUE] /\ UNCHANGED conf

-----------------------------------------------------------------------------
(* The jobs of the unit.                                                   *)

\* Mutant of mount_start: a mount in progress is not expected.
Mut_mount_start(w) ==
    IF w.state \in Unmounting \cup {"cleaning"} THEN {TryAgain(w)}
    ELSE IF w.state \notin {"dead", "failed"} THEN Abort(w)
    ELSE mount_enter_mounting(mount_cycle_clear(w))

mount_start(w) ==
    IF w.state \in Unmounting \cup {"cleaning"} THEN {TryAgain(w)}
    ELSE IF w.state \in Mounting THEN {w}
    ELSE IF w.state \notin {"dead", "failed"} THEN Abort(w)
    ELSE mount_enter_mounting(mount_cycle_clear(w))

\* The mountinfo monitor may be rate limited, conditions, assertions and
\* dependencies may end the job; mount_can_start() checks the start limit.
unit_start(w) ==
    LET active == mount_active_state(w.state)
    IN {TryAgain(w)}
       \cup (IF IsActiveOrReloading(active) THEN {job_finish(w)}
             ELSE IF active = "maintenance" THEN {}
             ELSE {job_finish(w)}
                  \cup (IF conf.start_limit THEN {mount_enter_dead(w, "start-limit-hit", FALSE)} ELSE {})
                  \cup mount_start(w))

mount_stop(w) ==
    IF w.state \in Mounting \cup {"remounting"} THEN mount_enter_signal(w, "unmounting-sigterm", "success")
    ELSE IF w.state = "remounting-sigterm" THEN {mount_set_state(w, "unmounting-sigterm")}
    ELSE IF w.state = "remounting-sigkill" THEN {mount_set_state(w, "unmounting-sigkill")}
    ELSE IF w.state = "mounted" THEN mount_enter_unmounting(w)
    ELSE IF w.state = "cleaning" THEN mount_enter_signal(w, "unmounting-sigkill", "success")
    ELSE {w}   \* on it already, or unmounted by somebody else

unit_stop(w) ==
    IF IsInactiveOrFailed(mount_active_state(w.state)) THEN {job_finish(w)} ELSE mount_stop(w)

mount_reload(w) == IF w.state = "mounted" THEN mount_enter_remounting(w) ELSE Abort(w)

unit_reload(w) ==
    LET active == mount_active_state(w.state)
    IN IF active = "reloading" THEN {TryAgain(w)}
       ELSE IF active # "active" THEN {job_finish(w)} ELSE mount_reload(w)

Request(t) == Quietly({job_install(Called, mount_active_state(mnt.state), t)})

Cancel == mnt.job # "none" /\ Quietly({[Called EXCEPT !.job = "none", !.run = FALSE]})

\* A stop of a mount whose state may be outdated first looks at the table.
RunJob ==
    /\ mnt.job # "none" /\ ~ mnt.run
    /\ LET w == [Called EXCEPT !.run = TRUE]
           read == w.job \in {"stop", "restart"} /\ w.invalidated_state
                   /\ ~ IsInactiveOrFailed(mount_active_state(w.state))
       IN /\ event' = (event /\ ~ read)
          /\ Step(IF w.job = "start" THEN unit_start(w)
                  ELSE IF w.job = "verify" THEN verify_active(w, mount_active_state(w.state))
                  ELSE IF w.job = "reload" THEN unit_reload(w)
                  ELSE IF read THEN UNION {mount_stop(x) : x \in mount_process_proc_self_mountinfo(w)}
                  ELSE unit_stop(w))

-----------------------------------------------------------------------------
(* The helper, and the timeout.                                            *)

Exit == mnt.control = "running" /\ Quietly({[Called EXCEPT !.control = "exited"]})

\* Mutant of TriesLeft: one try too many.
Mut_TriesLeft(w) == w.n_retry_umount <= RETRY_UMOUNT_MAX

\* umount is run again for the next file system of the stack.
TriesLeft(w) == w.n_retry_umount < RETRY_UMOUNT_MAX

\* The helper has ended with f.  The table has been read.
HelperExited(u, f) ==
    LET v == [u EXCEPT !.control = "none"]
        w == IF v.state \in {"remounting"} \cup RemountSignal THEN mount_set_reload_result(v, f)
             ELSE IF v.state \in {"mounting", "unmounting"} THEN v ELSE Blame(v, f)
        mounted == w.from_proc_self_mountinfo
    IN IF w.state = "mounting" THEN {mount_enter_dead(w, IF f = "success" THEN "protocol" ELSE f, FALSE)}
       ELSE IF w.state = "mounting-done" THEN {mount_enter_mounted(w, f)}
       ELSE IF w.state \in {"remounting"} \cup RemountSignal THEN {mount_enter_dead_or_mounted(w, "success", FALSE)}
       ELSE IF w.state = "unmounting" /\ f = "success" /\ mounted
       THEN IF TriesLeft(w)
            THEN mount_enter_unmounting([w EXCEPT !.n_retry_umount = @ + 1])
            ELSE {mount_enter_mounted(w, "protocol")}
       ELSE IF w.state = "unmounting" /\ f = "exit-code" /\ ~ mounted THEN {mount_enter_dead(w, "success", TRUE)}
       ELSE IF w.state = "unmounting" THEN {mount_enter_dead_or_mounted(w, f, TRUE)}
       ELSE IF w.state \in Unmounting THEN {mount_enter_dead_or_mounted(w, f, FALSE)}
       ELSE IF w.state = "cleaning" THEN {mount_enter_dead(w, "success", FALSE)}
       ELSE Abort(w)

\* Mutant of mount_sigchld_event: the table is not looked at.
Mut_sigchld_event(f) == mnt.control = "exited" /\ Quietly(HelperExited(Called, f))

mount_sigchld_event(f) ==
    /\ mnt.control = "exited" /\ event' = FALSE
    /\ Step(UNION {HelperExited(w, f) : w \in mount_process_proc_self_mountinfo(Called)})

TimedOut(w) ==
    LET reload == mount_set_reload_result(w, "timeout")
    IN IF w.state \in Mounting \cup {"unmounting"} THEN mount_enter_signal(w, "unmounting-sigterm", "timeout")
       ELSE IF w.state = "remounting" THEN mount_enter_signal(reload, "remounting-sigterm", "success")
       ELSE IF w.state = "remounting-sigterm" /\ conf.send_sigkill
       THEN mount_enter_signal(reload, "remounting-sigkill", "success")
       ELSE IF w.state \in RemountSignal THEN {mount_enter_dead_or_mounted(reload, "success", FALSE)}
       ELSE IF w.state = "unmounting-sigterm" /\ conf.send_sigkill
       THEN mount_enter_signal(w, "unmounting-sigkill", "timeout")
       ELSE IF w.state \in Unmounting THEN {mount_enter_dead_or_mounted(w, "timeout", FALSE)}
       ELSE IF w.state = "cleaning" THEN mount_enter_signal(w, "unmounting-sigkill", "success")
       ELSE Abort(w)

mount_dispatch_timer == mnt.timer /\ Quietly(TimedOut([Called EXCEPT !.timer = FALSE, !.tick = TRUE]))

-----------------------------------------------------------------------------
(* Other events.                                                           *)

mount_reset_failed ==
    /\ {mnt.result, mnt.reload_result} # {"success"}
    /\ LET w == IF mnt.state = "failed" THEN mount_set_state(Called, "dead") ELSE Called
       IN Quietly({mount_cycle_clear(w)})

mount_clean ==
    /\ conf.clean /\ mnt.state = "dead" /\ mnt.job = "none"
    /\ Quietly({mount_set_state(mount_arm_timer([Called EXCEPT !.control = "running"], conf.timeout_clean), "cleaning")})

\* The state read back, adjusted to the table.
mount_catchup(w) ==
    LET helper == w.control # "none"
    IN IF w.from_proc_self_mountinfo
       THEN IF w.state \in {"dead", "failed"}
            THEN IF helper THEN Abort(w) ELSE {mount_enter_mounted(mount_cycle_clear(w), "success")}
            ELSE IF w.state = "mounting" THEN IF helper THEN {mount_set_state(w, "mounting-done")} ELSE Abort(w)
            ELSE {w}
       ELSE IF w.state = "mounting-done" THEN IF helper THEN {mount_set_state(w, "mounting")} ELSE Abort(w)
       ELSE IF w.state = "mounted" THEN IF helper THEN Abort(w) ELSE {mount_enter_dead(w, "success", FALSE)}
       ELSE {w}

\* Mutant of Reload: helpers lose their timeout.
Mut_Reload ==
    Quietly(mount_catchup([Called EXCEPT !.from_proc_self_mountinfo = stacked > 0, !.timer = FALSE]))

\* daemon-reload: mount_enumerate() reads the table, mount_coldplug() restores the
\* state, with a deadline counted from state_change_timestamp, and mount_catchup()
\* has the last word.
Reload ==
    Quietly(mount_catchup([Called EXCEPT !.from_proc_self_mountinfo = stacked > 0,
                                         !.invalidated_state = FALSE,
                                         !.timer = conf.timeout /\ mnt.control # "none",
                                         !.armed = mnt.moved, !.moved = FALSE]))

-----------------------------------------------------------------------------
Init ==
    /\ conf \in Configs /\ stacked = 0 /\ event = FALSE
    /\ mnt = [state |-> "dead", result |-> "success", reload_result |-> "success", n_retry_umount |-> 0,
              from_proc_self_mountinfo |-> FALSE, invalidated_state |-> FALSE, control |-> "none", timer |-> FALSE,
              job |-> "none", run |-> FALSE, notified |-> <<>>, tick |-> FALSE, armed |-> FALSE, moved |-> FALSE,
              aborted |-> FALSE]

Next == \/ Kernel \/ mount_invalidate_state_by_path \/ mount_dispatch_io
        \/ \E t \in Requests : Request(t)
        \/ Cancel \/ RunJob \/ Exit \/ \E f \in Exits : mount_sigchld_event(f)
        \/ mount_dispatch_timer \/ mount_reset_failed \/ mount_clean \/ Reload

Spec == Init /\ [][Next]_vars

\* sd-event dispatches a timer in the end, unless it is disabled or put off, again
\* and again, before it elapses.
FairSpec == Spec /\ ([]<>(~ mnt.timer) \/ []<><<mnt'.tick \/ mnt'.armed>>_vars)

-----------------------------------------------------------------------------
(* Properties.                                                             *)

\* The fields hold what the code's types allow, and umount is tried a bounded
\* number of times.
TypeOK ==
    /\ mnt.state \in MountState /\ {mnt.result, mnt.reload_result} \subseteq MountResult
    /\ mnt.n_retry_umount \in 0 .. RETRY_UMOUNT_MAX
    /\ mnt.control \in {"none", "running", "exited"}
    /\ mnt.job \in MergingTypes \cup {"none"}

\* No assertion fails: mount_start() and mount_reload() are called in the states
\* they expect, a helper whose SIGCHLD or timeout is dispatched belongs to the
\* state, and mount_catchup() finds helpers in the states that wait for one.
NoAssertion == ~ mnt.aborted

\* Cleaning, the start limit and KillMode=none put the unit in a state without
\* looking at the table; these three are left out.
Mirroring == ~ conf.clean /\ ~ conf.start_limit /\ conf.kill_mode # "none"

\* "Ultimately we just mirror the kernel's internal state": once the changes of
\* the table have been read, the unit is mounted only if something is mounted
\* there, and dead or failed only if nothing is, whichever of the helper's exit,
\* its timeout, jobs, others who mount or unmount and daemon-reloads came first.
MirrorsKernel ==
    ~ event /\ Mirroring
        => /\ mnt.from_proc_self_mountinfo = (stacked > 0)
           /\ mnt.state = "mounted" => stacked > 0
           /\ mnt.state \in {"dead", "failed"} => stacked = 0

\* "We always see /proc/self/mountinfo changes before our mount/umount exits":
\* what the exit of a mount or umount leads to agrees with what is mounted by
\* then, so that no job fails over an event not read yet.
ExitSeesTable ==
    [][\A f \in Exits : mount_sigchld_event(f) /\ Mirroring
           => /\ mnt'.state = "mounted" => stacked > 0
              /\ mnt'.state \in {"dead", "failed"} => stacked = 0]_vars

\* A mount unit waits for its helper exactly in the states that have one, and not
\* forever: with TimeoutSec= the timer is set, through retries, signals that do
\* not help and daemon-reloads.
TimeoutArmed ==
    ~ mnt.aborted => /\ mnt.state \in MOUNT_STATE_WITH_PROCESS <=> mnt.control # "none"
                     /\ conf.timeout /\ mnt.state \in MOUNT_STATE_WITH_PROCESS \ {"cleaning"} => mnt.timer

\* Every operation ends, although umount is repeated as long as something is
\* mounted, and although mount entries may come and go while mount runs.  Only
\* daemon-reloads that again and again come after the unit has noticed a change
\* of the table, whose time mount_coldplug() then counts from, keep it waiting.
OperationEnds ==
    \/ []<><<Reload /\ mnt.moved>>_vars
    \/ conf.timeout /\ mnt.state \in MOUNT_STATE_WITH_PROCESS \ {"cleaning"}
           ~> mnt.state \in {"dead", "failed", "mounted"}

=============================================================================
