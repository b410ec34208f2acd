---------------------------- MODULE Service_proof ----------------------------
(***************************************************************************)
(* The service manager for any unit file, any number of processes and any  *)
(* interleaving of jobs, signals, timers, messages and daemon-reloads: a   *)
(* service that was stopped stays down, and one that is starting,          *)
(* reloading or stopping has its timeout armed.                            *)
(*                                                                         *)
(* Fine(w) is inductive: a service that was stopped has forbid_restart set *)
(* as long as service_enter_dead() may be called, and a service that waits *)
(* has the timer of its state.  Both take an assumption on the unit file,  *)
(* KeepsDown and OneTimeout.  The service_enter_*() functions are shown to *)
(* keep it first, then every handler.                                      *)
(***************************************************************************)
EXTENDS Service, ServiceObject, TLAPS

\* The states of a service that is down, and those without a control process.
Down == {"dead", "failed", "cleaning"}
NoControl == {"dead", "failed", "running", "exited", "reload-signal", "reload-notify"}

\* What it takes for a stopped service not to come up: "systemctl clean" has no
\* timeout, and only the main process may speak for the service.
KeepsDown == ~ conf.timeout_clean /\ conf.notify_access \in {"none", "main"}
Kept(w) == KeepsDown /\ w.stopped => w.state \notin AutoRestart
Forbidden(w) == KeepsDown /\ w.stopped => w.forbid_restart

\* What it takes for a service to have the timer of its state: a service whose
\* next ExecStart= may be run while it is stopping has a TimeoutStartSec=, too, and
\* one whose next ExecStop= may be run after SIGABRT has a TimeoutStopSec=.
OneTimeout ==
    /\ conf.type = "oneshot" /\ conf.commands["start"] > 1 /\ conf.timeout_stop => conf.timeout_start
    /\ conf.timeout_abort => conf.timeout_stop

\* The states that end with a timeout.
NeedsTimer(s) ==
    \/ s \in Starting \cup Reloading /\ conf.timeout_start
    \/ s \in Stopping /\ StopTimeout(s)
    \/ s = "cleaning" /\ conf.timeout_clean

\* The object between two calls: a stop is on record.
Busy(w) == Object(w) /\ w.next = NoCall /\ Kept(w) /\ Forbidden(w)

\* The object while PID 1 waits for an event.
Settled(w) ==
    /\ w.state \in Down => /\ w.main = NoPid /\ (KeepsDown => ~ w.watchdog)
                           /\ w.timer => w.state = "cleaning" /\ conf.timeout_clean
    /\ w.state \in NoControl => w.control = NoPid
    /\ w.state = "cleaning" => w.control_command = 0
    /\ OneTimeout /\ NeedsTimer(w.state) => w.timer

\* The inductive invariant.
Fine(w) ==
    /\ Object(w) /\ Kept(w)
    /\ w.next # NoCall \/ w.state \notin Down => Forbidden(w)
    /\ w.next[1] = "signal" => w.next[3] \in Signals
    /\ w.next = NoCall /\ ~ w.aborted => Settled(w)

\* x is w but for other fields.
Like(x, w) ==
    /\ x.state = w.state /\ x.main = w.main /\ x.main_command = w.main_command
    /\ x.control = w.control /\ x.control_command = w.control_command
    /\ x.timer = w.timer /\ x.watchdog = w.watchdog
    /\ x.forbid_restart = w.forbid_restart /\ x.stopped = w.stopped /\ x.next = w.next /\ x.aborted = w.aborted

\* Fields the invariant does not mention do not matter to a function in progress.
LEMMA LikeBusy == ASSUME NEW w, NEW x, Busy(w), Object(x), Like(x, w) PROVE Busy(x)
  BY Zenon DEF Busy, Like, Kept, Forbidden

\* Recording a result changes no field the invariant mentions.
LEMMA BlameLike == ASSUME NEW w, NEW f, Object(w) PROVE Object(Blame(w, f)) /\ Like(Blame(w, f), w)
  BY ZenonT(30) DEF Blame, Object, Fields, Like

\* Neither does telling the unit's job about a new state.
LEMMA NotifyLike ==
  ASSUME NEW w, NEW ns, Object(w)
  PROVE  Object(unit_notify(w, ns)) /\ Like(unit_notify(w, ns), w)
  BY ZenonT(30) DEF unit_notify, job_finish, Object, Fields, Like

\* What service_set_state() leaves of the timer, the watchdog and the processes.
LEMMA SetState ==
  ASSUME NEW w, Object(w), NEW s
  PROVE  LET x == service_set_state(w, s)
         IN /\ Object(x)
            /\ x.state = s
            /\ x.forbid_restart = w.forbid_restart /\ x.stopped = w.stopped
            /\ x.next = w.next /\ x.aborted = w.aborted
            /\ s \notin WithMain => x.main = NoPid
            /\ s \notin WithControl \/ w.control = NoPid => x.control = NoPid
            /\ s \in WithControl => x.control_command = w.control_command
            /\ x.timer => w.timer /\ s \in Timed
            /\ w.timer /\ s \in Timed => x.timer
            /\ x.watchdog => s \in Watched
<1> DEFINE v == [w EXCEPT !.state = s,
                          !.pid_watch = FALSE,
                          !.timer = @ /\ s \in Timed,
                          !.main = IF s \in WithMain THEN @ ELSE NoPid,
                          !.main_command = IF s \in WithMain THEN @ ELSE 0,
                          !.control = IF s \in WithControl THEN @ ELSE NoPid,
                          !.control_command = IF s \in WithControl THEN @ ELSE 0,
                          !.exec_fd = IF s = "start" THEN @ ELSE "none",
                          !.watchdog = @ /\ s \in Watched,
                          !.perform = FALSE]
<1>1. v = [k \in Fields |-> v[k]]
  BY ZenonT(30) DEF Object
<1>2. /\ v.state = s
      /\ v.main = IF s \in WithMain THEN w.main ELSE NoPid
      /\ v.main_command = IF s \in WithMain THEN w.main_command ELSE 0
      /\ v.control = IF s \in WithControl THEN w.control ELSE NoPid
      /\ v.control_command = IF s \in WithControl THEN w.control_command ELSE 0
      /\ v.timer <=> w.timer /\ s \in Timed
      /\ v.watchdog <=> w.watchdog /\ s \in Watched
  BY Zenon DEF Object, Fields
<1>3. /\ v.forbid_restart = w.forbid_restart /\ v.stopped = w.stopped
      /\ v.next = w.next /\ v.aborted = w.aborted
      /\ v.live = w.live /\ v.zombie = w.zombie
  BY Zenon DEF Object, Fields
<1> HIDE DEF v
<1>4. Object(v)
  BY <1>1, <1>2, <1>3 DEF Object
<1>5. service_set_state(w, s) = unit_notify(v, service_active_state(s))
  BY Zenon DEF service_set_state, v
<1> QED BY <1>2, <1>3, <1>4, <1>5, NotifyLike DEF Like

\* service_set_state() puts the service in a state to wait in, provided the timer
\* the state needs was armed before.
LEMMA Waits ==
  ASSUME NEW w, Busy(w), NEW s \in ServiceState,
         w.aborted \/ (OneTimeout /\ NeedsTimer(s) => w.timer),
         w.aborted \/ (s = "cleaning" => w.control_command = 0 /\ (w.timer => conf.timeout_clean)),
         s \in {"reload-signal", "reload-notify"} => w.control = NoPid,
         KeepsDown /\ w.stopped => s \notin AutoRestart
  PROVE  Fine(service_set_state(w, s))
<1> DEFINE x == service_set_state(w, s)
<1>1. /\ Object(x) /\ x.state = s /\ x.next = w.next /\ x.aborted = w.aborted
      /\ x.forbid_restart = w.forbid_restart /\ x.stopped = w.stopped
  BY SetState, ZenonT(30) DEF Busy
<1>2. /\ s \notin WithMain => x.main = NoPid
      /\ s \notin WithControl \/ w.control = NoPid => x.control = NoPid
      /\ s \in WithControl => x.control_command = w.control_command
      /\ x.timer => w.timer /\ s \in Timed
      /\ w.timer /\ s \in Timed => x.timer
      /\ x.watchdog => s \in Watched
  BY SetState, ZenonT(30) DEF Busy
<1> HIDE DEF x
<1>4. Kept(x) /\ Forbidden(x)
  BY <1>1, Zenon DEF Busy, Kept, Forbidden
<1>5. s \in Down => s \notin WithMain /\ s \notin Watched /\ (s \in Timed => s = "cleaning")
  BY Zenon DEF Down, WithMain, Watched, Timed, Starting, Reloading, Stopping, StopSignal, FinalSignal
<1>6. s \in NoControl /\ s \in WithControl => s \in {"reload-signal", "reload-notify"}
  BY Zenon DEF NoControl, WithControl, Starting, Reloading, Stopping, StopSignal, FinalSignal
<1>7. NeedsTimer(s) => s \in Timed
  BY Zenon DEF NeedsTimer, Timed
<1>8. ASSUME ~ x.aborted PROVE Settled(x)
  <2>1. x.state \in Down => x.main = NoPid /\ ~ x.watchdog
    BY <1>1, <1>2, <1>5, Zenon
  <2>2. x.state \in Down /\ x.timer => x.state = "cleaning" /\ conf.timeout_clean
    BY <1>1, <1>2, <1>5, <1>8, Zenon
  <2>3. x.state \in NoControl => x.control = NoPid
    BY <1>1, <1>2, <1>6, Zenon
  <2>4. OneTimeout /\ NeedsTimer(x.state) => x.timer
    BY <1>1, <1>2, <1>7, <1>8, Zenon
  <2>5. x.state = "cleaning" => x.control_command = 0
    BY <1>1, <1>2, <1>8, Zenon DEF WithControl
  <2> QED BY <2>1, <2>2, <2>3, <2>4, <2>5, Zenon DEF Settled
<1>9. x.next[1] # "signal"
  BY <1>1 DEF Busy, NoCall
<1> QED BY <1>1, <1>4, <1>8, <1>9, Zenon DEF Fine, x

\* A function may call another one last.
LEMMA ThenFine ==
  ASSUME NEW w, Busy(w), NEW op, op # "none", NEW f, NEW to, op = "signal" => to \in Signals,
         NEW x \in Then(w, op, f, to)
  PROVE  Fine(x)
<1>1. x = [w EXCEPT !.next = <<op, f, to>>]
  BY Zenon DEF Then
<1>2. x = [k \in Fields |-> x[k]]
  BY <1>1, Zenon DEF Busy, Object
<1>3. /\ x.live = w.live /\ x.zombie = w.zombie /\ x.main_command = w.main_command
      /\ x.state = w.state /\ x.stopped = w.stopped /\ x.forbid_restart = w.forbid_restart
  BY <1>1, Zenon DEF Busy, Object, Fields
<1>4. x.next = <<op, f, to>>
  BY <1>1, Zenon DEF Busy, Object, Fields
<1>5. x.next # NoCall /\ (x.next[1] = "signal" => x.next[3] \in Signals)
  BY <1>4 DEF NoCall
<1> QED BY <1>2, <1>3, <1>5, Zenon DEF Busy, Object, Fine, Kept, Forbidden

\* ... service_enter_<op>()
LEMMA ThenEnterFine ==
  ASSUME NEW w, Busy(w), NEW op, op \notin {"none", "signal"}, NEW f
  PROVE  \A x \in ThenEnter(w, op, f) : Fine(x)
  BY ThenFine, Zenon DEF ThenEnter

\* ... service_enter_signal(), if it is a signal state
LEMMA ThenSignalFine ==
  ASSUME NEW w, Busy(w), NEW state \in Signals, NEW f
  PROVE  \A x \in ThenSignal(w, state, f) : Fine(x)
  BY ThenFine, Zenon DEF ThenSignal

\* ... service_enter_dead(): a manual stop is on record
LEMMA ThenDeadFine ==
  ASSUME NEW w, Busy(w), NEW f
  PROVE  \A x \in ThenDead(w, f) : Fine(x)
  BY ThenFine, Zenon DEF ThenDead

\* A failing assertion leaves the object alone.
LEMMA AbortBusy ==
  ASSUME NEW w, Busy(w), NEW x \in Abort(w)
  PROVE  Busy(x) /\ x.aborted /\ x.state = w.state /\ x.control = w.control
<1>1. x = [w EXCEPT !.aborted = TRUE]
  BY Zenon DEF Abort
<1>2. Object(x)
  BY <1>1, ZenonT(30) DEF Busy, Object, Fields
<1>3. /\ x.state = w.state /\ x.stopped = w.stopped /\ x.forbid_restart = w.forbid_restart
      /\ x.next = w.next /\ x.aborted /\ x.control = w.control
  BY <1>1, Zenon DEF Busy, Object, Fields
<1> QED BY <1>2, <1>3, Zenon DEF Busy, Kept, Forbidden

\* service_arm_timer() sets the timer and nothing else.
LEMMA ArmTimer ==
  ASSUME NEW w, Busy(w), NEW finite
  PROVE  LET x == service_arm_timer(w, finite)
         IN Busy(x) /\ x.timer = finite /\ x.control = w.control /\ x.stopped = w.stopped /\ x.state = w.state
<1> DEFINE x == service_arm_timer(w, finite)
<1>1. Object(x)
  BY ZenonT(30) DEF service_arm_timer, Busy, Object, Fields
<1>2. /\ x.state = w.state /\ x.stopped = w.stopped /\ x.forbid_restart = w.forbid_restart
      /\ x.next = w.next /\ x.control = w.control /\ x.timer = finite
  BY Zenon DEF service_arm_timer, Busy, Object, Fields
<1> QED BY <1>1, <1>2, Zenon DEF Busy, Kept, Forbidden

\* service_unwatch_control_pid() forgets the control process and nothing else.
LEMMA UnwatchControl ==
  ASSUME NEW w, Busy(w)
  PROVE  LET x == service_unwatch_control_pid(w)
         IN Busy(x) /\ x.control = NoPid /\ x.state = w.state /\ x.stopped = w.stopped
<1> DEFINE x == service_unwatch_control_pid(w)
<1>1. Object(x)
  BY ZenonT(30) DEF service_unwatch_control_pid, Busy, Object, Fields
<1>2. /\ x.state = w.state /\ x.stopped = w.stopped /\ x.forbid_restart = w.forbid_restart
      /\ x.next = w.next /\ x.control = NoPid
  BY Zenon DEF service_unwatch_control_pid, Busy, Object, Fields
<1> QED BY <1>1, <1>2, Zenon DEF Busy, Kept, Forbidden

\* The kernel hands out process IDs.
LEMMA FreshPids == ASSUME NEW w PROVE Fresh(w) \subseteq Pids
  BY Zenon DEF Fresh

\* service_spawn() arms the timer it is given.
LEMMA SpawnBusy ==
  ASSUME NEW w, Busy(w), NEW p \in Pids, NEW finite
  PROVE  LET x == Spawn(w, p, finite)
         IN Busy(x) /\ x.timer = finite /\ x.state = w.state /\ x.stopped = w.stopped
<1> DEFINE x == Spawn(w, p, finite)
<1>1. Object(x)
  BY ZenonT(30) DEF Spawn, Busy, Object, Fields
<1>2. /\ x.state = w.state /\ x.stopped = w.stopped /\ x.forbid_restart = w.forbid_restart
      /\ x.next = w.next /\ x.timer = finite
  BY Zenon DEF Spawn, Busy, Object, Fields
<1> QED BY <1>1, <1>2, Zenon DEF Busy, Kept, Forbidden

\* service_spawn() that fails does no harm.
LEMMA SpawnFailsBusy ==
  ASSUME NEW w, Busy(w), NEW finite, NEW x \in SpawnFails(w, finite)
  PROVE  Busy(x) /\ x.state = w.state /\ x.stopped = w.stopped /\ x.control = w.control
<1>1. CASE x = w
  BY <1>1, Zenon
<1>2. CASE x = service_arm_timer(w, finite)
  BY <1>2, ArmTimer, Zenon
<1>3. ASSUME NEW p \in Fresh(w), x = Spawn(w, p, finite)
      PROVE  Busy(x) /\ x.state = w.state /\ x.stopped = w.stopped /\ x.control = w.control
  <2>1. x.control = w.control
    BY <1>3, Zenon DEF Spawn, Busy, Object, Fields
  <2>2. p \in Pids
    BY FreshPids, Zenon
  <2>3. Busy(x) /\ x.state = w.state /\ x.stopped = w.stopped
    BY <1>3, <2>2, SpawnBusy, ZenonT(30)
  <2> QED BY <2>1, <2>3, Zenon
<1> QED BY <1>1, <1>2, <1>3, Zenon DEF SpawnFails

\* Neither does the main process that is left behind.
LEMMA SpawnMainFailsBusy == ASSUME NEW w, Busy(w), NEW finite, NEW x \in SpawnMainFails(w, finite) PROVE Busy(x)
<1>1. CASE x = w \/ x = service_arm_timer(w, finite)
  BY <1>1, ArmTimer, Zenon
<1>2. ASSUME NEW p \in Fresh(w), x = [Spawn(w, p, finite) EXCEPT !.exec_fd = MainPipe] PROVE Busy(x)
  <2> DEFINE v == Spawn(w, p, finite)
  <2>1. Busy(v)
    BY SpawnBusy, FreshPids, Zenon
  <2>2. x = [v EXCEPT !.exec_fd = MainPipe]
    BY <1>2, Zenon
  <2> HIDE DEF v
  <2>3. Object(x) /\ Like(x, v)
    BY <2>1, <2>2, ZenonT(30) DEF Busy, Object, Fields, Like
  <2> QED BY <2>1, <2>3, LikeBusy, Zenon
<1> QED BY <1>1, <1>2, Zenon DEF SpawnMainFails

\* A control process comes with the timer of its state.
LEMMA SpawnControlBusy ==
  ASSUME NEW w, Busy(w), NEW n, NEW finite, NEW x \in SpawnControl(w, n, finite)
  PROVE  Busy(x) /\ (x.aborted \/ x.timer = finite) /\ x.state = w.state /\ x.stopped = w.stopped
<1>1. CASE x \in Abort(w)
  <2>1. x.stopped = w.stopped
    BY <1>1, Zenon DEF Abort, Busy, Object, Fields
  <2> QED BY <1>1, <2>1, AbortBusy, Zenon
<1>2. ASSUME NEW p \in Fresh(w), x = [Spawn(w, p, finite) EXCEPT !.control = p, !.control_command = n]
      PROVE  Busy(x) /\ (x.aborted \/ x.timer = finite) /\ x.state = w.state /\ x.stopped = w.stopped
  <2> DEFINE v == Spawn(w, p, finite)
  <2>1. Busy(v) /\ v.timer = finite /\ v.state = w.state /\ v.stopped = w.stopped
    BY SpawnBusy, FreshPids
  <2> HIDE DEF v
  <2>2. x = [v EXCEPT !.control = p, !.control_command = n]
    BY <1>2, Zenon DEF v
  <2>3. Object(x)
    BY <2>1, <2>2, ZenonT(30) DEF Busy, Object, Fields
  <2>4. /\ x.state = v.state /\ x.stopped = v.stopped /\ x.forbid_restart = v.forbid_restart
        /\ x.next = v.next /\ x.timer = v.timer
    BY <2>1, <2>2, Zenon DEF Busy, Object, Fields
  <2> QED BY <2>1, <2>3, <2>4, Zenon DEF Busy, Kept, Forbidden
<1> QED BY <1>1, <1>2, Zenon DEF SpawnControl

\* service_enter_dead() may clear forbid_restart: the service is down, or is
\* about to be restarted and was not stopped.
LEMMA EndFine ==
  ASSUME NEW w, Object(w), w.next = NoCall, NEW s \in {"dead", "failed", "auto-restart"},
         KeepsDown /\ w.stopped => s # "auto-restart"
  PROVE  Fine([service_set_state(w, s) EXCEPT !.forbid_restart = FALSE])
<1> DEFINE v == service_set_state(w, s)
           x == [v EXCEPT !.forbid_restart = FALSE]
<1>1. Object(v) /\ v.state = s /\ v.stopped = w.stopped /\ v.next = NoCall
  BY SetState, ZenonT(30)
<1>2. s # "auto-restart" => v.main = NoPid /\ v.control = NoPid /\ ~ v.watchdog /\ ~ v.timer
  BY SetState DEF WithMain, WithControl, Watched, Timed, Starting, Reloading, Stopping, StopSignal, FinalSignal
<1> HIDE DEF v
<1>4. Object(x)
  BY <1>1, ZenonT(30) DEF Object, Fields
<1>5. x.state = s /\ x.stopped = w.stopped /\ x.next = NoCall
  BY <1>1, Zenon DEF Object, Fields
<1>6. x.main = v.main /\ x.control = v.control /\ x.watchdog = v.watchdog /\ x.timer = v.timer /\ x.forbid_restart = FALSE
  BY <1>1, Zenon DEF Object, Fields
<1> HIDE DEF x
<1>7. Kept(x)
  BY <1>5, Zenon DEF Kept, AutoRestart
<1>8. x.state \notin Down => Forbidden(x)
  BY <1>5, Zenon DEF Forbidden, Down
<1>9. Settled(x)
  BY <1>2, <1>5, <1>6, Zenon
  DEF Settled, Down, NoControl, NeedsTimer, Starting, Reloading, Stopping, StopSignal, FinalSignal
<1>10. x.next[1] # "signal"
  BY <1>5 DEF NoCall
<1> QED BY <1>4, <1>5, <1>7, <1>8, <1>9, <1>10, Zenon DEF Fine, x, v

\* service_enter_dead(): Restart= is not considered while forbid_restart is set.
LEMMA EnterDead ==
  ASSUME NEW w, Object(w), w.next = NoCall, NEW f, NEW allow_restart,
         allow_restart => Forbidden(w),
         NEW x \in service_enter_dead(w, f, allow_restart)
  PROVE  Fine(x)
<1> DEFINE v == Blame(w, f)
           clean(y) == y.result \in {"success", "skip-condition"}
           end(y) == [service_set_state(y, IF clean(y) THEN "dead" ELSE "failed") EXCEPT !.forbid_restart = FALSE]
           down == IF conf.restart_mode = "direct" THEN v
                   ELSE service_set_state(v, IF clean(v) THEN "dead-before-auto-restart" ELSE "failed-before-auto-restart")
           again == [service_set_state(service_arm_timer(down, TRUE), "auto-restart") EXCEPT !.forbid_restart = FALSE]
<1>1. \/ x = end(v) \/ x = end(Blame(down, "resources"))
      \/ x = again /\ allow_restart /\ service_shall_restart(v)
  BY Zenon DEF service_enter_dead
<1>2. Object(v) /\ v.next = NoCall /\ v.stopped = w.stopped /\ v.forbid_restart = w.forbid_restart
  BY BlameLike, Zenon DEF Like
<1>3. Object(down) /\ down.next = NoCall /\ down.stopped = w.stopped
  BY <1>2, SetState, ZenonT(30)
<1>4. ASSUME NEW y, Object(y), y.next = NoCall PROVE Fine(end(y))
  BY <1>4, EndFine, Zenon
<1>5. Object(Blame(down, "resources")) /\ Blame(down, "resources").next = NoCall
  BY <1>3, BlameLike DEF Like
<1>6. CASE x = again /\ allow_restart /\ service_shall_restart(v)
  <2> DEFINE y == service_arm_timer(down, TRUE)
  <2> HIDE DEF down
  <2>1. Object(y) /\ y.next = NoCall /\ y.stopped = w.stopped
    BY <1>3, ZenonT(30) DEF service_arm_timer, Object, Fields
  <2>2. ~ (KeepsDown /\ w.stopped)
    BY <1>2, <1>6, Zenon DEF service_shall_restart, Forbidden
  <2> HIDE DEF y
  <2> QED BY <1>6, <2>1, <2>2, EndFine, Zenon DEF y
<1> HIDE DEF v, down, end, again
<1> QED BY <1>1, <1>2, <1>4, <1>5, <1>6, Zenon

\* Recording a result keeps a function in progress fine.
LEMMA BlameBusy ==
  ASSUME NEW w, NEW f, Busy(w)
  PROVE  Busy(Blame(w, f)) /\ Blame(w, f).state = w.state /\ Blame(w, f).stopped = w.stopped
  BY BlameLike, LikeBusy DEF Busy, Like

\* So does a state on the way to another one.
LEMMA SetStateBusy ==
  ASSUME NEW w, Busy(w), NEW s, s \notin AutoRestart
  PROVE  Busy(service_set_state(w, s)) /\ service_set_state(w, s).state = s
  BY SetState DEF Busy, Kept, Forbidden

\* What service_enter_signal() does if there was nothing to kill.
LEMMA EscalateFine ==
  ASSUME NEW w, Busy(w), NEW state, NEW f, NEW x \in Escalate(w, state, f)
  PROVE  Fine(x)
<1>1. "final-sigkill" \in Signals /\ "stop-sigkill" \in Signals
  BY Zenon DEF Signals, StopSignal, FinalSignal
<1> QED BY <1>1, ThenDeadFine, ThenSignalFine, ThenEnterFine, Zenon DEF Escalate

\* A stopping state is entered with TimeoutStopSec= or TimeoutAbortSec= armed.
LEMMA StoppingWaits ==
  ASSUME NEW w, Busy(w), NEW s \in Stopping, w.aborted \/ w.timer = StopTimeout(s)
  PROVE  Fine(service_set_state(w, s))
<1>1. /\ s \in ServiceState /\ s # "cleaning" /\ s \notin {"reload-signal", "reload-notify"}
      /\ s \notin AutoRestart /\ s \notin Starting \cup Reloading
  BY Zenon DEF ServiceState, Starting, Reloading, Stopping, StopSignal, FinalSignal, AutoRestart
<1> QED BY <1>1, Waits, Zenon DEF NeedsTimer

\* A starting or reloading state is entered with TimeoutStartSec= armed.
LEMMA StartingWaits ==
  ASSUME NEW w, Busy(w), NEW s \in Starting \cup Reloading, w.aborted \/ (conf.timeout_start => w.timer),
         s \in {"reload-signal", "reload-notify"} => w.control = NoPid
  PROVE  Fine(service_set_state(w, s))
<1>1. /\ s \in ServiceState /\ s # "cleaning" /\ s \notin Stopping
      /\ s \notin AutoRestart
  BY Zenon DEF ServiceState, Starting, Reloading, Stopping, StopSignal, FinalSignal, AutoRestart
<1> QED BY <1>1, Waits, Zenon DEF NeedsTimer

\* service_enter_signal() keeps the invariant.
LEMMA EnterSignal ==
  ASSUME NEW u, Busy(u), NEW state \in Signals, NEW f, NEW x \in service_enter_signal(u, state, f)
  PROVE  Fine(x)
<1> DEFINE w == Blame(u, f)
<1>1. Busy(w)
  BY BlameBusy, Zenon
<1>2. \/ x \in Escalate(w, state, "success") \/ x \in Escalate(w, state, "resources")
      \/ x = service_set_state(service_arm_timer(w, StopTimeout(state)), state)
  BY Zenon DEF service_enter_signal
<1> HIDE DEF w
<1>3. state \in Stopping
  BY Zenon DEF Signals, Stopping
<1>4. Fine(service_set_state(service_arm_timer(w, StopTimeout(state)), state))
  BY <1>1, <1>3, ArmTimer, StoppingWaits, ZenonT(30)
<1> QED BY <1>1, <1>2, <1>4, EscalateFine, Zenon

\* service_enter_stop_post() keeps the invariant.
LEMMA EnterStopPost ==
  ASSUME NEW w, Busy(w), NEW f, NEW x \in service_enter_stop_post(w, f)
  PROVE  Fine(x)
<1> DEFINE v == service_unwatch_control_pid(Blame(w, f))
           n == conf.commands["stop-post"]
<1>1. Busy(v)
  BY BlameBusy, UnwatchControl, Zenon
<1>2. \/ x \in ThenSignal(v, "final-sigterm", "success")
      \/ \E y \in SpawnControl(v, n, conf.timeout_stop) : x = service_set_state(y, "stop-post")
      \/ \E y \in SpawnFails(v, conf.timeout_stop) : x \in ThenSignal(y, "final-sigterm", "resources")
  BY Zenon DEF service_enter_stop_post
<1> HIDE DEF v, n
<1>3. "final-sigterm" \in Signals /\ "stop-post" \in Stopping /\ StopTimeout("stop-post") = conf.timeout_stop
  BY Zenon DEF Signals, FinalSignal, Stopping, StopTimeout
<1>4. \A y \in SpawnControl(v, n, conf.timeout_stop) : Fine(service_set_state(y, "stop-post"))
  BY <1>1, <1>3, SpawnControlBusy, StoppingWaits
<1> QED BY <1>1, <1>2, <1>3, <1>4, SpawnFailsBusy, ThenSignalFine, Zenon

\* service_enter_stop() keeps the invariant.
LEMMA EnterStop ==
  ASSUME NEW w, Busy(w), NEW f, NEW x \in service_enter_stop(w, f)
  PROVE  Fine(x)
<1> DEFINE v == service_unwatch_control_pid(Blame(w, f))
           n == conf.commands["stop"]
<1>1. Busy(v)
  BY BlameBusy, UnwatchControl, Zenon
<1>2. \/ x \in ThenSignal(v, "stop-sigterm", "success")
      \/ \E y \in SpawnControl(v, n, conf.timeout_stop) : x = service_set_state(y, "stop")
      \/ \E y \in SpawnFails(v, conf.timeout_stop) : x \in ThenSignal(y, "stop-sigterm", "resources")
  BY Zenon DEF service_enter_stop
<1> HIDE DEF v, n
<1>3. "stop-sigterm" \in Signals /\ "stop" \in Stopping /\ StopTimeout("stop") = conf.timeout_stop
  BY Zenon DEF Signals, StopSignal, Stopping, StopTimeout
<1>4. \A y \in SpawnControl(v, n, conf.timeout_stop) : Fine(service_set_state(y, "stop"))
  BY <1>1, <1>3, SpawnControlBusy, StoppingWaits
<1> QED BY <1>1, <1>2, <1>3, <1>4, SpawnFailsBusy, ThenSignalFine, Zenon

\* service_enter_stop_by_notify() keeps the invariant.
LEMMA EnterStopByNotify ==
  ASSUME NEW w, Busy(w), NEW x \in service_enter_stop_by_notify(w)
  PROVE  Fine(x)
<1>1. "stop-sigterm" \in Signals /\ "stop-sigterm" \in Stopping /\ StopTimeout("stop-sigterm") = conf.timeout_stop
  BY Zenon DEF Signals, StopSignal, Stopping, StopTimeout
<1>2. Fine(service_set_state(service_arm_timer(w, conf.timeout_stop), "stop-sigterm"))
  BY <1>1, ArmTimer, StoppingWaits, ZenonT(30)
<1> QED BY <1>1, <1>2, ThenSignalFine, Zenon DEF service_enter_stop_by_notify

\* A reload that fails goes back to service_enter_running().
LEMMA ReloadFailsFine ==
  ASSUME NEW w, Busy(w), NEW f, NEW x \in ReloadFails(w, f)
  PROVE  Fine(x)
<1> DEFINE v == [w EXCEPT !.reload_result = f]
<1>1. Object(v) /\ Like(v, w)
  BY ZenonT(30) DEF Busy, Object, Fields, Like
<1>2. x \in ThenEnter(v, "running", "success")
  BY Zenon DEF ReloadFails
<1> HIDE DEF v
<1> QED BY <1>1, <1>2, LikeBusy, ThenEnterFine, Zenon

\* service_enter_reload_by_notify() keeps the invariant.
LEMMA EnterReloadByNotify ==
  ASSUME NEW w, Busy(w), w.control = NoPid, NEW x \in service_enter_reload_by_notify(w)
  PROVE  Fine(x)
<1>1. "reload-notify" \in Starting \cup Reloading
  BY Zenon DEF Reloading
<1>2. Fine(service_set_state(service_arm_timer(w, conf.timeout_start), "reload-notify"))
  BY <1>1, ArmTimer, StartingWaits, Zenon
<1> QED BY <1>2, ReloadFailsFine, Zenon DEF service_enter_reload_by_notify

\* A function that returns in a settled state keeps the invariant.
LEMMA IdleFine == ASSUME NEW w, Busy(w), Settled(w) PROVE Fine(w)
<1>1. w.next[1] # "signal"
  BY DEF Busy, NoCall
<1> QED BY <1>1, Zenon DEF Busy, Fine

\* service_enter_running() keeps the invariant.
LEMMA EnterRunning ==
  ASSUME NEW w, Busy(w), NEW f, NEW x \in service_enter_running(w, f)
  PROVE  Fine(x)
<1> DEFINE v == service_unwatch_control_pid(Blame(w, f))
           running == service_set_state(v, "running")
<1>1. Busy(v) /\ v.control = NoPid
  BY BlameBusy, UnwatchControl, Zenon
<1>2. \/ x \in ThenSignal(v, "stop-sigterm", f)
      \/ x \in service_enter_reload_by_notify(v) \/ x \in service_enter_stop_by_notify(v)
      \/ x = service_arm_timer(running, conf.runtime_max)
      \/ x \in ThenSignal(running, "stop-sigterm", "resources")
      \/ x = service_set_state(v, "exited")
      \/ x \in ThenEnter(v, "stop", "success")
  BY Zenon DEF service_enter_running
<1> HIDE DEF v
<1>3. "stop-sigterm" \in Signals
  BY Zenon DEF Signals, StopSignal
<1>4. {"running", "exited"} \cap (AutoRestart) = {}
  BY Zenon DEF AutoRestart
<1>5. Busy(running) /\ running.state = "running" /\ running.control = NoPid
  BY <1>1, <1>4, SetStateBusy, SetState DEF Busy
<1> HIDE DEF running
<1>6. Fine(service_arm_timer(running, conf.runtime_max))
  <2> DEFINE y == service_arm_timer(running, conf.runtime_max)
  <2>1. Busy(y) /\ y.control = NoPid /\ y.state = "running"
    BY <1>5, ArmTimer, Zenon
  <2> HIDE DEF y
  <2>2. Settled(y)
    BY <2>1, Zenon DEF Settled, Down, NeedsTimer, Starting, Reloading, Stopping, StopSignal, FinalSignal
  <2> QED BY <2>1, <2>2, IdleFine, Zenon DEF y
<1>7. Fine(service_set_state(v, "exited"))
  BY <1>1, <1>4, Waits, Zenon DEF ServiceState, NeedsTimer, Starting, Reloading, Stopping, StopSignal, FinalSignal
<1> QED BY <1>1, <1>2, <1>3, <1>5, <1>6, <1>7, ThenSignalFine, ThenEnterFine, EnterReloadByNotify, EnterStopByNotify, Zenon

\* service_enter_start_post() keeps the invariant.
LEMMA EnterStartPost ==
  ASSUME NEW w, Busy(w), NEW x \in service_enter_start_post(w)
  PROVE  Fine(x)
<1> DEFINE u == service_unwatch_control_pid(w)
           v == [u EXCEPT !.watchdog = conf.watchdog]
           n == conf.commands["start-post"]
<1>1. Busy(u)
  BY UnwatchControl, Zenon
<1> HIDE DEF u
<1>2. Object(v)
  BY <1>1, Zenon DEF Busy, Object, Fields
<1>3. v.state = u.state /\ v.stopped = u.stopped /\ v.forbid_restart = u.forbid_restart /\ v.next = u.next
  BY <1>1, Zenon DEF Busy, Object, Fields
<1>4. Busy(v)
  BY <1>1, <1>2, <1>3, Zenon DEF Busy, Kept, Forbidden
<1>5. \/ x \in ThenEnter(v, "running", "success")
      \/ \E y \in SpawnControl(v, n, conf.timeout_start) : x = service_set_state(y, "start-post")
      \/ \E y \in SpawnFails(v, conf.timeout_start) : x \in ThenEnter(y, "stop", "resources")
  BY Zenon DEF service_enter_start_post, u
<1> HIDE DEF v, n
<1>6. "start-post" \in Starting
  BY Zenon DEF Starting
<1>7. \A y \in SpawnControl(v, n, conf.timeout_start) : Fine(service_set_state(y, "start-post"))
  BY <1>4, <1>6, SpawnControlBusy, StartingWaits
<1> QED BY <1>4, <1>5, <1>7, SpawnFailsBusy, ThenEnterFine, Zenon

\* A main process comes with the timer of its state.
LEMMA SpawnMainBusy ==
  ASSUME NEW w, Busy(w), NEW n \in Int, n <= conf.commands["start"], NEW finite, NEW x \in SpawnMain(w, n, finite)
  PROVE  /\ Busy(x) /\ (x.aborted \/ x.timer = finite) /\ x.state = w.state /\ x.stopped = w.stopped
         /\ x.control = w.control
<1>1. CASE x \in Abort(w)
  <2>1. x.stopped = w.stopped
    BY <1>1, Zenon DEF Abort, Busy, Object, Fields
  <2> QED BY <1>1, <2>1, AbortBusy, Zenon
<1>2. ASSUME NEW p \in Fresh(w), NEW e,
             x = [service_set_main_pidref(Spawn(w, p, finite), p) EXCEPT !.main_command = n, !.exec_fd = e]
      PROVE  /\ Busy(x) /\ (x.aborted \/ x.timer = finite) /\ x.state = w.state /\ x.stopped = w.stopped
             /\ x.control = w.control
  <2> DEFINE v == Spawn(w, p, finite)
             z == service_set_main_pidref(v, p)
  <2>1. Busy(v) /\ v.timer = finite /\ v.state = w.state /\ v.stopped = w.stopped
    BY SpawnBusy, FreshPids
  <2>2. v.control = w.control
    BY Zenon DEF Spawn, Busy, Object, Fields
  <2> HIDE DEF v
  <2>3. Object(z)
    BY <2>1, ZenonT(30) DEF service_set_main_pidref, Busy, Object, Fields
  <2>4. /\ z.state = v.state /\ z.stopped = v.stopped /\ z.forbid_restart = v.forbid_restart
        /\ z.next = v.next /\ z.timer = v.timer /\ z.control = v.control
    BY <2>1, Zenon DEF service_set_main_pidref, Busy, Object, Fields
  <2>5. x = [z EXCEPT !.main_command = n, !.exec_fd = e]
    BY <1>2, Zenon DEF v
  <2> HIDE DEF z
  <2>6. Object(x)
    BY <2>3, <2>5, ZenonT(30) DEF Object, Fields
  <2>7. /\ x.state = z.state /\ x.stopped = z.stopped /\ x.forbid_restart = z.forbid_restart
        /\ x.next = z.next /\ x.timer = z.timer /\ x.control = z.control
    BY <2>3, <2>5, Zenon DEF Object, Fields
  <2> QED BY <2>1, <2>2, <2>4, <2>6, <2>7, Zenon DEF Busy, Kept, Forbidden
<1> QED BY <1>1, <1>2, Zenon DEF SpawnMain

\* service_enter_start() keeps the invariant.
LEMMA EnterStart ==
  ASSUME NEW w, Busy(w), NEW x \in service_enter_start(w)
  PROVE  Fine(x)
<1> DEFINE u == service_unwatch_control_pid(w)
           v == [u EXCEPT !.main = NoPid]
           n == conf.commands["start"]
           finite == conf.timeout_start /\ conf.type \notin {"simple", "idle"}
           command == [v EXCEPT !.main_command = IF conf.type = "forking" THEN 0 ELSE n]
           spawned == IF conf.type = "forking" THEN SpawnControl(command, n, finite) ELSE SpawnMain(command, n, finite)
<1>1. Busy(u)
  BY UnwatchControl, Zenon
<1>2. x \in
        IF service_adverse_to_leftover_processes(w) THEN ThenSignal(v, "stop-sigterm", "resources")
        ELSE IF n = 0
        THEN ThenEnter(service_set_state(command, "start"), "start-post", "success")
        ELSE Launched(spawned)
             \cup UNION {ThenSignal(y, "stop-sigterm", "resources") : y \in SpawnMainFails(command, finite)}
  BY Zenon DEF service_enter_start
<1> HIDE DEF u
<1>3. Busy(v)
  <2>1. Object(v)
    BY <1>1, ZenonT(30) DEF Busy, Object, Fields
  <2>2. v.state = u.state /\ v.stopped = u.stopped /\ v.forbid_restart = u.forbid_restart /\ v.next = u.next
    BY <1>1, Zenon DEF Busy, Object, Fields
  <2> QED BY <1>1, <2>1, <2>2, Zenon DEF Busy, Kept, Forbidden
<1> HIDE DEF v
<1>4. Busy(command) /\ n \in Int /\ n <= conf.commands["start"]
  <2>1. Object(command) /\ n \in Nat
    BY <1>3 DEF Busy, Object, Fields
  <2>2. command.state = v.state /\ command.stopped = v.stopped /\ command.forbid_restart = v.forbid_restart /\ command.next = v.next
    BY <1>3, Zenon DEF Busy, Object, Fields
  <2> QED BY <1>3, <2>1, <2>2 DEF Busy, Kept, Forbidden
<1> HIDE DEF command, n
<1>5. \A y \in spawned : Busy(y) /\ (y.aborted \/ y.timer = finite)
  BY <1>4, SpawnControlBusy, SpawnMainBusy
<1>6. ASSUME conf.type \notin {"simple", "idle"}, NEW y \in spawned
      PROVE  Fine(service_set_state(y, "start"))
  <2>1. y.aborted \/ (conf.timeout_start => y.timer)
    BY <1>5, <1>6, Zenon
  <2>2. "start" \in Starting
    BY Zenon DEF Starting
  <2> HIDE DEF spawned
  <2> QED BY <1>5, <2>1, <2>2, StartingWaits, Zenon
<1>7. "stop-sigterm" \in Signals /\ "start" \notin AutoRestart
  BY Zenon DEF Signals, StopSignal, AutoRestart
<1>8. Busy(service_set_state(command, "start"))
  BY <1>4, <1>7, SetStateBusy, Zenon
<1> HIDE DEF spawned, finite
<1>9. x \in Launched(spawned) => Fine(x)
  BY <1>5, <1>6, ThenEnterFine, Zenon DEF Launched
<1>10. \/ x \in ThenSignal(v, "stop-sigterm", "resources")
       \/ x \in ThenEnter(service_set_state(command, "start"), "start-post", "success")
       \/ x \in UNION {ThenSignal(y, "stop-sigterm", "resources") : y \in SpawnMainFails(command, finite)}
       \/ x \in Launched(spawned)
  BY <1>2, Zenon
<1>11. \A y \in SpawnMainFails(command, finite) : \A z \in ThenSignal(y, "stop-sigterm", "resources") : Fine(z)
  BY <1>4, <1>7, ThenSignalFine, SpawnMainFailsBusy, Zenon
<1> QED BY <1>10, <1>11, <1>3, <1>4, <1>7, <1>8, <1>9, ThenSignalFine, ThenEnterFine, Zenon

\* service_enter_condition() and service_enter_start_pre() keep the invariant.
LEMMA ControlStep ==
  ASSUME NEW w, Busy(w), NEW state \in {"condition", "start-pre"}, NEW next \in {"start-pre", "start"},
         NEW x \in EnterControlStep(w, state, next)
  PROVE  Fine(x)
<1> DEFINE v == service_unwatch_control_pid(w)
           n == conf.commands[state]
<1>1. Busy(v)
  BY UnwatchControl, Zenon
<1>2. \/ x \in ThenEnter(w, next, "success") \/ x \in ThenDead(v, "resources")
      \/ \E y \in SpawnControl(v, n, conf.timeout_start) : x = service_set_state(y, state)
      \/ \E y \in SpawnFails(v, conf.timeout_start) : x \in ThenDead(y, "resources")
  BY Zenon DEF EnterControlStep
<1> HIDE DEF v, n
<1>3. state \in Starting /\ state \notin {"reload-signal", "reload-notify"}
  BY Zenon DEF Starting
<1>4. \A y \in SpawnControl(v, n, conf.timeout_start) : Fine(service_set_state(y, state))
  BY <1>1, <1>3, SpawnControlBusy, StartingWaits
<1> QED BY <1>1, <1>2, <1>4, SpawnFailsBusy, ThenEnterFine, ThenDeadFine, Zenon

\* service_enter_reload() keeps the invariant.
LEMMA EnterReload ==
  ASSUME NEW w, Busy(w), NEW x \in service_enter_reload(w)
  PROVE  Fine(x)
<1> DEFINE u == service_unwatch_control_pid(w)
           v == [u EXCEPT !.reload_result = "success"]
           n == conf.commands["reload"]
<1>1. Busy(u) /\ u.control = NoPid
  BY UnwatchControl, Zenon
<1>2. \/ \E y \in SpawnControl(v, n, conf.timeout_start) : x = service_set_state(y, "reload")
      \/ \E y \in SpawnFails(v, conf.timeout_start) : x \in ReloadFails(y, "resources")
      \/ x = service_set_state(service_arm_timer(v, conf.timeout_start), "reload-signal")
      \/ x \in ReloadFails(v, "resources")
      \/ x \in ThenEnter(v, "running", "success")
  BY Zenon DEF service_enter_reload
<1> HIDE DEF u
<1>3. Object(v) /\ Like(v, u)
  BY <1>1, ZenonT(30) DEF Busy, Object, Fields, Like
<1>4. Busy(v) /\ v.control = NoPid
  BY <1>1, <1>3, LikeBusy, Zenon DEF Like
<1> HIDE DEF v, n
<1>5. {"reload", "reload-signal"} \subseteq Starting \cup Reloading
  BY Zenon DEF Reloading
<1>6. \A y \in SpawnControl(v, n, conf.timeout_start) : Fine(service_set_state(y, "reload"))
  BY <1>4, <1>5, SpawnControlBusy, StartingWaits
<1>7. Fine(service_set_state(service_arm_timer(v, conf.timeout_start), "reload-signal"))
  BY <1>4, <1>5, ArmTimer, StartingWaits, Zenon
<1> QED BY <1>2, <1>4, <1>6, <1>7, SpawnFailsBusy, ThenEnterFine, ReloadFailsFine, Zenon

\* A job that is installed changes no field the invariant mentions.
LEMMA JobInstallLike ==
  ASSUME NEW w, NEW active, NEW t, Object(w)
  PROVE  Object(job_install(w, active, t)) /\ Like(job_install(w, active, t), w)
  BY ZenonT(30) DEF job_install, Object, Fields, Like

\* service_enter_restart() keeps the invariant, for it is not called on a service
\* that was stopped.
LEMMA EnterRestart ==
  ASSUME NEW w, Busy(w), Fine(w), ~ (KeepsDown /\ w.stopped), NEW x \in service_enter_restart(w)
  PROVE  Fine(x)
<1> DEFINE u == job_install(w, service_active_state(w.state), "start")
           v == [u EXCEPT !.run = FALSE]
<1>1. x = w \/ x \in service_enter_dead(w, "resources", FALSE) \/ x = service_set_state(v, "auto-restart-queued")
  BY Zenon DEF service_enter_restart
<1>2. Object(u) /\ Like(u, w)
  BY JobInstallLike, Zenon DEF Busy
<1> HIDE DEF u
<1>3. Object(v) /\ Like(v, u)
  BY <1>2, ZenonT(30) DEF Object, Fields, Like
<1>4. Busy(v) /\ v.stopped = w.stopped
  BY <1>2, <1>3, LikeBusy, Zenon DEF Like
<1> HIDE DEF v
<1>5. Fine(service_set_state(v, "auto-restart-queued"))
  BY <1>4, Waits, Zenon DEF ServiceState, AutoRestart, NeedsTimer, Starting, Reloading, Stopping, StopSignal, FinalSignal
<1> QED BY <1>1, <1>5, EnterDead, Zenon DEF Busy

\* service_run_next_control() keeps the invariant: the timeout it arms is the one
\* of the state.
LEMMA RunNextControl ==
  ASSUME NEW w, Busy(w), w.state \notin Down \cup NoControl, NEW x \in service_run_next_control(w)
  PROVE  Fine(x)
<1> DEFINE v == service_unwatch_control_pid(w)
           n == w.control_command - 1
           finite == IF w.state \in Starting \cup {"running", "reload"} THEN conf.timeout_start ELSE conf.timeout_stop
           fail(y) == IF w.state \in {"condition", "start-pre", "start-post", "stop"}
                      THEN ThenSignal(y, "stop-sigterm", "resources")
                      ELSE IF w.state = "stop-post" THEN ThenDead(y, "resources")
                      ELSE IF w.state = "reload" THEN ReloadFails(y, "resources")
                      ELSE ThenEnter(y, "stop", "resources")
<1>1. x \in SpawnControl(v, n, finite) \cup UNION {fail(y) : y \in SpawnFails(v, finite)}
  BY Zenon DEF service_run_next_control
<1>2. Busy(v) /\ v.state = w.state
  BY UnwatchControl, Zenon
<1>3. "stop-sigterm" \in Signals
  BY Zenon DEF Signals, StopSignal
<1> HIDE DEF v, n
<1>4. ASSUME NEW y, Busy(y) PROVE \A z \in fail(y) : Fine(z)
  BY <1>3, <1>4, ThenSignalFine, ThenDeadFine, ThenEnterFine, ReloadFailsFine, Zenon
<1> HIDE DEF fail
<1>5. CASE x \in SpawnControl(v, n, finite)
  <2>1. Busy(x) /\ (x.aborted \/ x.timer = finite) /\ x.state = w.state
    BY <1>2, <1>5, SpawnControlBusy
  <2>2. OneTimeout /\ NeedsTimer(w.state) /\ ~ x.aborted => x.timer
    BY <2>1, Zenon DEF OneTimeout, NeedsTimer, StopTimeout, Down, NoControl, Starting, Reloading, Stopping, StopSignal, FinalSignal
  <2>3. ~ x.aborted => Settled(x)
    BY <2>1, <2>2, Zenon DEF Settled, Down
  <2>4. x.next[1] # "signal"
    BY <2>1 DEF Busy, NoCall
  <2> QED BY <2>1, <2>3, <2>4, Zenon DEF Busy, Fine
<1>6. CASE x \in UNION {fail(y) : y \in SpawnFails(v, finite)}
  BY <1>2, <1>4, <1>6, SpawnFailsBusy
<1> QED BY <1>1, <1>5, <1>6, Zenon

\* service_run_next_main() arms TimeoutStartSec= in whatever state the service is:
\* only if TimeoutStopSec= finite implies TimeoutStartSec= finite does that do.
LEMMA RunNextMain ==
  ASSUME NEW w, Busy(w), w.state \notin Down, w.state \in NoControl => w.control = NoPid,
         conf.type = "oneshot", w.main_command > 1, NEW x \in service_run_next_main(w)
  PROVE  Fine(x)
<1> DEFINE v == [w EXCEPT !.main = NoPid]
           n == w.main_command - 1
<1>1. \/ x \in SpawnMain(v, n, conf.timeout_start)
      \/ \E y \in SpawnFails(v, conf.timeout_start) : x \in ThenEnter([y EXCEPT !.main_command = n], "stop", "resources")
  BY Zenon DEF service_run_next_main
<1>2. /\ Object(v) /\ v.state = w.state /\ v.stopped = w.stopped /\ v.forbid_restart = w.forbid_restart
      /\ v.next = w.next /\ v.control = w.control
  BY Zenon DEF Busy, Object, Fields
<1>3. Busy(v)
  BY <1>2, Zenon DEF Busy, Kept, Forbidden
<1>4. n \in Int /\ n <= conf.commands["start"] /\ conf.commands["start"] > 1
  BY DEF Busy, Object
<1> HIDE DEF v, n
<1>5. CASE x \in SpawnMain(v, n, conf.timeout_start)
  <2>1. /\ Busy(x) /\ (x.aborted \/ x.timer = conf.timeout_start) /\ x.state = w.state
        /\ x.control = w.control
    BY <1>2, <1>3, <1>4, <1>5, SpawnMainBusy
  <2>2. OneTimeout /\ NeedsTimer(w.state) /\ ~ x.aborted => x.timer
    BY <1>4, <2>1, Zenon DEF OneTimeout, NeedsTimer, StopTimeout, Down
  <2>3. ~ x.aborted => Settled(x)
    BY <2>1, <2>2, Zenon DEF Settled, Down
  <2>4. x.next[1] # "signal"
    BY <2>1 DEF Busy, NoCall
  <2> QED BY <2>1, <2>3, <2>4, Zenon DEF Busy, Fine
<1>6. ASSUME NEW y \in SpawnFails(v, conf.timeout_start),
             x \in ThenEnter([y EXCEPT !.main_command = n], "stop", "resources")
      PROVE  Fine(x)
  <2> DEFINE z == [y EXCEPT !.main_command = n]
  <2>1. Busy(y)
    BY <1>3, SpawnFailsBusy, Zenon
  <2>2. Object(z)
    BY <1>4, <2>1, ZenonT(30) DEF Busy, Object, Fields
  <2>3. z.state = y.state /\ z.stopped = y.stopped /\ z.forbid_restart = y.forbid_restart /\ z.next = y.next
    BY <2>1, Zenon DEF Busy, Object, Fields
  <2>4. Busy(z)
    BY <2>1, <2>2, <2>3, Zenon DEF Busy, Kept, Forbidden
  <2> HIDE DEF z
  <2> QED BY <1>6, <2>4, ThenEnterFine, Zenon DEF z
<1> QED BY <1>1, <1>5, <1>6, Zenon

\* A call a function ends with keeps the invariant.
LEMMA CallFine ==
  ASSUME NEW u, Fine(u), u.next # NoCall, NEW x \in Call(u)
  PROVE  Fine(x)
<1> DEFINE w == [u EXCEPT !.next = NoCall]
<1>1. Object(w)
  BY Zenon DEF Fine, Object, Fields
<1>2. w.state = u.state /\ w.stopped = u.stopped /\ w.forbid_restart = u.forbid_restart /\ w.next = NoCall
  BY Zenon DEF Fine, Object, Fields
<1> HIDE DEF w
<1>3. Busy(w)
  BY <1>1, <1>2, Zenon DEF Fine, Busy, Kept, Forbidden
<1>4. \/ x \in service_enter_dead(w, u.next[2], u.next[3] = "restart")
      \/ u.next[1] = "signal" /\ x \in service_enter_signal(w, u.next[3], u.next[2])
      \/ x \in service_enter_stop_post(w, u.next[2]) \/ x \in service_enter_stop(w, u.next[2])
      \/ x \in service_enter_running(w, u.next[2]) \/ x \in service_enter_start_post(w)
      \/ x \in service_enter_start(w) \/ x \in service_enter_start_pre(w)
  BY Zenon DEF Call, w
<1>5. u.next[1] = "signal" => u.next[3] \in Signals
  BY Zenon DEF Fine
<1>6. x \in service_enter_start_pre(w) => Fine(x)
  BY <1>3, ControlStep, Zenon DEF service_enter_start_pre
<1>7. x \in service_enter_dead(w, u.next[2], u.next[3] = "restart") => Fine(x)
  BY <1>3, EnterDead, Zenon DEF Busy
<1> QED BY <1>3, <1>4, <1>5, <1>6, <1>7, EnterSignal, EnterStopPost, EnterStop, EnterRunning, EnterStartPost, EnterStart, Zenon

-----------------------------------------------------------------------------
(* Handlers.                                                               *)

\* The object a handler is called on.
Ready(w) == Fine(w) /\ w.next = NoCall /\ ~ w.aborted

\* Fields the invariant does not mention do not matter.
LEMMA LikeFine == ASSUME NEW w, NEW x, Fine(w), Object(x), Like(x, w) PROVE Fine(x)
  BY Zenon DEF Fine, Like, Kept, Forbidden, Settled

\* A handler may call the service_enter_*() functions unless the service is down.
LEMMA ReadyBusy == ASSUME NEW w, Ready(w), w.state \notin Down \/ Forbidden(w) PROVE Busy(w)
  BY Zenon DEF Ready, Fine, Busy

\* x is w but for fields that do not matter unless the service is down.
Alike(x, w) ==
    /\ x.state = w.state /\ x.control = w.control /\ x.control_command = w.control_command
    /\ x.timer = w.timer /\ x.forbid_restart = w.forbid_restart /\ x.stopped = w.stopped
    /\ x.next = w.next /\ x.aborted = w.aborted

\* The main process and the watchdog only matter in a service that is down.
LEMMA AlikeReady ==
  ASSUME NEW w, NEW x, Ready(w), Object(x), Alike(x, w), w.state \notin Down
  PROVE  Ready(x)
  BY Zenon DEF Ready, Fine, Alike, Kept, Forbidden, Settled

\* A failing assertion keeps the invariant.
LEMMA AbortFine == ASSUME NEW w, Fine(w), NEW x \in Abort(w) PROVE Fine(x)
<1>1. x = [w EXCEPT !.aborted = TRUE]
  BY Zenon DEF Abort
<1>2. Object(x)
  BY <1>1, ZenonT(30) DEF Fine, Object, Fields
<1>3. x.state = w.state /\ x.stopped = w.stopped /\ x.forbid_restart = w.forbid_restart /\ x.next = w.next /\ x.aborted
  BY <1>1, Zenon DEF Fine, Object, Fields
<1> QED BY <1>2, <1>3, Zenon DEF Fine, Kept, Forbidden

\* service_set_state(SERVICE_DEAD) leaves nothing to clean up.
LEMMA DeadFine ==
  ASSUME NEW w, Object(w), w.next = NoCall
  PROVE  Fine(service_set_state(w, "dead"))
<1> DEFINE x == service_set_state(w, "dead")
<1>1. Object(x) /\ x.state = "dead" /\ x.next = NoCall
  BY SetState, Zenon
<1>2. x.main = NoPid /\ x.control = NoPid /\ ~ x.watchdog /\ ~ x.timer
  BY SetState DEF WithMain, WithControl, Watched, Timed, Starting, Reloading, Stopping, StopSignal, FinalSignal
<1> HIDE DEF x
<1>3. Kept(x) /\ x.state \in Down /\ x.next[1] # "signal"
  BY <1>1 DEF Kept, AutoRestart, Down, NoCall
<1>4. Settled(x)
  BY <1>1, <1>2, Zenon DEF Settled, NeedsTimer, Starting, Reloading, Stopping, StopSignal, FinalSignal
<1> QED BY <1>1, <1>3, <1>4, Zenon DEF Fine, x

-----------------------------------------------------------------------------
\* A job that ends, or has to be tried again, leaves the service alone.
LEMMA FinishFine == ASSUME NEW w, Ready(w) PROVE Fine(job_finish(w)) /\ Fine(TryAgain(w))
<1>1. Object(job_finish(w)) /\ Like(job_finish(w), w)
  BY ZenonT(30) DEF job_finish, Ready, Fine, Object, Fields, Like
<1>2. Object(TryAgain(w)) /\ Like(TryAgain(w), w)
  BY ZenonT(30) DEF TryAgain, Ready, Fine, Object, Fields, Like
<1> QED BY <1>1, <1>2, LikeFine, Zenon DEF Ready

\* service_start() takes forbid_restart back along with the stop on record.
LEMMA StartFine == ASSUME NEW w, Ready(w), NEW x \in service_start(w) PROVE Fine(x)
<1> DEFINE v == [w EXCEPT !.result = "success", !.reload_result = "success", !.main_known = FALSE,
                          !.main_alien = FALSE, !.forbid_restart = FALSE, !.notify_state = "unknown",
                          !.stopped = FALSE]
<1>1. x = TryAgain(w) \/ x = w \/ x \in Abort(w) \/ x \in service_enter_condition(v)
  BY Zenon DEF service_start
<1>2. v = [k \in Fields |-> v[k]]
  BY Zenon DEF Ready, Fine, Object
<1>3. /\ v.live = w.live /\ v.zombie = w.zombie /\ v.main_command = w.main_command
      /\ v.next = w.next /\ v.stopped = FALSE
  BY Zenon DEF Ready, Fine, Object, Fields
<1> HIDE DEF v
<1>4. Busy(v)
  BY <1>2, <1>3, Zenon DEF Busy, Ready, Fine, Object, Kept, Forbidden
<1>5. x \in service_enter_condition(v) => Fine(x)
  BY <1>4, ControlStep, Zenon DEF service_enter_condition
<1> QED BY <1>1, <1>5, FinishFine, AbortFine, Zenon DEF Ready

\* unit_start() keeps the invariant, also at the start limit.
LEMMA UnitStartFine == ASSUME NEW w, Ready(w), NEW x \in unit_start(w) PROVE Fine(x)
<1>1. \/ x = job_finish(w) \/ x = TryAgain(w) \/ x \in service_start(w)
      \/ x \in service_enter_dead(w, "start-limit-hit", FALSE)
  BY Zenon DEF unit_start
<1>2. x \in service_enter_dead(w, "start-limit-hit", FALSE) => Fine(x)
  BY EnterDead, Zenon DEF Ready, Fine
<1> QED BY <1>1, <1>2, FinishFine, StartFine, Zenon

\* service_stop() sets forbid_restart whatever the state, and takes a service that
\* waits for its automatic restart down for good.
LEMMA StopFine == ASSUME NEW w, Ready(w), NEW x \in service_stop(w) PROVE Fine(x)
<1> DEFINE v == [w EXCEPT !.forbid_restart = TRUE, !.stopped = TRUE]
<1>1. Object(v)
  BY ZenonT(30) DEF Ready, Fine, Object, Fields
<1>2. /\ v.state = w.state /\ v.next = NoCall /\ v.forbid_restart /\ v.main = w.main /\ v.watchdog = w.watchdog
      /\ v.timer = w.timer /\ v.control = w.control /\ v.control_command = w.control_command
  BY Zenon DEF Ready, Fine, Object, Fields
<1>3. \/ x = v /\ v.state \notin AutoRestart
      \/ x = service_set_state(v, "dead")
      \/ v.state \notin AutoRestart /\ x \in service_enter_signal(v, "stop-sigterm", "success")
      \/ v.state \notin AutoRestart /\ x \in service_enter_signal(v, "final-sigkill", "success")
      \/ v.state \notin AutoRestart /\ x \in service_enter_stop(v, "success")
      \/ v.state \notin AutoRestart /\ x \in Abort(v)
  <2> HIDE DEF v
  <2>1. {"cleaning", "running", "exited", "stop-watchdog"} \cup Stopping \cup Starting \cup Reloading \subseteq ServiceState \ AutoRestart
    BY Zenon DEF ServiceState, AutoRestart, Stopping, Starting, Reloading, StopSignal, FinalSignal
  <2> QED BY <1>2, <2>1, Zenon DEF service_stop, v
<1> HIDE DEF v
<1>4. v.state \notin AutoRestart => Busy(v)
  BY <1>1, <1>2, Zenon DEF Busy, Kept, Forbidden
<1>5. Settled(v)
  BY <1>2, Zenon DEF Ready, Fine, Settled
<1>6. {"stop-sigterm", "final-sigkill"} \subseteq Signals
  BY Zenon DEF Signals, StopSignal, FinalSignal
<1>7. v.state \notin AutoRestart => Fine(v)
  BY <1>4, <1>5, IdleFine, Zenon
<1> QED BY <1>1, <1>2, <1>3, <1>4, <1>6, <1>7, DeadFine, EnterSignal, EnterStop, AbortFine, Zenon

\* unit_stop() keeps the invariant.
LEMMA UnitStopFine == ASSUME NEW w, Ready(w), NEW x \in unit_stop(w) PROVE Fine(x)
  BY StopFine, FinishFine, Zenon DEF unit_stop

\* unit_reload() keeps the invariant.
LEMMA UnitReloadFine == ASSUME NEW w, Ready(w), NEW x \in unit_reload(w) PROVE Fine(x)
<1>1. \/ x = job_finish(w) \/ x = TryAgain(w) \/ x \in Abort(w)
      \/ w.state \in {"running", "exited"} /\ x \in service_enter_reload(w)
  BY Zenon DEF unit_reload, service_reload
<1>2. w.state \in {"running", "exited"} => Busy(w)
  BY ReadyBusy, Zenon DEF Down
<1> QED BY <1>1, <1>2, FinishFine, AbortFine, EnterReload, Zenon DEF Ready
-----------------------------------------------------------------------------
\* A handler may do as it likes with a service that is not down.
LEMMA UpBusy == ASSUME NEW w, Ready(w), w.state \notin Down PROVE Busy(w) /\ Fine(w)
  BY ReadyBusy, Zenon DEF Ready

\* States without a control process have none.
LEMMA NoControlState ==
  ASSUME NEW w, Ready(w), w.state \in NoControl PROVE w.control = NoPid
  BY Zenon DEF Ready, Fine, Settled

\* service_set_main_pidref() only changes the main process.
LEMMA SetMainPid ==
  ASSUME NEW w, Object(w), NEW p
  PROVE  Object(service_set_main_pidref(w, p)) /\ Alike(service_set_main_pidref(w, p), w)
  BY ZenonT(30) DEF service_set_main_pidref, Object, Fields, Alike

\* service_load_pid_file() only changes the main process.
LEMMA LoadPidFile ==
  ASSUME NEW w, Object(w), NEW r \in service_load_pid_file(w)
  PROVE  Object(r[2]) /\ Alike(r[2], w)
<1> DEFINE v == [w EXCEPT !.main_known = FALSE]
           named == {<<1, service_set_main_pidref(v, p)>>
                        : p \in w.live \ ({w.control} \cup (IF w.main_known THEN {w.main} ELSE {}))}
<1>1. r = <<-1, w>> \/ r = <<0, w>> \/ r \in named
  BY Zenon DEF service_load_pid_file
<1>2. Object(v) /\ Alike(v, w)
  BY Zenon DEF Object, Fields, Alike
<1> HIDE DEF v
<1>3. ASSUME r \in named PROVE Object(r[2]) /\ Alike(r[2], w)
  <2>1. PICK p : r = <<1, service_set_main_pidref(v, p)>>
    BY <1>3, Zenon
  <2>2. r[2] = service_set_main_pidref(v, p)
    BY <2>1, Zenon
  <2> QED BY <1>2, <2>2, SetMainPid DEF Alike
<1>4. ASSUME r = <<-1, w>> \/ r = <<0, w>> PROVE r[2] = w
  BY <1>4
<1> QED BY <1>1, <1>3, <1>4, Zenon DEF Alike

\* service_search_main_pid() only changes the main process.
LEMMA SearchMainPid ==
  ASSUME NEW w, Object(w), NEW x \in service_search_main_pid(w)
  PROVE  Object(x) /\ Alike(x, w)
<1>1. x = w \/ \E p : x = service_set_main_pidref(w, p)
  BY Zenon DEF service_search_main_pid
<1> QED BY <1>1, SetMainPid DEF Alike

\* service_retry_pid_file() keeps the invariant.
LEMMA RetryPidFileFine ==
  ASSUME NEW w, Ready(w), w.state \notin Down, NEW x \in RetryPidFile(w)
  PROVE  Fine(x)
<1>1. PICK r \in service_load_pid_file(w) :
         x = r[2] \/ x \in service_enter_running([r[2] EXCEPT !.pid_watch = FALSE], "success")
  BY Zenon DEF RetryPidFile
<1> DEFINE y == r[2]
           v == [y EXCEPT !.pid_watch = FALSE]
<1>2. Ready(y) /\ y.state \notin Down
  BY LoadPidFile, AlikeReady DEF Ready, Fine, Alike
<1> HIDE DEF y
<1>3. Object(v) /\ Like(v, y)
  BY <1>2, ZenonT(30) DEF Ready, Fine, Object, Fields, Like
<1> HIDE DEF v
<1>4. Busy(v)
  BY <1>2, <1>3, UpBusy, LikeBusy, Zenon
<1> QED BY <1>1, <1>2, <1>4, EnterRunning, Zenon DEF Ready, v, y

\* service_demand_pid_file() keeps the invariant if its caller's error path does.
LEMMA DemandPidFileFine ==
  ASSUME NEW w, Ready(w), w.state \notin Down, NEW fail, \A y \in fail : Fine(y),
         NEW x \in service_demand_pid_file(w, fail)
  PROVE  Fine(x)
<1> DEFINE v == [w EXCEPT !.pid_watch = TRUE]
<1>1. Object(v) /\ Like(v, w)
  BY ZenonT(30) DEF Ready, Fine, Object, Fields, Like
<1>2. x \in Abort(w) \/ x \in fail \/ x \in RetryPidFile(v)
  BY Zenon DEF service_demand_pid_file
<1> HIDE DEF v
<1>3. Ready(v) /\ v.state \notin Down
  BY <1>1, LikeFine, Zenon DEF Ready, Like
<1> QED BY <1>2, <1>3, AbortFine, RetryPidFileFine, Zenon DEF Ready

\* The states service_enter_signal() is called with are signal states.
LEMMA SignalNames ==
  /\ {"stop-watchdog", "stop-sigterm", "stop-sigkill"} \subseteq Signals
  /\ {"final-watchdog", "final-sigterm", "final-sigkill"} \subseteq Signals
  BY Zenon DEF Signals, StopSignal, FinalSignal

\* SIGCHLD of the last main process keeps the invariant in every state.
LEMMA MainGoneFine ==
  ASSUME NEW w, Ready(w), w.state \notin Down, NEW f, NEW x \in MainGone(w, f)
  PROVE  Fine(x)
<1>1. \/ x \in service_enter_stop(w, f) \/ x = w \/ x \in service_enter_start_post(w)
      \/ x \in service_enter_signal(w, "stop-sigterm", f) \/ x \in service_enter_signal(w, "stop-sigterm", "protocol")
      \/ x \in service_enter_running(w, f) \/ x \in service_enter_stop_post(w, f)
      \/ x \in service_enter_signal(w, "final-sigterm", f) \/ x \in service_enter_dead(w, f, TRUE)
      \/ x \in Abort(w)
  BY Zenon DEF MainGone
<1>2. Busy(w) /\ Fine(w)
  BY UpBusy, Zenon
<1>3. x \in service_enter_dead(w, f, TRUE) => Fine(x)
  BY <1>2, EnterDead, Zenon DEF Busy
<1> QED BY <1>1, <1>2, <1>3, SignalNames, EnterStop, EnterStartPost, EnterSignal, EnterRunning, EnterStopPost, AbortFine, Zenon

\* SIGCHLD of a main process keeps the invariant.
LEMMA MainExitedFine ==
  ASSUME NEW u, Ready(u), u.state \notin Down, NEW f, NEW x \in MainExited(u, f)
  PROVE  Fine(x)
<1> DEFINE v == [u EXCEPT !.exec_fd = "none"]
           y == [v EXCEPT !.main = NoPid]
           w == Blame(y, f)
           z == [w EXCEPT !.main_command = 0]
<1>1. \/ \E r \in service_load_pid_file(v) : x = r[2]
      \/ w.main_command > 1 /\ conf.type = "oneshot" /\ x \in service_run_next_main(w)
      \/ x \in MainGone(z, f) \/ x \in service_enter_start_post(z) \/ x = z
  BY Zenon DEF MainExited
<1>2. Object(v) /\ Like(v, u)
  BY Zenon DEF Ready, Fine, Object, Fields, Like
<1> HIDE DEF v
<1>3. Object(y) /\ Alike(y, v)
  BY <1>2, ZenonT(30) DEF Object, Fields, Alike
<1> HIDE DEF y
<1>4. Object(w) /\ Like(w, y)
  BY <1>3, BlameLike, ZenonT(30)
<1> HIDE DEF w
<1>5. Object(z) /\ Alike(z, w)
  BY <1>4 DEF Object, Fields, Alike
<1> HIDE DEF z
<1>6. Ready(v) /\ v.state \notin Down
  BY <1>2, LikeFine, Zenon DEF Ready, Like
<1>7. Ready(w) /\ w.state \notin Down
  BY <1>3, <1>4, <1>6, AlikeReady, Zenon DEF Like, Alike
<1>8. Ready(z) /\ z.state \notin Down
  BY <1>5, <1>7, AlikeReady, Zenon DEF Alike
<1>9. ASSUME NEW r \in service_load_pid_file(v), x = r[2] PROVE Fine(x)
  BY <1>2, <1>6, <1>9, LoadPidFile, AlikeReady, Zenon DEF Ready
<1>10. ASSUME w.main_command > 1, conf.type = "oneshot", x \in service_run_next_main(w) PROVE Fine(x)
  BY <1>7, <1>10, UpBusy, NoControlState, RunNextMain, Zenon
<1> QED BY <1>1, <1>8, <1>9, <1>10, MainGoneFine, UpBusy, EnterStartPost, Zenon

-----------------------------------------------------------------------------
\* The timeout of a reload stays armed when the service takes the reload over.
LEMMA ReloadNotifyFine ==
  ASSUME NEW w, Ready(w), w.state \in Reloading, w.control = NoPid
  PROVE  Fine(service_set_state(w, "reload-notify"))
<1>1. w.state \notin Down
  BY Zenon DEF Reloading, Down
<1>2. OneTimeout /\ NeedsTimer("reload-notify") => w.timer
  <2>1. NeedsTimer("reload-notify") => conf.timeout_start
    BY Zenon DEF NeedsTimer, Stopping, StopSignal, FinalSignal
  <2>2. conf.timeout_start => NeedsTimer(w.state)
    BY Zenon DEF NeedsTimer
  <2> QED BY <2>1, <2>2, Zenon DEF Ready, Fine, Settled
<1>3. "reload-notify" \in ServiceState /\ "reload-notify" \notin AutoRestart
  BY Zenon DEF ServiceState, Reloading, AutoRestart
<1> QED BY <1>1, <1>2, <1>3, UpBusy, Waits, Zenon

\* Type=forking with PIDFile=: the end of the start keeps the invariant.
LEMMA StartedByControl ==
  ASSUME NEW w, Ready(w), w.state \notin Down,
         NEW x \in UNION {IF conf.commands["start-post"] = 0 /\ r[1] < 0
                          THEN service_demand_pid_file(r[2], service_enter_signal(r[2], "stop-sigterm", "protocol"))
                          ELSE service_enter_start_post(r[2]) : r \in service_load_pid_file(w)}
  PROVE  Fine(x)
<1>1. PICK r \in service_load_pid_file(w) :
         \/ x \in service_demand_pid_file(r[2], service_enter_signal(r[2], "stop-sigterm", "protocol"))
         \/ x \in service_enter_start_post(r[2])
  BY Zenon
<1> DEFINE y == r[2]
<1>2. Ready(y) /\ y.state \notin Down
  BY LoadPidFile, AlikeReady DEF Ready, Fine, Alike
<1>3. x \in service_demand_pid_file(y, service_enter_signal(y, "stop-sigterm", "protocol")) \/ x \in service_enter_start_post(y)
  BY <1>1, Zenon
<1> HIDE DEF y
<1>4. \A z \in service_enter_signal(y, "stop-sigterm", "protocol") : Fine(z)
  BY <1>2, UpBusy, EnterSignal, SignalNames, Zenon
<1> QED BY <1>2, <1>3, <1>4, DemandPidFileFine, UpBusy, EnterStartPost, Zenon

\* ... and so does the end of ExecStartPost=.
LEMMA PostDone ==
  ASSUME NEW w, Ready(w), w.state \notin Down,
         NEW x \in UNION {IF r[1] < 0 THEN service_demand_pid_file(r[2], service_enter_stop(r[2], "protocol"))
                          ELSE service_enter_running(r[2], "success") : r \in service_load_pid_file(w)}
  PROVE  Fine(x)
<1>1. PICK r \in service_load_pid_file(w) :
         x \in service_demand_pid_file(r[2], service_enter_stop(r[2], "protocol")) \/ x \in service_enter_running(r[2], "success")
  BY Zenon
<1> DEFINE y == r[2]
<1>2. Ready(y) /\ y.state \notin Down
  BY LoadPidFile, AlikeReady DEF Ready, Fine, Alike
<1>3. x \in service_demand_pid_file(y, service_enter_stop(y, "protocol")) \/ x \in service_enter_running(y, "success")
  BY <1>1, Zenon
<1> HIDE DEF y
<1>4. \A z \in service_enter_stop(y, "protocol") : Fine(z)
  BY <1>2, UpBusy, EnterStop, Zenon
<1> QED BY <1>2, <1>3, <1>4, DemandPidFileFine, UpBusy, EnterRunning, Zenon

\* What ControlGone() does once ExecReload= is done.
Reloaded(w, f) ==
    UNION {IF x.notify_state = "reloading" THEN {service_set_state(x, "reload-notify")}
           ELSE service_enter_running(x, "success")
           : x \in {[y EXCEPT !.reload_result = f] :
                      y \in IF f # "success" THEN {w}
                            ELSE UNION {IF r[1] < 0 THEN service_search_main_pid(r[2]) ELSE {r[2]}
                                          : r \in service_load_pid_file(w)}}}

\* The end of ExecReload= keeps the invariant.
LEMMA ReloadedFine ==
  ASSUME NEW w, Ready(w), w.state \in Reloading, w.control = NoPid, NEW f, NEW x \in Reloaded(w, f)
  PROVE  Fine(x)
<1>1. PICK y \in IF f # "success" THEN {w}
                 ELSE UNION {IF r[1] < 0 THEN service_search_main_pid(r[2]) ELSE {r[2]}
                               : r \in service_load_pid_file(w)} :
         \/ x = service_set_state([y EXCEPT !.reload_result = f], "reload-notify")
         \/ x \in service_enter_running([y EXCEPT !.reload_result = f], "success")
  BY Zenon DEF Reloaded
<1>2. w.state \notin Down
  BY Zenon DEF Reloading, Down
<1>3. Object(y) /\ Alike(y, w)
  <2>1. CASE y = w
    BY <2>1, Zenon DEF Ready, Fine, Alike
  <2>2. ASSUME NEW r \in service_load_pid_file(w), y = r[2] \/ y \in service_search_main_pid(r[2])
        PROVE  Object(y) /\ Alike(y, w)
    <3>1. Object(r[2]) /\ Alike(r[2], w)
      BY LoadPidFile, Zenon DEF Ready, Fine
    <3> QED BY <2>2, <3>1, SearchMainPid, ZenonT(30) DEF Alike
  <2>3. y = w \/ \E r \in service_load_pid_file(w) : y = r[2] \/ y \in service_search_main_pid(r[2])
    BY <1>1, Zenon
  <2> QED BY <2>1, <2>2, <2>3, Zenon
<1>4. Ready(y) /\ y.state = w.state /\ y.control = NoPid
  BY <1>2, <1>3, AlikeReady, Zenon DEF Alike
<1> DEFINE v == [y EXCEPT !.reload_result = f]
<1>5. Object(v) /\ Like(v, y)
  BY <1>3, ZenonT(30) DEF Object, Fields, Like
<1>6. x = service_set_state(v, "reload-notify") \/ x \in service_enter_running(v, "success")
  BY <1>1, Zenon
<1> HIDE DEF v
<1>7. Ready(v) /\ v.state = w.state /\ v.control = NoPid
  BY <1>4, <1>5, LikeFine, Zenon DEF Ready, Like
<1> QED BY <1>2, <1>6, <1>7, ReloadNotifyFine, UpBusy, EnterRunning, Zenon

\* SIGCHLD of the last control process keeps the invariant in every state.
LEMMA ControlGoneFine ==
  ASSUME NEW w, Ready(w), w.control = NoPid, NEW f, NEW x \in ControlGone(w, f),
         w.state \notin {"dead", "failed"}
  PROVE  Fine(x)
<1> DEFINE started == UNION {IF conf.commands["start-post"] = 0 /\ r[1] < 0
                             THEN service_demand_pid_file(r[2], service_enter_signal(r[2], "stop-sigterm", "protocol"))
                             ELSE service_enter_start_post(r[2]) : r \in service_load_pid_file(w)}
           posted == UNION {IF r[1] < 0 THEN service_demand_pid_file(r[2], service_enter_stop(r[2], "protocol"))
                            ELSE service_enter_running(r[2], "success") : r \in service_load_pid_file(w)}
           found == UNION {service_enter_start_post(y) : y \in service_search_main_pid(w)}
           found2 == UNION {service_enter_running(y, "success") : y \in service_search_main_pid(w)}
<1>1. CASE w.state = "cleaning"
  <2>1. x \in service_enter_dead(w, "success", FALSE)
    BY <1>1, Zenon DEF ControlGone, Starting, Reloading, StopSignal, FinalSignal
  <2> QED BY <2>1, EnterDead, Zenon DEF Ready, Fine
<1>2. CASE w.state # "cleaning"
  <2>1. w.state \notin Down
    BY <1>2, Zenon DEF Down
  <2>2. \/ x \in service_enter_start_pre(w) \/ x \in service_enter_start(w) \/ x = w \/ x \in Abort(w)
        \/ x \in service_enter_signal(w, "stop-sigterm", f) \/ x \in service_enter_signal(w, "final-sigterm", f)
        \/ x \in started \/ x \in posted \/ x \in found \/ x \in found2
        \/ w.state \in Reloading /\ x \in Reloaded(w, f)
        \/ x \in service_enter_stop_post(w, f) \/ x \in service_enter_dead(w, f, TRUE)
    BY <1>2, Zenon DEF ControlGone, Reloaded
  <2> HIDE DEF started, posted, found, found2
  <2>3. Busy(w) /\ Fine(w)
    BY <2>1, UpBusy, Zenon
  <2>4. x \in service_enter_start_pre(w) => Fine(x)
    BY <2>3, ControlStep, Zenon DEF service_enter_start_pre
  <2>5. x \in service_enter_dead(w, f, TRUE) => Fine(x)
    BY <2>3, EnterDead, Zenon DEF Busy
  <2>6. x \in started => Fine(x)
    BY <2>1, StartedByControl, Zenon DEF started
  <2>7. x \in posted => Fine(x)
    BY <2>1, PostDone, Zenon DEF posted
  <2>8. \A y \in service_search_main_pid(w) : Busy(y)
    BY <2>1, SearchMainPid, AlikeReady, UpBusy DEF Ready, Fine, Alike
  <2>9. x \in found => Fine(x)
    BY <2>8, EnterStartPost, Zenon DEF found
  <2>10. x \in found2 => Fine(x)
    BY <2>8, EnterRunning, Zenon DEF found2
  <2>11. w.state \in Reloading /\ x \in Reloaded(w, f) => Fine(x)
    BY ReloadedFine, Zenon
  <2>12. \/ x \in service_enter_signal(w, "stop-sigterm", f) \/ x \in service_enter_signal(w, "final-sigterm", f)
         \/ x \in service_enter_stop_post(w, f) \/ x \in service_enter_start(w) \/ x \in Abort(w) \/ x = w
         => Fine(x)
    BY <2>3, SignalNames, EnterSignal, EnterStopPost, EnterStart, AbortFine, Zenon
  <2> QED BY <2>2, <2>4, <2>5, <2>6, <2>7, <2>9, <2>10, <2>11, <2>12, Zenon
<1> QED BY <1>1, <1>2, Zenon

\* SIGCHLD of a control process keeps the invariant.
LEMMA ControlExitedFine ==
  ASSUME NEW u, Ready(u), u.control # NoPid, NEW e, NEW x \in ControlExited(u, e)
  PROVE  Fine(x)
<1> DEFINE n == u.control_command
           y == service_unwatch_control_pid(u)
           v == [y EXCEPT !.control_command = n]
           w(f) == IF u.state = "reload" THEN v ELSE Blame(v, f)
           z(f) == [w(f) EXCEPT !.control_command = 0]
<1>1. PICK f : (n > 1 /\ x \in service_run_next_control(w(f))) \/ x \in ControlGone(z(f), f)
  BY Zenon DEF ControlExited
<1>2. u.state \notin NoControl
  BY NoControlState, Zenon
<1>3. Object(v)
  BY ZenonT(30) DEF service_unwatch_control_pid, Ready, Fine, Object, Fields
<1>4. /\ v.state = u.state /\ v.main = u.main /\ v.timer = u.timer /\ v.watchdog = u.watchdog
      /\ v.forbid_restart = u.forbid_restart /\ v.stopped = u.stopped /\ v.next = u.next /\ v.aborted = u.aborted
      /\ v.control = NoPid /\ v.control_command = n
  BY Zenon DEF service_unwatch_control_pid, Ready, Fine, Object, Fields
<1> HIDE DEF v
<1>5. Ready(v)
  BY <1>3, <1>4, Zenon DEF Ready, Fine, Kept, Forbidden, Settled
<1>6. Object(w(f)) /\ Like(w(f), v)
  BY <1>3, BlameLike DEF Like
<1> DEFINE wf == w(f)
           zf == [wf EXCEPT !.control_command = 0]
<1>7. Ready(wf) /\ wf.state = u.state /\ wf.control = NoPid
  BY <1>4, <1>5, <1>6, LikeFine, Zenon DEF Ready, Like
<1>8. (n > 1 /\ x \in service_run_next_control(wf)) \/ x \in ControlGone(zf, f)
  BY <1>1, Zenon
<1> HIDE DEF wf
<1>9. Object(zf)
  BY <1>7, Zenon DEF Ready, Fine, Object, Fields
<1>10. /\ zf.state = wf.state /\ zf.main = wf.main /\ zf.timer = wf.timer /\ zf.watchdog = wf.watchdog
       /\ zf.forbid_restart = wf.forbid_restart /\ zf.stopped = wf.stopped /\ zf.next = wf.next
       /\ zf.aborted = wf.aborted /\ zf.control = NoPid /\ zf.control_command = 0
  BY <1>7, Zenon DEF Ready, Fine, Object, Fields
<1> HIDE DEF zf
<1>11. Ready(zf)
  BY <1>7, <1>9, <1>10, Zenon DEF Ready, Fine, Kept, Forbidden, Settled
<1>12. CASE n > 1 /\ x \in service_run_next_control(wf)
  <2>1. wf.state # "cleaning"
    BY <1>7, <1>12 DEF Ready, Fine, Settled
  <2>2. wf.state \notin Down \cup NoControl
    BY <1>2, <1>7, <2>1, Zenon DEF Down, NoControl
  <2> QED BY <1>7, <1>12, <2>2, UpBusy, RunNextControl, ZenonT(30)
<1>13. CASE x \in ControlGone(zf, f)
  BY <1>2, <1>7, <1>10, <1>11, <1>13, ControlGoneFine, Zenon DEF NoControl
<1> QED BY <1>8, <1>12, <1>13, Zenon

-----------------------------------------------------------------------------
\* An empty control group keeps the invariant in every state.
LEMMA CgroupEmptyFine ==
  ASSUME NEW w, Ready(w), NEW x \in CgroupEmpty(w)
  PROVE  Fine(x)
<1> DEFINE v == [w EXCEPT !.pid_watch = FALSE]
<1>1. \/ x = w
      \/ /\ w.state \in {"start", "start-post", "running", "stop-post"} \cup StopSignal \cup FinalSignal
         /\ \/ x \in service_enter_stop_post(w, "protocol") \/ x \in service_enter_stop_post(w, "success")
            \/ x \in service_enter_stop_post(v, "protocol") \/ x \in service_enter_stop(v, "protocol")
            \/ x \in service_enter_running(w, "success") \/ x \in service_enter_dead(w, "success", TRUE)
  BY Zenon DEF CgroupEmpty
<1>2. Object(v) /\ Like(v, w)
  BY ZenonT(30) DEF Ready, Fine, Object, Fields, Like
<1> HIDE DEF v
<1>3. ASSUME w.state \in {"start", "start-post", "running", "stop-post"} \cup StopSignal \cup FinalSignal
      PROVE  Busy(w) /\ Busy(v)
  <2>1. w.state \notin Down
    BY <1>3, Zenon DEF Down, StopSignal, FinalSignal
  <2> QED BY <1>2, <2>1, UpBusy, LikeBusy, Zenon
<1>4. Busy(w) /\ x \in service_enter_dead(w, "success", TRUE) => Fine(x)
  BY EnterDead, Zenon DEF Busy
<1> QED BY <1>1, <1>3, <1>4, EnterStopPost, EnterStop, EnterRunning, Zenon DEF Ready

\* Recording a result keeps the invariant.
LEMMA BlameFine == ASSUME NEW w, Ready(w), NEW f PROVE Fine(Blame(w, f))
  BY BlameLike, LikeFine, Zenon DEF Ready, Fine

\* The last resort after a timeout keeps the invariant.
LEMMA KillOrFine ==
  ASSUME NEW w, Busy(w), NEW state \in Signals, NEW skip, \A y \in skip : Fine(y), NEW x \in KillOr(w, state, skip)
  PROVE  Fine(x)
  BY EnterSignal, Zenon DEF KillOr

\* TimeoutStartFailureMode= and TimeoutStopFailureMode= keep the invariant.
LEMMA FailureModeFine ==
  ASSUME NEW w, Busy(w), NEW mode, NEW term \in Signals, NEW watchdog \in Signals, NEW sigkill \in Signals,
         NEW skip, \A y \in skip : Fine(y), NEW x \in FailureMode(w, mode, term, watchdog, sigkill, skip)
  PROVE  Fine(x)
  BY EnterSignal, KillOrFine, Zenon DEF FailureMode

\* service_dispatch_timer() enters a state with a timeout of its own, or none.
LEMMA TimedOutFine ==
  ASSUME NEW w, Busy(w), ~ w.timer, w.state \notin {"dead", "failed"}, NEW x \in TimedOut(w)
  PROVE  Fine(x)
<1> DEFINE stop_post == service_enter_stop_post(w, "timeout")
           failed == service_enter_dead(w, "timeout", FALSE)
           v == [w EXCEPT !.reload_result = "timeout"]
           mode == conf.stop_failure_mode
<1>1. \/ x \in FailureMode(w, conf.start_failure_mode, "stop-sigterm", "stop-watchdog", "stop-sigkill", stop_post)
      \/ x \in FailureMode(w, mode, "stop-sigterm", "stop-watchdog", "stop-sigkill", stop_post)
      \/ x \in FailureMode(w, mode, "final-sigterm", "final-watchdog", "final-sigkill", failed)
      \/ x \in service_enter_stop(w, "timeout") \/ x \in service_enter_running(v, "success")
      \/ x \in service_enter_signal(w, "stop-watchdog", "timeout") \/ x \in service_enter_signal(w, "final-watchdog", "timeout")
      \/ x \in KillOr(w, "stop-sigkill", stop_post) \/ x \in KillOr(w, "final-sigkill", failed)
      \/ x \in stop_post \/ x \in service_enter_dead(w, "timeout", TRUE)
      \/ w.state = "auto-restart" /\ x \in service_enter_restart(w)
      \/ x \in service_enter_signal(w, "final-sigkill", "success") \/ x \in Abort(w)
  BY Zenon DEF TimedOut
<1>2. Object(v) /\ Like(v, w)
  BY ZenonT(30) DEF Busy, Object, Fields, Like
<1> HIDE DEF stop_post, failed, v, mode
<1>3. Busy(v)
  BY <1>2, LikeBusy, Zenon
<1>4. \A y \in stop_post : Fine(y)
  BY EnterStopPost, Zenon DEF stop_post
<1>5. \A y \in failed : Fine(y)
  BY EnterDead, Zenon DEF failed, Busy
<1>6. x \in service_enter_dead(w, "timeout", TRUE) => Fine(x)
  BY EnterDead, Zenon DEF Busy
<1>7. ASSUME w.state = "auto-restart", x \in service_enter_restart(w) PROVE Fine(x)
  <2>1. ~ (KeepsDown /\ w.stopped)
    BY <1>7, Zenon DEF Busy, Kept, AutoRestart
  <2>2. Settled(w)
    BY <1>7, Zenon DEF Settled, Down, NoControl, NeedsTimer, Starting, Reloading, Stopping, StopSignal, FinalSignal
  <2> QED BY <1>7, <2>1, <2>2, IdleFine, EnterRestart, Zenon
<1>8. x \in Abort(w) => Fine(x)
  <2>1. w.next[1] # "signal"
    BY DEF Busy, NoCall
  <2>2. ASSUME x \in Abort(w) PROVE Busy(x) /\ x.aborted /\ x.next[1] # "signal"
    BY <2>1, <2>2, AbortBusy, Zenon DEF Busy, NoCall
  <2> QED BY <2>2, Zenon DEF Fine, Busy
<1> QED BY <1>1, <1>3, <1>4, <1>5, <1>6, <1>7, <1>8, SignalNames, FailureModeFine, KillOrFine, EnterStop, EnterRunning, EnterSignal, ZenonT(30)

-----------------------------------------------------------------------------
\* The inductive invariant.
Inv == conf \in Configs /\ Fine(svc)

\* PID 1 is about to call a handler.
Awake == Fine(svc) /\ svc.next = NoCall /\ ~ svc.aborted

\* A handler finds a service that is fine.
LEMMA CalledReady ==
  ASSUME Awake
  PROVE  /\ Ready(Called) /\ Like(Called, svc)
         /\ Called.live = svc.live /\ Called.zombie = svc.zombie /\ Called.job = svc.job
<1>1. Object(Called) /\ Like(Called, svc)
  BY ZenonT(30) DEF Awake, Fine, Called, Object, Fields, Like
<1>2. Called.live = svc.live /\ Called.zombie = svc.zombie /\ Called.job = svc.job
  BY Zenon DEF Awake, Fine, Called, Object, Fields
<1> QED BY <1>1, <1>2, LikeFine, Zenon DEF Awake, Ready, Like

\* The calls a handler ends with keep the invariant.
LEMMA ContinueFine == ASSUME Inv, Continue PROVE Fine(svc')
<1> DEFINE w == [svc EXCEPT !.notified = <<>>, !.tick = FALSE, !.armed = FALSE]
<1>1. Object(w) /\ Like(w, svc)
  BY ZenonT(30) DEF Inv, Fine, Object, Fields, Like
<1>2. svc' \in Call(w) /\ svc.next # NoCall
  BY Zenon DEF Continue
<1> HIDE DEF w
<1> QED BY <1>1, <1>2, LikeFine, CallFine, Zenon DEF Inv, Like

\* A new job keeps the invariant.
LEMMA RequestFine == ASSUME Awake, NEW t, Request(t) PROVE Fine(svc')
<1>1. svc' = job_install(Called, service_active_state(svc.state), t)
  BY Zenon DEF Request, Step
<1> QED BY <1>1, CalledReady, JobInstallLike, LikeFine, Zenon DEF Ready, Fine

\* A canceled job keeps the invariant.
LEMMA CancelFine == ASSUME Awake, Cancel PROVE Fine(svc')
<1>1. svc' = [Called EXCEPT !.job = "none", !.run = FALSE]
  BY Zenon DEF Cancel, Step
<1> HIDE DEF Called
<1>2. Object(svc') /\ Like(svc', Called)
  BY <1>1, CalledReady, ZenonT(30) DEF Ready, Fine, Object, Fields, Like
<1> QED BY <1>2, CalledReady, LikeFine, Zenon DEF Ready

\* A job that is run keeps the invariant.
LEMMA RunJobFine == ASSUME Awake, RunJob PROVE Fine(svc')
<1> DEFINE w == [Called EXCEPT !.run = TRUE, !.perform = TRUE]
<1>1. Object(w) /\ Like(w, Called)
  BY CalledReady, ZenonT(30) DEF Ready, Fine, Object, Fields, Like
<1>2. \/ svc' \in unit_start(w) \/ svc' \in unit_reload(w) \/ svc' \in unit_stop(w)
      \/ svc' = TryAgain(w) \/ svc' = job_finish(w)
  BY Zenon DEF RunJob, Step, verify_active
<1> HIDE DEF w
<1>3. Ready(w)
  BY <1>1, CalledReady, LikeFine, Zenon DEF Ready, Like
<1> QED BY <1>2, <1>3, FinishFine, UnitStartFine, UnitReloadFine, UnitStopFine, Zenon

\* A process that forks keeps the invariant.
LEMMA ForkFine == ASSUME Awake, Fork PROVE Fine(svc')
<1>1. PICK p \in Fresh(svc), orphan \in BOOLEAN :
         svc' = [Called EXCEPT !.live = @ \cup {p}, !.foreign = IF orphan THEN @ ELSE @ \cup {p}]
  BY Zenon DEF Fork, Step
<1> HIDE DEF Called
<1>2. p \in Pids
  BY FreshPids, Zenon
<1>3. Object(svc') /\ Like(svc', Called)
  BY <1>1, <1>2, CalledReady, ZenonT(30) DEF Ready, Fine, Object, Fields, Like
<1> QED BY <1>3, CalledReady, LikeFine, Zenon DEF Ready

\* A process that ends keeps the invariant.
LEMMA ExitFine == ASSUME Awake, NEW p \in Pids, Exit(p) PROVE Fine(svc')
<1>1. PICK adopted \in SUBSET (svc.foreign \ {p}) :
         svc' = [Called EXCEPT !.live = @ \ {p},
                               !.zombie = IF p \in svc.foreign THEN @ ELSE @ \cup {p},
                               !.foreign = @ \ ({p} \cup adopted),
                               !.empty = @ \/ svc.live = {p}]
  BY Zenon DEF Exit, Step
<1> HIDE DEF Called
<1>2. svc' = [k \in Fields |-> svc'[k]]
  BY <1>1, CalledReady, Zenon DEF Ready, Fine, Object
<1>3. svc'.live \subseteq Pids /\ svc'.zombie \subseteq Pids
  BY <1>1, CalledReady, Zenon DEF Ready, Fine, Object, Fields
<1>4. Like(svc', Called)
  BY <1>1, CalledReady, Zenon DEF Ready, Fine, Object, Fields, Like
<1>5. Object(svc')
  BY <1>2, <1>3, <1>4, CalledReady, Zenon DEF Ready, Fine, Object, Like
<1> QED BY <1>4, <1>5, CalledReady, LikeFine, Zenon DEF Ready

\* A PID file that changes keeps the invariant.
LEMMA InotifyFine == ASSUME Awake, service_dispatch_inotify_io PROVE Fine(svc')
<1> DEFINE v == [Called EXCEPT !.pid_watch = FALSE]
<1>1. \/ svc' \in Abort(Called)
      \/ svc.state \in {"start", "start-post"} /\ svc' \in RetryPidFile(Called)
      \/ svc.state \in {"start", "start-post"} /\ svc' \in service_enter_signal(v, "stop-sigterm", "resources")
  BY Zenon DEF service_dispatch_inotify_io, Step
<1> HIDE DEF Called
<1>2. Object(v) /\ Like(v, Called)
  BY CalledReady, ZenonT(30) DEF Ready, Fine, Object, Fields, Like
<1> HIDE DEF v
<1>3. svc.state \in {"start", "start-post"} => Called.state \notin Down
  BY CalledReady, Zenon DEF Like, Down
<1>4. Called.state \notin Down => Busy(v)
  BY <1>2, CalledReady, UpBusy, LikeBusy, Zenon
<1> QED BY <1>1, <1>3, <1>4, CalledReady, AbortFine, RetryPidFileFine, EnterSignal, SignalNames, Zenon DEF Ready

\* A process PID 1 reaps keeps the invariant.
LEMMA SigchldFine == ASSUME Awake, NEW p \in Pids, NEW f, service_sigchld_event(p, f) PROVE Fine(svc')
<1> DEFINE w == [Called EXCEPT !.zombie = @ \ {p}]
<1>1. \/ p = w.main /\ svc' \in MainExited(w, f)
      \/ p = w.control /\ svc' \in ControlExited(w, f)
      \/ svc' = w
  BY Zenon DEF service_sigchld_event, Step
<1> HIDE DEF Called
<1>2. Object(w) /\ Like(w, Called)
  BY CalledReady, ZenonT(30) DEF Ready, Fine, Object, Fields, Like
<1> HIDE DEF w
<1>3. Ready(w)
  BY <1>2, CalledReady, LikeFine, Zenon DEF Ready, Like
<1>4. p = w.main => w.state \notin Down
  BY <1>3, PidsAssumption, Zenon DEF Ready, Fine, Settled
<1>5. p = w.control => w.control # NoPid
  BY PidsAssumption, Zenon
<1> QED BY <1>1, <1>3, <1>4, <1>5, MainExitedFine, ControlExitedFine, Zenon DEF Ready

\* The cgroup event keeps the invariant.
LEMMA CgroupEventFine == ASSUME Awake, service_notify_cgroup_empty_event PROVE Fine(svc')
<1> DEFINE w == [Called EXCEPT !.empty = FALSE]
<1>1. svc' \in CgroupEmpty(w) \/ svc' = w
  BY Zenon DEF service_notify_cgroup_empty_event, Step
<1> HIDE DEF Called
<1>2. Object(w) /\ Like(w, Called)
  BY CalledReady, ZenonT(30) DEF Ready, Fine, Object, Fields, Like
<1> HIDE DEF w
<1>3. Ready(w)
  BY <1>2, CalledReady, LikeFine, Zenon DEF Ready, Like
<1> QED BY <1>1, <1>3, CgroupEmptyFine, Zenon DEF Ready

\* The kernel running out of memory keeps the invariant.
LEMMA OomFine == ASSUME Awake, service_notify_cgroup_oom_event PROVE Fine(svc')
<1> DEFINE w == Called
           busy == Starting \cup {"stop", "exited", "running", "stop-watchdog", "stop-sigterm", "stop-post", "final-sigterm"}
<1>1. \/ svc' = w \/ svc' = Blame(w, "oom-kill")
      \/ /\ w.state \in busy
         /\ \/ svc' \in service_enter_signal(w, "stop-sigkill", "oom-kill")
            \/ svc' \in service_enter_signal(w, "stop-sigterm", "oom-kill")
            \/ svc' \in service_enter_signal(w, "final-sigkill", "oom-kill")
            \/ svc' \in service_enter_stop(w, "oom-kill")
  <2> HIDE DEF Called
  <2> QED BY Zenon DEF service_notify_cgroup_oom_event, Step
<1>2. Ready(w)
  BY CalledReady, Zenon
<1> HIDE DEF w
<1>3. w.state \in busy => w.state \notin Down
  BY Zenon DEF Starting, Down
<1>4. w.state \in busy => Busy(w)
  BY <1>2, <1>3, UpBusy, Zenon
<1> QED BY <1>1, <1>2, <1>4, BlameFine, EnterSignal, EnterStop, SignalNames, Zenon DEF Ready

\* execve() of a Type=exec service keeps the invariant.
LEMMA ExecIoFine == ASSUME Awake, service_dispatch_exec_io PROVE Fine(svc')
<1> DEFINE w == [Called EXCEPT !.exec_fd = "none"]
<1>1. \/ \E e : svc' = [Called EXCEPT !.exec_fd = e]
      \/ w.state = "start" /\ svc' \in service_enter_start_post(w)
      \/ svc' = w
  BY Zenon DEF service_dispatch_exec_io, Step
<1> HIDE DEF Called
<1>2. ASSUME NEW e, NEW x, x = [Called EXCEPT !.exec_fd = e] PROVE Ready(x)
  <2>1. Object(x) /\ Like(x, Called)
    BY <1>2, CalledReady, ZenonT(30) DEF Ready, Fine, Object, Fields, Like
  <2> QED BY <2>1, CalledReady, LikeFine, Zenon DEF Ready, Like
<1>3. Ready(w)
  BY <1>2, Zenon
<1> HIDE DEF w
<1>4. w.state = "start" => Busy(w)
  BY <1>3, UpBusy, Zenon DEF Down
<1> QED BY <1>1, <1>2, <1>3, <1>4, EnterStartPost, Zenon DEF Ready

\* A timer that elapses keeps the invariant: in a service that is down it is the
\* one of systemctl clean.
LEMMA TimerFine == ASSUME Awake, service_dispatch_timer PROVE Fine(svc')
<1> DEFINE w == [Called EXCEPT !.timer = FALSE, !.tick = TRUE]
<1>1. svc' \in TimedOut(w) /\ svc.timer
  BY Zenon DEF service_dispatch_timer, Step
<1>2. Called.timer
  BY <1>1, CalledReady, Zenon DEF Like
<1> HIDE DEF Called
<1>3. Object(w)
  BY CalledReady, ZenonT(30) DEF Ready, Fine, Object, Fields
<1>4. /\ w.state = Called.state /\ w.stopped = Called.stopped /\ w.forbid_restart = Called.forbid_restart
      /\ w.next = Called.next /\ ~ w.timer
  BY CalledReady, Zenon DEF Ready, Fine, Object, Fields
<1>5. w.state \notin {"dead", "failed"} /\ (w.state \in Down => ~ KeepsDown)
  BY <1>2, <1>4, CalledReady, Zenon DEF Ready, Fine, Settled, Down, KeepsDown
<1> HIDE DEF w
<1>6. Busy(w)
  BY <1>3, <1>4, <1>5, CalledReady, Zenon DEF Busy, Ready, Fine, Kept, Forbidden
<1> QED BY <1>1, <1>4, <1>5, <1>6, TimedOutFine, Zenon

\* A watchdog that bites keeps the invariant: a service that is down has none.
LEMMA WatchdogFine == ASSUME Awake, service_dispatch_watchdog PROVE Fine(svc')
<1> DEFINE w == [Called EXCEPT !.watchdog = FALSE]
<1>1. svc' \in service_enter_signal(w, "stop-watchdog", "watchdog") /\ svc.watchdog
  BY Zenon DEF service_dispatch_watchdog, Step
<1>2. Called.watchdog
  BY <1>1, CalledReady, Zenon DEF Like
<1> HIDE DEF Called
<1>3. Object(w)
  BY CalledReady, Zenon DEF Ready, Fine, Object, Fields
<1>4. /\ w.state = Called.state /\ w.stopped = Called.stopped /\ w.forbid_restart = Called.forbid_restart
      /\ w.next = Called.next
  BY CalledReady, Zenon DEF Ready, Fine, Object, Fields
<1>5. w.state \in Down => ~ KeepsDown
  BY <1>2, <1>4, CalledReady, Zenon DEF Ready, Fine, Settled
<1> HIDE DEF w
<1>6. Busy(w)
  BY <1>3, <1>4, <1>5, CalledReady, Zenon DEF Busy, Ready, Fine, Kept, Forbidden
<1> QED BY <1>1, <1>6, EnterSignal, SignalNames, Zenon

\* What an authorized process says keeps the invariant.
LEMMA NotifiedFine ==
  ASSUME Awake, svc.state \notin Down \/ ~ KeepsDown, NEW message, NEW fresh, svc' \in Notified(message, fresh)
  PROVE  Fine(svc')
<1> DEFINE w == Called
           says(n) == [w EXCEPT !.notify_state = n]
           watched == [w EXCEPT !.watchdog = conf.watchdog]
           heard == {"stopping", "ready", "reloading"}
<1>1. \/ \E n \in heard : svc' = says(n)
      \/ /\ w.state \in {"running", "start", "reload-notify", "reload-signal"}
         /\ \/ svc' \in service_enter_stop_by_notify(says("stopping")) \/ svc' \in service_enter_start_post(says("ready"))
            \/ svc' \in service_enter_running(says("ready"), "success")
            \/ w.state = "running" /\ svc' \in service_enter_reload_by_notify(says("reloading"))
            \/ w.state = "reload-signal" /\ svc' = service_set_state(says("reloading"), "reload-notify")
      \/ svc' = watched \/ svc' \in service_enter_signal(w, "stop-watchdog", "watchdog")
  BY Zenon DEF Notified
<1>2. Ready(w) /\ w.state = svc.state
  BY CalledReady, Zenon DEF Like
<1> HIDE DEF w
<1>3. ASSUME NEW n PROVE Ready(says(n)) /\ says(n).state = w.state /\ says(n).control = w.control
  <2> DEFINE x == says(n)
  <2>1. Object(x) /\ Like(x, w)
    BY <1>2, ZenonT(30) DEF Ready, Fine, Object, Fields, Like
  <2> HIDE DEF x
  <2>2. Ready(x) /\ x.state = w.state /\ x.control = w.control
    BY <1>2, <2>1, LikeFine, Zenon DEF Ready, Like
  <2> QED BY <2>2, Zenon DEF x
<1> HIDE DEF says
<1>4. w.state \in {"running", "start", "reload-notify", "reload-signal"} => \A n : Busy(says(n))
  BY <1>3, UpBusy, Zenon DEF Down
<1>5. w.state = "running" => says("reloading").control = NoPid
  BY <1>2, <1>3, NoControlState, Zenon DEF NoControl
<1>6. w.state = "reload-signal" => Fine(service_set_state(says("reloading"), "reload-notify"))
  BY <1>2, <1>3, NoControlState, ReloadNotifyFine, Zenon DEF NoControl, Reloading
<1>7. Busy(w)
  BY <1>2, ReadyBusy, Zenon DEF Forbidden
<1>8. Fine(watched)
  <2>1. Object(watched) /\ Alike(watched, w) /\ watched.main = w.main
    BY <1>2, ZenonT(30) DEF Ready, Fine, Object, Fields, Alike
  <2> HIDE DEF watched
  <2> QED BY <1>2, <2>1, Zenon DEF Ready, Fine, Alike, Kept, Forbidden, Settled
<1>9. \A n : Fine(says(n))
  BY <1>3, Zenon DEF Ready
<1> HIDE DEF watched
<1> QED BY <1>1, <1>4, <1>5, <1>6, <1>7, <1>8, <1>9, SignalNames, EnterStopByNotify, EnterStartPost, EnterRunning, EnterReloadByNotify, EnterSignal, ZenonT(30)

\* The notify socket keeps the invariant: with NotifyAccess=main nobody speaks for
\* a service that is down.
LEMMA MessageFine == ASSUME Awake, service_notify_message PROVE Fine(svc')
<1>1. PICK p \in svc.live \cup svc.zombie :
         /\ service_notify_message_authorized(p)
         /\ \/ \E message, fresh : svc' \in Notified(message, fresh)
            \/ \E q \in svc.live : svc' = NewMain(q)
  BY Zenon DEF service_notify_message, Step
<1>2. svc.state \notin Down \/ ~ KeepsDown
  <2>1. p \in Pids
    BY Zenon DEF Awake, Fine, Object
  <2>2. KeepsDown => svc.main # NoPid
    BY <1>1, <2>1, PidsAssumption, Zenon DEF service_notify_message_authorized, KeepsDown
  <2> QED BY <2>2, Zenon DEF Awake, Fine, Settled
<1>3. ASSUME NEW q, svc' = NewMain(q) PROVE Fine(svc')
  <2>1. \/ svc' = Called
        \/ svc.state \notin Down /\ svc' = service_set_main_pidref(Called, q)
    BY <1>3, Zenon DEF NewMain, Reloading, Down
  <2>2. Called.state = svc.state /\ Ready(Called)
    BY CalledReady, Zenon DEF Like
  <2> HIDE DEF Called
  <2> QED BY <2>1, <2>2, SetMainPid, AlikeReady DEF Ready, Fine
<1> QED BY <1>1, <1>2, <1>3, NotifiedFine, Zenon

\* A bus name that changes hands keeps the invariant.
LEMMA BusNameFine == ASSUME Awake, service_bus_name_owner_change PROVE Fine(svc')
<1> DEFINE w == [Called EXCEPT !.bus_name_good = ~ @]
<1>1. \/ w.state = "running" /\ svc' \in service_enter_running(w, "success")
      \/ w.state = "start" /\ svc' \in service_enter_start_post(w)
      \/ svc' = w
  BY Zenon DEF service_bus_name_owner_change, Step
<1> HIDE DEF Called
<1>2. Object(w) /\ Like(w, Called)
  BY CalledReady, ZenonT(30) DEF Ready, Fine, Object, Fields, Like
<1> HIDE DEF w
<1>3. Ready(w)
  BY <1>2, CalledReady, LikeFine, Zenon DEF Ready, Like
<1>4. w.state \in {"running", "start"} => Busy(w)
  BY <1>3, UpBusy, Zenon DEF Down
<1> QED BY <1>1, <1>3, <1>4, EnterRunning, EnterStartPost, Zenon DEF Ready

\* systemctl reset-failed keeps the invariant.
LEMMA ResetFailedFine == ASSUME Awake, service_reset_failed PROVE Fine(svc')
<1> DEFINE w == IF svc.state = "failed" THEN service_set_state(Called, "dead") ELSE Called
<1>1. svc' = [w EXCEPT !.result = "success", !.reload_result = "success"]
  BY Zenon DEF service_reset_failed, Step
<1>2. Fine(w)
  BY CalledReady, DeadFine, Zenon DEF Ready, Fine
<1> HIDE DEF w
<1>3. Object(svc') /\ Like(svc', w)
  BY <1>1, <1>2, ZenonT(30) DEF Fine, Object, Fields, Like
<1> QED BY <1>2, <1>3, LikeFine, Zenon

\* A control process of a service that is down.
LEMMA SpawnControlObject ==
  ASSUME NEW w, Object(w), w.next = NoCall, NEW n, NEW finite, NEW x \in SpawnControl(w, n, finite)
  PROVE  /\ Object(x) /\ x.next = NoCall
         /\ x.aborted \/ (x.timer = finite /\ x.control_command = n)
<1>1. CASE x \in Abort(w)
  <2>1. x = [w EXCEPT !.aborted = TRUE]
    BY <1>1, Zenon DEF Abort
  <2> QED BY <2>1, ZenonT(30) DEF Object, Fields
<1>2. ASSUME NEW p \in Fresh(w), x = [Spawn(w, p, finite) EXCEPT !.control = p, !.control_command = n]
      PROVE  /\ Object(x) /\ x.next = NoCall
             /\ x.timer = finite /\ x.control_command = n
  <2> DEFINE v == Spawn(w, p, finite)
  <2>1. Object(v) /\ v.next = NoCall /\ v.timer = finite
    BY FreshPids, ZenonT(30) DEF Spawn, Object, Fields
  <2>2. x = [v EXCEPT !.control = p, !.control_command = n]
    BY <1>2, Zenon
  <2> HIDE DEF v
  <2> QED BY <2>1, <2>2, ZenonT(30) DEF Object, Fields
<1> QED BY <1>1, <1>2, Zenon DEF SpawnControl

\* systemctl clean keeps the invariant.
LEMMA CleanFine == ASSUME Awake, service_clean PROVE Fine(svc')
<1>1. PICK y \in SpawnControl(Called, 0, conf.timeout_clean) : svc' = service_set_state(y, "cleaning")
  BY Zenon DEF service_clean, Step
<1>2. Object(y) /\ y.next = NoCall /\ (y.aborted \/ (y.timer = conf.timeout_clean /\ y.control_command = 0))
  BY CalledReady, SpawnControlObject DEF Ready, Fine
<1>3. /\ Object(svc') /\ svc'.state = "cleaning" /\ svc'.next = NoCall /\ svc'.aborted = y.aborted
      /\ svc'.main = NoPid /\ ~ svc'.watchdog /\ svc'.control_command = y.control_command
      /\ svc'.timer => y.timer
      /\ y.timer => svc'.timer
  BY <1>1, <1>2, SetState DEF WithMain, WithControl, Watched, Timed, Starting, Reloading, Stopping, StopSignal, FinalSignal
<1>4. Kept(svc') /\ svc'.state \in Down /\ svc'.next[1] # "signal"
  BY <1>3 DEF Kept, AutoRestart, Down, NoCall
<1>5. ASSUME ~ svc'.aborted PROVE Settled(svc')
  BY <1>2, <1>3, <1>5, Zenon DEF Settled, NoControl, NeedsTimer, Starting, Reloading, Stopping, StopSignal, FinalSignal
<1> QED BY <1>3, <1>4, <1>5, Zenon DEF Fine

\* daemon-reload keeps the invariant: service_coldplug_timeout() arms whatever timer
\* the state needs.
LEMMA ReloadFine == ASSUME Awake, Reload PROVE Fine(svc')
<1> DEFINE w == Called
<1>1. svc' = [w EXCEPT !.timer = ColdplugTimeout,
                       !.watchdog = conf.watchdog /\ svc.state \in Watched,
                       !.main = IF svc.main_known THEN @ ELSE NoPid,
                       !.main_alien = svc.main # NoPid /\ svc.main \notin (svc.live \ svc.foreign) \cup svc.zombie,
                       !.exec_fd = IF @ = "hot" THEN "forgotten" ELSE @,
                       !.notify_state = "unknown",
                       !.pid_watch = FALSE]
  BY Zenon DEF Reload, Step
<1>2. Ready(w) /\ w.state = svc.state
  BY CalledReady, Zenon DEF Like
<1> HIDE DEF w
<1>3. Object(svc')
  BY <1>1, <1>2, ZenonT(30) DEF Ready, Fine, Object, Fields
<1>4. /\ svc'.state = w.state /\ svc'.control = w.control /\ svc'.control_command = w.control_command
      /\ svc'.forbid_restart = w.forbid_restart /\ svc'.stopped = w.stopped
      /\ svc'.next = w.next /\ svc'.aborted = w.aborted
      /\ svc'.timer <=> ColdplugTimeout
      /\ svc'.watchdog => w.state \in Watched
      /\ svc'.main = w.main \/ svc'.main = NoPid
  BY <1>1, <1>2, Zenon DEF Ready, Fine, Object, Fields
<1>5. w.state \in Down => w.state \notin Watched
  BY Zenon DEF Down, Watched, Reloading
<1>6. w.state \in Down /\ ColdplugTimeout => w.state = "cleaning" /\ conf.timeout_clean
  BY <1>2, Zenon DEF ColdplugTimeout, Down, Starting, Reloading, Stopping, StopSignal, FinalSignal
<1>7. NeedsTimer(w.state) => ColdplugTimeout
  BY <1>2, Zenon DEF NeedsTimer, ColdplugTimeout
<1>8. Settled(svc')
  BY <1>2, <1>4, <1>5, <1>6, <1>7, Zenon DEF Ready, Fine, Settled
<1> QED BY <1>2, <1>3, <1>4, <1>8, Zenon DEF Ready, Fine, Kept, Forbidden

-----------------------------------------------------------------------------
\* The invariant holds of a unit that was just loaded,
LEMMA InitInv == Init => Inv
<1> SUFFICES ASSUME Init PROVE Inv
  BY Zenon
<1>1. Object(svc)
  <2>1. svc = [k \in Fields |-> svc[k]]
    BY Zenon DEF Init, Fields
  <2>2. svc.live = {} /\ svc.zombie = {} /\ svc.main_command = 0
    BY Zenon DEF Init
  <2>3. conf.commands["start"] \in Nat
    BY ConfigsAssumption, Zenon DEF Init, Commands
  <2> QED BY <2>1, <2>2, <2>3 DEF Object
<1>2. Settled(svc) /\ Kept(svc) /\ svc.state \in Down /\ svc.next = NoCall
  BY Zenon DEF Init, Settled, Kept, Down, AutoRestart, NeedsTimer, Starting, Reloading, Stopping, StopSignal, FinalSignal
<1> QED BY <1>1, <1>2, Zenon DEF Init, Inv, Fine, NoCall

\* and every handler keeps it.
LEMMA NextInv == Inv /\ [Next]_vars => Inv'
<1> SUFFICES ASSUME Inv, [Next]_vars PROVE Inv'
  BY ZenonT(30)
<1>1. CASE UNCHANGED vars
  <2>1. svc' = svc /\ conf' = conf
    BY <1>1, Zenon DEF vars
  <2> QED BY <2>1 DEF Inv, Fine, Object, Kept, Forbidden, Settled, KeepsDown, OneTimeout, NeedsTimer, StopTimeout
<1>2. CASE Next
  <2>1. conf' = conf
    BY <1>2, ZenonT(30) DEF Next, Dispatch, Continue, Step, RunJob, service_sigchld_event, service_notify_cgroup_empty_event,
                service_dispatch_timer, Cancel, Request, Fork, Exit, service_dispatch_inotify_io,
                service_dispatch_exec_io, service_dispatch_watchdog, service_notify_message,
                service_bus_name_owner_change, service_notify_cgroup_oom_event, service_reset_failed,
                service_clean, Reload
  <2>2. Continue \/ Awake
    BY <1>2, ZenonT(30) DEF Inv, Awake, Next, Dispatch, Step, RunJob, service_sigchld_event, service_notify_cgroup_empty_event,
                service_dispatch_timer, Cancel, Request, Fork, Exit, service_dispatch_inotify_io,
                service_dispatch_exec_io, service_dispatch_watchdog, service_notify_message,
                service_bus_name_owner_change, service_notify_cgroup_oom_event, service_reset_failed,
                service_clean, Reload
  <2>3. Fine(svc')
    BY <1>2, <2>2, SMTT(30), ContinueFine, RunJobFine, SigchldFine, CgroupEventFine, TimerFine, CancelFine, RequestFine,
       ForkFine, ExitFine, InotifyFine, ExecIoFine, WatchdogFine, MessageFine, BusNameFine, OomFine,
       ResetFailedFine, CleanFine, ReloadFine DEF Next, Dispatch
  <2>4. Fine(svc)'
    BY <2>1, <2>3, ZenonT(30) DEF Fine, Object, Kept, Forbidden, Settled, KeepsDown, OneTimeout, NeedsTimer, StopTimeout
  <2> QED BY <2>1, <2>4, Zenon DEF Inv
<1> QED BY <1>1, <1>2, Zenon

\* What systemctl stop took down stays down (StopSticks), however service_stop()
\* interleaves with processes that exit, timers that elapse, failing forks and
\* daemon-reloads, if systemctl clean has no timeout and only the main process
\* may send notifications.
THEOREM StopSticksAlways == Spec => [](KeepsDown => StopSticks)
<1>1. Inv => (KeepsDown => StopSticks)
  BY ZenonT(30) DEF Inv, Fine, Kept, StopSticks
<1> QED BY InitInv, NextInv, <1>1, PTL DEF Spec

\* A service that is starting, reloading or stopping has its timeout armed
\* (TimeoutArmed) through every chain of service_enter_*() calls, failures and
\* daemon-reloads, unless it is a oneshot service with several commands and only
\* TimeoutStopSec=, or one with only TimeoutAbortSec=.
THEOREM TimeoutArmedAlways == Spec => [](OneTimeout => TimeoutArmed)
<1>1. Inv => (OneTimeout => TimeoutArmed)
  BY Zenon DEF Inv, Fine, Settled, NeedsTimer, TimeoutArmed, Idle
<1> QED BY InitInv, NextInv, <1>1, PTL DEF Spec

=============================================================================
