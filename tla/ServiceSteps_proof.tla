------------------------- MODULE ServiceSteps_proof -------------------------
(***************************************************************************)
(* What the service_enter_*() functions keep true of a service's           *)
(* processes, watchdog and job, and of the order in which they call each   *)
(* other.  Sound(w) is inductive: what is left of former states is cleaned *)
(* up when PID 1 waits (Rests), and a function is only called on objects   *)
(* it can handle (Goes).  Good(x, w, S, O) is what each function does:     *)
(* called on w it ends with the service's job told of a state in S, or     *)
(* with a call of a function in O.                                         *)
(*                                                                         *)
(* The handlers of events come second: each keeps Sound(svc) and tells the *)
(* job nothing, or of one state or two (Fares).                            *)
(***************************************************************************)
EXTENDS Service, ServiceObject, TLAPS

\* Unit files under which no assertion can fail: Type=idle counts as active while
\* it starts, and service_reload() does not expect that; a failing kill, and a
\* service_spawn() that fails with the process forked, lead from a Type=exec
\* process that has yet to execve() to ExecStopPost=.
Supported ==
    /\ conf.type = "idle" => conf.commands["reload"] = 0
    /\ conf.type = "exec" => conf.commands["stop-post"] = 0

\* Unit files whose service is watched while it is up: a PID file that turns up
\* late ends the start without service_enter_start_post().
Watchable ==
    /\ conf.watchdog /\ ~ conf.remain_after_exit
    /\ conf.type = "forking" /\ conf.pid_file => conf.commands["start-post"] > 0

\* The fields have their types.
Typed(w) ==
    /\ Object(w) /\ \A k \in Commands : conf.commands[k] \in Nat
    /\ w.result \in ServiceResult /\ w.reload_result \in ServiceResult
    /\ w.main \in Pids \cup {NoPid} /\ w.control \in Pids \cup {NoPid} /\ w.foreign \subseteq w.live
    /\ 0 <= w.main_command /\ w.control_command \in Nat
    /\ w.job \in MergingTypes \cup {"none"} /\ w.exec_fd \in {"none", "cold", "hot", "forgotten"}
    /\ w.notify_state \in {"unknown", "ready", "reloading", "stopping"}
    /\ w.main # NoPid => w.main_known

\* The object between two calls.
Calm(w) ==
    /\ Typed(w) /\ w.state \in ServiceState \ BeforeRestart /\ w.next = NoCall
    /\ w.exec_fd # "none" => conf.type = "exec"
    /\ w.aborted => ~ Supported

\* The object while PID 1 waits: what is left of former states was cleaned up.
Rests(w) ==
    /\ w.main # NoPid => w.state \in WithMain
    /\ w.control # NoPid => w.state \in WithControl
    /\ w.timer => w.state \in Timed
    /\ w.pid_watch => /\ w.state \in {"start", "start-post"} /\ w.control = NoPid /\ w.exec_fd = "none"
                      /\ Watchable => w.state = "start-post"
    /\ w.exec_fd # "none" => w.state = "start" /\ w.control = NoPid
    /\ w.state = "exited" => conf.remain_after_exit
    /\ Watchable /\ w.state \in Watched => w.watchdog

\* The calls of service_enter_*() functions, and those that take a service down.
Takedown == {"signal", "stop-post", "dead"}
Onward == Takedown \cup {"stop", "running", "start-post", "start", "start-pre"}

\* The object with such a call to make.
Goes(w) ==
    /\ w.next[1] \in Onward /\ w.next[2] \in ServiceResult
    /\ w.next[1] = "signal" => w.next[3] \in Signals
    /\ w.exec_fd # "none" => w.next[1] \in Takedown
    /\ Watchable /\ w.next[1] = "running" => w.watchdog

\* The inductive invariant.
Sound(w) ==
    /\ Typed(w) /\ w.state \in ServiceState \ BeforeRestart
    /\ w.exec_fd # "none" => conf.type = "exec"
    /\ w.aborted => ~ Supported
    /\ w.aborted \/ IF w.next = NoCall THEN Rests(w) ELSE Goes(w)

\* The unit's job has heard nothing of what happened between w and x.
Same(x, w) ==
    /\ x.state = w.state /\ x.job = w.job /\ x.run = w.run /\ x.notified = w.notified /\ x.perform = w.perform
    /\ x.notify_state = w.notify_state /\ x.forbid_restart = w.forbid_restart

\* Neither do the next steps depend on it.
Keeps(x, w) ==
    /\ Same(x, w) /\ x.next = w.next /\ x.aborted = w.aborted
    /\ x.watchdog = w.watchdog /\ x.exec_fd = w.exec_fd /\ x.pid_watch = w.pid_watch

\* The processes are the same.
Group(x, w) ==
    /\ x.main = w.main /\ x.main_known = w.main_known /\ x.main_alien = w.main_alien
    /\ x.live = w.live /\ x.bus_name_good = w.bus_name_good

\* A process ID the kernel picks is one.
LEMMA FreshPids == ASSUME NEW w PROVE Fresh(w) \subseteq Pids
  BY DEF Fresh

\* The signals by name.
LEMMA SignalNames ==
  /\ {"stop-watchdog", "stop-sigterm", "stop-sigkill"} \subseteq Signals
  /\ {"final-watchdog", "final-sigterm", "final-sigkill"} \subseteq Signals
  BY DEF Signals, StopSignal, FinalSignal

\* Recording a result.
LEMMA BlameCalm ==
  ASSUME NEW w, Calm(w), NEW f \in ServiceResult
  PROVE  LET x == Blame(w, f) IN Calm(x) /\ Keeps(x, w) /\ Group(x, w) /\ x.control = w.control /\ x.timer = w.timer
  BY DEF Blame, Calm, Typed, Object, Fields, Keeps, Same, Group

\* Forgetting the control process.
LEMMA UnwatchCalm ==
  ASSUME NEW w, Calm(w)
  PROVE  LET x == service_unwatch_control_pid(w)
         IN Calm(x) /\ Keeps(x, w) /\ Group(x, w) /\ x.control = NoPid /\ x.result = w.result
  BY ZenonT(30) DEF service_unwatch_control_pid, Calm, Typed, Object, Fields, Keeps, Same, Group

\* Setting the timer.
LEMMA ArmCalm ==
  ASSUME NEW w, Calm(w), NEW finite
  PROVE  LET x == service_arm_timer(w, finite)
         IN Calm(x) /\ Keeps(x, w) /\ Group(x, w) /\ x.control = w.control
  BY ZenonT(30) DEF service_arm_timer, Calm, Typed, Object, Fields, Keeps, Same, Group

\* A failing assertion, which is one more than Supported unit files have.
LEMMA AbortCalm == ASSUME NEW w, Calm(w), ~ Supported, NEW x \in Abort(w) PROVE Calm(x) /\ x.aborted
<1>1. x = [w EXCEPT !.aborted = TRUE]
  BY Zenon DEF Abort
<1> QED BY <1>1, ZenonT(30) DEF Calm, Typed, Object, Fields

\* A process of its own.
LEMMA SpawnCalm ==
  ASSUME NEW w, Calm(w), NEW p \in Pids, NEW finite
  PROVE  LET x == Spawn(w, p, finite) IN Calm(x) /\ Keeps(x, w) /\ x.control = w.control
  BY ZenonT(30) DEF Spawn, Calm, Typed, Object, Fields, Keeps, Same

\* A spawn that fails, perhaps leaving a process behind.
LEMMA SpawnFailsCalm ==
  ASSUME NEW w, Calm(w), NEW finite, NEW x \in SpawnFails(w, finite)
  PROVE  Calm(x) /\ Keeps(x, w) /\ x.control = w.control
<1>1. CASE x = w
  BY <1>1, Zenon DEF Keeps, Same
<1>2. CASE x = service_arm_timer(w, finite)
  BY <1>2, ArmCalm, Zenon
<1>3. CASE x \in {Spawn(w, p, finite) : p \in Fresh(w)}
  BY <1>3, SpawnCalm, FreshPids, ZenonT(30)
<1> QED BY <1>1, <1>2, <1>3, Zenon DEF SpawnFails

\* ... and a pipe to it.
LEMMA SpawnMainFailsCalm ==
  ASSUME NEW w, Calm(w), NEW finite, NEW x \in SpawnMainFails(w, finite)
  PROVE  Calm(x) /\ Same(x, w)
<1>1. CASE x = w
  BY <1>1, Zenon DEF Same
<1>2. CASE x = service_arm_timer(w, finite)
  BY <1>2, ArmCalm, Zenon DEF Keeps
<1>3. ASSUME NEW p \in Fresh(w), x = [Spawn(w, p, finite) EXCEPT !.exec_fd = MainPipe] PROVE Calm(x) /\ Same(x, w)
  <2> DEFINE v == Spawn(w, p, finite)
  <2>1. Calm(v) /\ Same(v, w)
    BY SpawnCalm, FreshPids, Zenon DEF Keeps
  <2>2. x = [v EXCEPT !.exec_fd = MainPipe]
    BY <1>3, Zenon
  <2>3. MainPipe \in {"none", "cold"} /\ (MainPipe # "none" => conf.type = "exec")
    BY Zenon DEF MainPipe
  <2> HIDE DEF v
  <2>4. Calm(x) /\ Same(x, v)
    BY <2>1, <2>2, <2>3, ZenonT(30) DEF Calm, Typed, Object, Fields, Same
  <2> QED BY <2>1, <2>4, Zenon DEF Same
<1> QED BY <1>1, <1>2, <1>3, Zenon DEF SpawnMainFails

\* A control process: there must not be a Type=exec main process that is on its
\* way to execve().
LEMMA SpawnControlCalm ==
  ASSUME NEW w, Calm(w), w.exec_fd = "none" \/ ~ Supported, NEW n \in Nat, NEW finite,
         NEW x \in SpawnControl(w, n, finite)
  PROVE  Calm(x) /\ (x.aborted \/ Keeps(x, w))
<1>1. CASE x \in Abort(w) /\ w.exec_fd # "none"
  BY <1>1, AbortCalm, Zenon
<1>2. ASSUME NEW p \in Fresh(w), x = [Spawn(w, p, finite) EXCEPT !.control = p, !.control_command = n]
      PROVE  Calm(x) /\ Keeps(x, w)
  <2> DEFINE v == Spawn(w, p, finite)
  <2>1. Calm(v) /\ Keeps(v, w) /\ p \in Pids
    BY SpawnCalm, FreshPids, Zenon
  <2>2. x = [v EXCEPT !.control = p, !.control_command = n]
    BY <1>2, Zenon
  <2> HIDE DEF v
  <2>3. Calm(x) /\ Keeps(x, v)
    BY <2>1, <2>2, ZenonT(30) DEF Calm, Typed, Object, Fields, Keeps, Same
  <2> QED BY <2>1, <2>3, Zenon DEF Keeps, Same
<1> QED BY <1>1, <1>2, Zenon DEF SpawnControl

\* A main process.
LEMMA SpawnMainCalm ==
  ASSUME NEW w, Calm(w), w.exec_fd = "none", NEW n \in Nat, n <= conf.commands["start"], NEW finite,
         NEW x \in SpawnMain(w, n, finite)
  PROVE  /\ Calm(x) /\ Same(x, w) /\ x.next = w.next /\ x.aborted = w.aborted
         /\ x.watchdog = w.watchdog /\ x.control = w.control /\ x.pid_watch = w.pid_watch
         /\ x.exec_fd # "none" => conf.type = "exec"
<1>1. PICK p \in Fresh(w) :
         x = [service_set_main_pidref(Spawn(w, p, finite), p) EXCEPT
                !.main_command = n, !.exec_fd = MainPipe]
  BY Zenon DEF SpawnMain
<1> DEFINE v == Spawn(w, p, finite)
           z == service_set_main_pidref(v, p)
<1>2. Calm(v) /\ Keeps(v, w) /\ p \in Pids
  BY SpawnCalm, FreshPids, Zenon
<1>3. v.control = w.control
  BY Zenon DEF Spawn, Calm, Typed, Object, Fields
<1> HIDE DEF v
<1>4. Calm(z) /\ Keeps(z, v) /\ z.control = v.control
  <2>1. CASE z = v
    BY <1>2, <2>1, Zenon DEF Keeps, Same
  <2>2. CASE z = [v EXCEPT !.main = p, !.main_known = TRUE, !.main_alien = p \in v.foreign]
    <3>1. Object(v)
      BY <1>2, Zenon DEF Calm, Typed
    <3>2. Object(z)
      BY <2>2, <3>1, ZenonT(30) DEF Object, Fields
    <3>3. z.main = p /\ z.main_known /\ Keeps(z, v) /\ z.control = v.control
      BY <2>2, <3>1 DEF Object, Fields, Keeps, Same
    <3>4. /\ z.result = v.result /\ z.reload_result = v.reload_result /\ z.foreign = v.foreign /\ z.live = v.live
          /\ z.main_command = v.main_command /\ z.control_command = v.control_command
      BY <2>2, <3>1 DEF Object, Fields
    <3> QED BY <1>2, <3>2, <3>3, <3>4, ZenonT(30) DEF Calm, Typed, Keeps, Same
  <2> QED BY <2>1, <2>2, Zenon DEF service_set_main_pidref
<1>5. x = [z EXCEPT !.main_command = n, !.exec_fd = MainPipe]
  BY <1>1, Zenon DEF v
<1> HIDE DEF z
<1> DEFINE fd == MainPipe
<1>6. Typed(x)
  <2>1. fd \in {"none", "cold"} /\ x = [z EXCEPT !.main_command = n, !.exec_fd = fd]
    BY <1>5, Zenon DEF MainPipe
  <2> HIDE DEF fd
  <2>2. Object(z)
    BY <1>4, Zenon DEF Calm, Typed
  <2>3. x.main_command = n /\ x.exec_fd = fd /\ x = [k \in Fields |-> x[k]]
    BY <2>1, <2>2, ZenonT(30) DEF Object, Fields
  <2>4. /\ x.result = z.result /\ x.reload_result = z.reload_result /\ x.foreign = z.foreign /\ x.live = z.live
        /\ x.control_command = z.control_command /\ x.main = z.main /\ x.main_known = z.main_known
        /\ x.control = z.control /\ x.job = z.job /\ x.notify_state = z.notify_state /\ x.zombie = z.zombie
    BY <2>1, <2>2, Zenon DEF Object, Fields
  <2>5. Object(x) /\ 0 <= x.main_command
    BY <2>2, <2>3, <2>4 DEF Object
  <2> QED BY <1>4, <2>1, <2>3, <2>4, <2>5, ZenonT(30) DEF Calm, Typed
<1>7. /\ Same(x, z) /\ x.next = z.next /\ x.aborted = z.aborted
      /\ x.watchdog = z.watchdog /\ x.control = z.control /\ x.pid_watch = z.pid_watch
      /\ x.exec_fd # "none" => conf.type = "exec"
  BY <1>4, <1>5, Zenon DEF Calm, Typed, Object, Fields, Same, MainPipe
<1>8. Calm(x)
  BY <1>4, <1>6, <1>7, Zenon DEF Calm, Same
<1> QED BY <1>2, <1>3, <1>4, <1>7, <1>8, Zenon DEF Keeps, Same

\* The call a function ends with.
LEMMA ThenSound ==
  ASSUME NEW w, Calm(w), NEW op \in Onward, NEW f \in ServiceResult, NEW to,
         op = "signal" => to \in Signals, w.exec_fd # "none" => w.aborted \/ op \in Takedown,
         Watchable /\ op = "running" => w.aborted \/ w.watchdog,
         NEW x \in Then(w, op, f, to)
  PROVE  Sound(x) /\ Same(x, w) /\ x.aborted = w.aborted /\ x.next # NoCall /\ x.next[1] = op
<1>1. x = [w EXCEPT !.next = <<op, f, to>>]
  BY Zenon DEF Then
<1>2. x.next = <<op, f, to>>
  BY <1>1, Zenon DEF Calm, Typed, Object, Fields
<1>3. x.next # NoCall /\ x.next[1] = op /\ x.next[2] = f /\ x.next[3] = to
  BY <1>2 DEF NoCall, Onward, Takedown
<1>4. Typed(x) /\ Same(x, w) /\ x.aborted = w.aborted /\ x.exec_fd = w.exec_fd /\ x.watchdog = w.watchdog
  BY <1>1 DEF Calm, Typed, Object, Fields, Same
<1> QED BY <1>3, <1>4, Zenon DEF Sound, Calm, Goes, Same

\* The job of a unit and whether it is running, and what may be left of it when
\* the unit reports ns.
Job(w) == <<w.job, w.run>>
Left(j, ns) ==
    {LET outcome == unit_process_job(j[1], j[2], ns, ok)
     IN IF outcome = "none" THEN j
        ELSE <<IF outcome = "done" /\ j[1] = "restart" THEN "start" ELSE "none", FALSE>>
     : ok \in BOOLEAN}

\* x is w after a report of state s.
Reports(x, w, s) ==
    /\ x.state = s /\ x.perform = FALSE
    /\ x.notified = Append(w.notified, service_active_state(s))
    /\ Job(x) \in Left(Job(w), service_active_state(s))

\* unit_notify() reports, and changes nothing but the job.
LEMMA NotifyReports ==
  ASSUME NEW w, Object(w), NEW ns
  PROVE  LET x == unit_notify(w, ns)
         IN /\ Object(x) /\ \A k \in Fields \ {"job", "run", "notified"} : x[k] = w[k]
            /\ x.notified = Append(w.notified, ns)
            /\ Job(x) \in Left(Job(w), ns)
            /\ x.job \in {w.job, "start", "none"}
<1> DEFINE ok == w.reload_result = "success"
           outcome == unit_process_job(w.job, w.run, ns, ok)
           u == [w EXCEPT !.notified = Append(@, ns)]
           x == unit_notify(w, ns)
<1>1. x = IF outcome = "none" THEN u
          ELSE IF outcome = "done" THEN job_finish(u) ELSE [u EXCEPT !.job = "none", !.run = FALSE]
  BY Zenon DEF unit_notify
<1>2. /\ u = [k \in Fields |-> u[k]] /\ \A k \in Fields \ {"notified"} : u[k] = w[k]
      /\ u.notified = Append(w.notified, ns)
  BY Zenon DEF Object, Fields
<1>3. Job(u) = Job(w) /\ u.job = w.job
  BY <1>2, Zenon DEF Job, Fields
<1>4. ok \in BOOLEAN /\ outcome = unit_process_job(Job(w)[1], Job(w)[2], ns, ok)
  BY Zenon DEF Job
<1> HIDE DEF u, ok, outcome, x
<1>5. /\ x = [k \in Fields |-> x[k]] /\ \A k \in Fields \ {"job", "run", "notified"} : x[k] = w[k]
      /\ x.notified = Append(w.notified, ns)
      /\ Job(x) = IF outcome = "none" THEN Job(w)
                  ELSE <<IF outcome = "done" /\ w.job = "restart" THEN "start" ELSE "none", FALSE>>
      /\ x.job \in {w.job, "start", "none"}
  <2>1. CASE outcome = "none"
    BY <1>1, <1>2, <1>3, <2>1, Zenon
  <2>2. ASSUME NEW t, x = [u EXCEPT !.job = t, !.run = FALSE]
        PROVE  /\ x = [k \in Fields |-> x[k]] /\ \A k \in Fields \ {"job", "run"} : x[k] = u[k]
               /\ x.job = t /\ x.run = FALSE /\ x.notified = u.notified
    BY <1>2, <2>2, ZenonT(30) DEF Fields
  <2>3. CASE outcome = "done"
    <3>1. x = [u EXCEPT !.job = IF u.job = "restart" THEN "start" ELSE "none", !.run = FALSE]
      BY <1>1, <1>2, <2>3, Zenon DEF job_finish, Fields
    <3>2. /\ x = [k \in Fields |-> x[k]] /\ \A k \in Fields \ {"job", "run"} : x[k] = u[k]
          /\ x.job = (IF w.job = "restart" THEN "start" ELSE "none") /\ x.run = FALSE /\ x.notified = u.notified
      BY <1>3, <2>2, <3>1, Zenon
    <3>3. Job(x) = <<IF w.job = "restart" THEN "start" ELSE "none", FALSE>>
      BY <3>2, Zenon DEF Job
    <3> QED BY <1>2, <2>3, <3>2, <3>3, Zenon
  <2>4. CASE outcome \notin {"none", "done"}
    <3>1. x = [u EXCEPT !.job = "none", !.run = FALSE]
      BY <1>1, <2>4, Zenon
    <3>2. /\ x = [k \in Fields |-> x[k]] /\ \A k \in Fields \ {"job", "run"} : x[k] = u[k]
          /\ x.job = "none" /\ x.run = FALSE /\ x.notified = u.notified
      BY <2>2, <3>1, Zenon
    <3>3. Job(x) = <<"none", FALSE>>
      BY <3>2, Zenon DEF Job
    <3> QED BY <1>2, <2>4, <3>2, <3>3, Zenon
  <2> QED BY <2>1, <2>3, <2>4, Zenon
<1>6. Object(x)
  <2>1. x.live = w.live /\ x.zombie = w.zombie /\ x.main_command = w.main_command
    BY <1>5, Zenon DEF Fields
  <2> QED BY <1>5, <2>1, Zenon DEF Object
<1>7. Job(x) \in Left(Job(w), ns)
  <2> DEFINE j == Job(w)
             left(r) == LET o == unit_process_job(j[1], j[2], ns, r)
                        IN IF o = "none" THEN j
                           ELSE <<IF o = "done" /\ j[1] = "restart" THEN "start" ELSE "none", FALSE>>
  <2>1. j[1] = w.job
    BY Zenon DEF Job
  <2>2. Job(x) = left(ok)
    BY <1>4, <1>5, <2>1, Zenon
  <2>3. Left(j, ns) = {left(r) : r \in BOOLEAN}
    BY Zenon DEF Left
  <2> HIDE DEF j, left
  <2> QED BY <1>4, <2>2, <2>3, Zenon DEF j
<1> QED BY <1>5, <1>6, <1>7, Zenon DEF x

\* What service_set_state() makes of the object.
Cleaned(x, w, s) ==
    /\ x.next = w.next /\ x.aborted = w.aborted /\ x.forbid_restart = w.forbid_restart
    /\ x.result = w.result /\ x.pid_watch = FALSE
    /\ x.timer => s \in Timed
    /\ x.main = IF s \in WithMain THEN w.main ELSE NoPid
    /\ x.control = IF s \in WithControl THEN w.control ELSE NoPid
    /\ x.exec_fd = IF s = "start" THEN w.exec_fd ELSE "none"
    /\ w.watchdog /\ s \in Watched => x.watchdog

\* service_set_state() cleans up and reports.
LEMMA SetStateReports ==
  ASSUME NEW w, Typed(w), NEW s
  PROVE  LET x == service_set_state(w, s) IN Typed(x) /\ Reports(x, w, s) /\ Cleaned(x, w, s)
<1> DEFINE v == [w EXCEPT !.state = s,
                          !.pid_watch = FALSE,
                          !.timer = @ /\ s \in Timed,
                          !.main = IF s \in WithMain THEN @ ELSE NoPid,
                          !.main_command = IF s \in WithMain THEN @ ELSE 0,
                          !.control = IF s \in WithControl THEN @ ELSE NoPid,
                          !.control_command = IF s \in WithControl THEN @ ELSE 0,
                          !.exec_fd = IF s = "start" THEN @ ELSE "none",
                          !.watchdog = @ /\ s \in Watched,
                          !.perform = FALSE]
           x == service_set_state(w, s)
           ns == service_active_state(s)
<1>1. Object(w)
  BY Zenon DEF Typed
<1>2. v = [k \in Fields |-> v[k]]
  BY <1>1, ZenonT(30) DEF Object
<1>3. /\ v.state = s /\ v.pid_watch = FALSE /\ v.perform = FALSE
      /\ v.main = IF s \in WithMain THEN w.main ELSE NoPid
      /\ v.main_command = IF s \in WithMain THEN w.main_command ELSE 0
      /\ v.control = IF s \in WithControl THEN w.control ELSE NoPid
      /\ v.control_command = IF s \in WithControl THEN w.control_command ELSE 0
      /\ v.exec_fd = IF s = "start" THEN w.exec_fd ELSE "none"
      /\ v.timer <=> w.timer /\ s \in Timed
      /\ v.watchdog <=> w.watchdog /\ s \in Watched
  BY <1>1, Zenon DEF Object, Fields
<1>4. /\ v.forbid_restart = w.forbid_restart /\ v.next = w.next /\ v.aborted = w.aborted
      /\ v.live = w.live /\ v.zombie = w.zombie /\ v.foreign = w.foreign /\ v.main_known = w.main_known
      /\ v.result = w.result /\ v.reload_result = w.reload_result /\ v.notify_state = w.notify_state
      /\ v.job = w.job /\ v.run = w.run /\ v.notified = w.notified
  BY <1>1, ZenonT(30) DEF Object, Fields
<1> HIDE DEF v
<1>5. Object(v)
  BY <1>1, <1>2, <1>3, <1>4 DEF Object
<1>6. x = unit_notify(v, ns)
  BY Zenon DEF service_set_state, v
<1>7. /\ Object(x) /\ \A k \in Fields \ {"job", "run", "notified"} : x[k] = v[k]
      /\ x.notified = Append(v.notified, ns)
      /\ Job(x) \in Left(Job(v), ns)
      /\ x.job \in {v.job, "start", "none"}
  <2>1. LET y == unit_notify(v, ns)
        IN /\ Object(y) /\ \A k \in Fields \ {"job", "run", "notified"} : y[k] = v[k]
           /\ y.notified = Append(v.notified, ns)
           /\ Job(y) \in Left(Job(v), ns)
           /\ y.job \in {v.job, "start", "none"}
    BY <1>5, NotifyReports, Zenon
  <2> QED BY <1>6, <2>1, Zenon
<1> HIDE DEF x
<1>8. /\ x.state = v.state /\ x.pid_watch = v.pid_watch /\ x.perform = v.perform
      /\ x.main = v.main /\ x.main_command = v.main_command
      /\ x.control = v.control /\ x.control_command = v.control_command /\ x.exec_fd = v.exec_fd
  BY <1>7, Zenon DEF Fields
<1>9. /\ x.timer = v.timer /\ x.watchdog = v.watchdog
      /\ x.forbid_restart = v.forbid_restart /\ x.next = v.next /\ x.aborted = v.aborted
      /\ x.live = v.live /\ x.foreign = v.foreign /\ x.main_known = v.main_known
      /\ x.result = v.result /\ x.reload_result = v.reload_result /\ x.notify_state = v.notify_state
  BY <1>7, Zenon DEF Fields
<1>10. Job(v) = Job(w)
  BY <1>4, Zenon DEF Job
<1>11. Reports(x, w, s)
  BY <1>3, <1>4, <1>7, <1>8, <1>10, Zenon DEF Reports
<1>12. Cleaned(x, w, s)
  BY <1>3, <1>4, <1>8, <1>9, ZenonT(30) DEF Cleaned
<1>13. /\ 0 <= x.main_command /\ x.control_command \in Nat
       /\ x.main \in Pids \cup {NoPid} /\ x.control \in Pids \cup {NoPid}
       /\ x.main # NoPid => x.main_known
       /\ x.exec_fd \in {"none", "cold", "hot", "forgotten"}
  BY <1>3, <1>4, <1>8, <1>9 DEF Typed
<1>14. x.job \in MergingTypes \cup {"none"}
  BY <1>4, <1>7, Zenon DEF Typed, MergingTypes
<1>15. Typed(x)
  <2>1. /\ \A k \in Commands : conf.commands[k] \in Nat
        /\ w.result \in ServiceResult /\ w.reload_result \in ServiceResult /\ w.foreign \subseteq w.live
        /\ w.notify_state \in {"unknown", "ready", "reloading", "stopping"}
    BY Zenon DEF Typed
  <2>2. /\ x.result \in ServiceResult /\ x.reload_result \in ServiceResult /\ x.foreign \subseteq x.live
        /\ x.notify_state \in {"unknown", "ready", "reloading", "stopping"}
    BY <1>4, <1>9, <2>1, Zenon
  <2>3. Object(x)
    BY <1>7, Zenon
  <2> QED BY <1>13, <1>14, <2>1, <2>2, <2>3, Zenon DEF Typed
<1> QED BY <1>11, <1>12, <1>15, Zenon DEF x

\* x is w after one report or two, the first of a state in S.
Tells(x, w, S) ==
    \E s \in S : \/ Reports(x, w, s)
                \/ \E z : \E t \in ServiceState : Reports(z, w, s) /\ Reports(x, z, t)

\* A call on w ends in x: the service has reported a state in S, or a function in
\* O is called next.
Leads(x, w, S, O) ==
    \/ x.aborted
    \/ Same(x, w) /\ x.next # NoCall /\ x.next[1] \in O
    \/ Tells(x, w, S)
Good(x, w, S, O) == Sound(x) /\ Leads(x, w, S, O)

\* More may be said of a call than is needed.
LEMMA GoodMore ==
  ASSUME NEW x, NEW w, NEW S, NEW O, Good(x, w, S, O), NEW T, S \subseteq T, NEW P, O \subseteq P
  PROVE  Good(x, w, T, P)
  BY Zenon DEF Good, Leads, Tells

\* The same job is told the same.
LEMMA SameReports ==
  ASSUME NEW v, NEW w, Same(v, w), NEW x, NEW s, Reports(x, v, s) PROVE Reports(x, w, s)
  BY Zenon DEF Same, Reports, Job
LEMMA SameTells ==
  ASSUME NEW v, NEW w, Same(v, w), NEW x, NEW S, Tells(x, v, S) PROVE Tells(x, w, S)
<1>1. PICK s \in S : \/ Reports(x, v, s)
                    \/ \E z : \E t \in ServiceState : Reports(z, v, s) /\ Reports(x, z, t)
  BY Zenon DEF Tells
<1>2. CASE Reports(x, v, s)
  BY <1>2, SameReports, Zenon DEF Tells
<1>3. ASSUME NEW z, NEW t \in ServiceState, Reports(z, v, s), Reports(x, z, t) PROVE Tells(x, w, S)
  <2>1. Reports(z, w, s)
    BY <1>3, SameReports, Zenon
  <2> QED BY <1>3, <2>1, Zenon DEF Tells
<1> QED BY <1>1, <1>2, <1>3, Zenon

\* A call may be preceded by what the job does not hear of.
LEMMA GoodAfter ==
  ASSUME NEW v, NEW w, Same(v, w), NEW x, NEW S, NEW O, Good(x, v, S, O) PROVE Good(x, w, S, O)
<1>1. CASE x.aborted
  BY <1>1, Zenon DEF Good, Leads
<1>2. CASE Same(x, v) /\ x.next # NoCall /\ x.next[1] \in O
  BY <1>2, Zenon DEF Good, Leads, Same
<1>3. CASE Tells(x, v, S)
  BY <1>3, SameTells, Zenon DEF Good, Leads
<1> QED BY <1>1, <1>2, <1>3, Zenon DEF Good, Leads

\* A function ends with a call.
LEMMA ThenGood ==
  ASSUME NEW w, NEW v, Calm(v), NEW S, NEW O, NEW op \in O \cap Onward, NEW f \in ServiceResult, NEW to,
         op = "signal" => to \in Signals,
         v.aborted \/ (/\ Same(v, w) /\ (v.exec_fd # "none" => op \in Takedown)
                       /\ (Watchable /\ op = "running" => v.watchdog)),
         NEW x \in Then(v, op, f, to)
  PROVE  Good(x, w, S, O)
<1>1. Sound(x) /\ Same(x, v) /\ x.aborted = v.aborted /\ x.next # NoCall /\ x.next[1] = op
  BY ThenSound
<1>2. CASE v.aborted
  BY <1>1, <1>2, Zenon DEF Good, Leads
<1>3. CASE Same(v, w)
  BY <1>1, <1>3, Zenon DEF Good, Leads, Same
<1> QED BY <1>2, <1>3, Zenon

\* A state PID 1 waits in.
LEMMA SetStateSound ==
  ASSUME NEW v, Calm(v), NEW s \in ServiceState \ BeforeRestart,
         v.aborted \/ (/\ (Watchable /\ s \in Watched => v.watchdog)
                       /\ (s = "start" /\ v.exec_fd # "none" => v.control = NoPid)
                       /\ (s = "exited" => conf.remain_after_exit))
  PROVE  LET x == service_set_state(v, s) IN Calm(x) /\ Sound(x)
<1> DEFINE x == service_set_state(v, s)
<1>1. Typed(x) /\ Reports(x, v, s) /\ Cleaned(x, v, s)
  BY SetStateReports, Zenon DEF Calm
<1> HIDE DEF x
<1>2. x.state = s /\ x.next = NoCall /\ x.aborted = v.aborted /\ (x.exec_fd # "none" => conf.type = "exec")
  BY <1>1, Zenon DEF Reports, Cleaned, Calm
<1>3. Calm(x)
  BY <1>1, <1>2, Zenon DEF Calm
<1>4. ASSUME ~ x.aborted PROVE Rests(x)
  <2>1. /\ x.main # NoPid => s \in WithMain
        /\ x.control # NoPid => s \in WithControl
        /\ x.timer => s \in Timed
        /\ x.exec_fd # "none" => s = "start" /\ x.control = NoPid
    BY <1>1, <1>2, <1>4, Zenon DEF Cleaned
  <2> QED BY <1>1, <1>2, <1>4, <2>1, Zenon DEF Rests, Cleaned
<1> QED BY <1>2, <1>3, <1>4, Zenon DEF Sound, Calm, x

\* A function ends with a new state.
LEMMA SetStateGood ==
  ASSUME NEW w, NEW v, Calm(v), NEW S, NEW O, NEW s \in S, s \in ServiceState \ BeforeRestart,
         v.aborted \/ (/\ Same(v, w)
                       /\ (Watchable /\ s \in Watched => v.watchdog)
                       /\ (s = "start" /\ v.exec_fd # "none" => v.control = NoPid)
                       /\ (s = "exited" => conf.remain_after_exit))
  PROVE  Good(service_set_state(v, s), w, S, O)
<1> DEFINE x == service_set_state(v, s)
<1>1. Sound(x)
  BY SetStateSound, Zenon
<1>2. Reports(x, v, s) /\ Cleaned(x, v, s)
  BY SetStateReports, Zenon DEF Calm
<1> SUFFICES Good(x, w, S, O)
  BY Zenon
<1> HIDE DEF x
<1>3. CASE v.aborted
  BY <1>1, <1>2, <1>3, Zenon DEF Good, Leads, Cleaned
<1>4. CASE Same(v, w)
  <2>1. Tells(x, w, S)
    BY <1>2, <1>4, SameReports, Zenon DEF Tells
  <2> QED BY <1>1, <2>1, Zenon DEF Good, Leads
<1> QED BY <1>3, <1>4, Zenon

-----------------------------------------------------------------------------
(* Going down.                                                             *)

\* The states service_enter_dead() reports.
Ends == {"dead", "failed"}
Restarts == Ends \cup {"auto-restart"} \cup BeforeRestart

\* The last state it reports.
LEMMA EndSound ==
  ASSUME NEW u, Typed(u), u.next = NoCall, u.aborted => ~ Supported, NEW s \in {"dead", "failed", "auto-restart"}
  PROVE  LET x == [service_set_state(u, s) EXCEPT !.forbid_restart = FALSE] IN Sound(x) /\ Reports(x, u, s)
<1> DEFINE y == service_set_state(u, s)
           x == [y EXCEPT !.forbid_restart = FALSE]
<1>1. Typed(y) /\ Reports(y, u, s) /\ Cleaned(y, u, s)
  BY SetStateReports, Zenon
<1> HIDE DEF y
<1>2. Object(y)
  BY <1>1, Zenon DEF Typed
<1>3. x = [k \in Fields |-> x[k]] /\ \A k \in Fields \ {"forbid_restart"} : x[k] = y[k]
  BY <1>2, Zenon DEF Object
<1> HIDE DEF x
<1>4. /\ x.state = y.state /\ x.perform = y.perform /\ x.notified = y.notified /\ x.job = y.job /\ x.run = y.run
      /\ x.next = y.next /\ x.aborted = y.aborted
  BY <1>3, Zenon DEF Fields
<1>5. /\ x.main = y.main /\ x.control = y.control /\ x.timer = y.timer /\ x.pid_watch = y.pid_watch
      /\ x.exec_fd = y.exec_fd /\ x.watchdog = y.watchdog
      /\ x.main_command = y.main_command /\ x.control_command = y.control_command /\ x.main_known = y.main_known
  BY <1>3, Zenon DEF Fields
<1>6. /\ x.result = y.result /\ x.reload_result = y.reload_result /\ x.notify_state = y.notify_state
      /\ x.live = y.live /\ x.zombie = y.zombie /\ x.foreign = y.foreign
  BY <1>3, Zenon DEF Fields
<1>7. Object(x)
  BY <1>2, <1>3, <1>5, <1>6, Zenon DEF Object
<1>8. Typed(x)
  BY <1>1, <1>4, <1>5, <1>6, <1>7, Zenon DEF Typed
<1>9. Reports(x, u, s)
  BY <1>1, <1>4, Zenon DEF Reports, Job
<1>10. s \in ServiceState \ BeforeRestart /\ s \notin WithMain /\ s \notin WithControl /\ s \notin Watched /\ s # "start" /\ s # "exited"
  BY Zenon DEF ServiceState, BeforeRestart, WithMain, WithControl, Watched, Starting, Reloading, Stopping, StopSignal,
         FinalSignal, AutoRestart
<1>11. Rests(x)
  BY <1>1, <1>4, <1>5, <1>10, Zenon DEF Rests, Reports, Cleaned
<1>12. Sound(x)
  BY <1>1, <1>4, <1>5, <1>8, <1>9, <1>10, <1>11, ZenonT(30) DEF Sound, Reports, Cleaned
<1> QED BY <1>9, <1>12, Zenon DEF x, y

\* Recording a result, on an object in a state of the moment.
LEMMA BlameTyped ==
  ASSUME NEW w, Typed(w), NEW f \in ServiceResult
  PROVE  Typed(Blame(w, f)) /\ Keeps(Blame(w, f), w)
  BY DEF Blame, Typed, Object, Fields, Keeps, Same
LEMMA ArmTyped ==
  ASSUME NEW w, Typed(w), NEW finite
  PROVE  Typed(service_arm_timer(w, finite)) /\ Keeps(service_arm_timer(w, finite), w)
  BY ZenonT(30) DEF service_arm_timer, Typed, Object, Fields, Keeps, Same

\* One report, or another one after it.
LEMMA EndGood ==
  ASSUME NEW w, NEW v, Same(v, w), NEW u, Typed(u), u.next = NoCall, u.aborted => ~ Supported,
         NEW s \in {"dead", "failed", "auto-restart"}, NEW S,
         \/ Same(u, v) /\ s \in S
         \/ \E t \in S : Reports(u, v, t)
  PROVE  Good([service_set_state(u, s) EXCEPT !.forbid_restart = FALSE], w, S, {})
<1> DEFINE x == [service_set_state(u, s) EXCEPT !.forbid_restart = FALSE]
<1>1. Sound(x) /\ Reports(x, u, s)
  BY EndSound, Zenon
<1> SUFFICES Good(x, w, S, {})
  BY Zenon
<1> HIDE DEF x
<1>2. s \in ServiceState
  BY Zenon DEF ServiceState, AutoRestart
<1>3. CASE Same(u, v) /\ s \in S
  <2>1. Same(u, w)
    BY <1>3, Zenon DEF Same
  <2>2. Reports(x, w, s)
    BY <1>1, <2>1, SameReports, Zenon
  <2> QED BY <1>1, <1>3, <2>2, Zenon DEF Good, Leads, Tells
<1>4. ASSUME NEW t \in S, Reports(u, v, t) PROVE Good(x, w, S, {})
  <2>1. Reports(u, w, t)
    BY <1>4, SameReports, Zenon
  <2> QED BY <1>1, <1>2, <2>1, Zenon DEF Good, Leads, Tells
<1> QED BY <1>3, <1>4, Zenon

\* service_enter_dead().
LEMMA EnterDeadGood ==
  ASSUME NEW w, Calm(w), NEW f \in ServiceResult, NEW allow_restart, NEW x \in service_enter_dead(w, f, allow_restart)
  PROVE  /\ Good(x, w, Restarts, {})
         /\ ~ allow_restart \/ w.forbid_restart => Good(x, w, Ends, {})
<1> DEFINE v == Blame(w, f)
           clean(y) == y.result \in {"success", "skip-condition"}
           end(y) == [service_set_state(y, IF clean(y) THEN "dead" ELSE "failed") EXCEPT !.forbid_restart = FALSE]
           before == IF clean(v) THEN "dead-before-auto-restart" ELSE "failed-before-auto-restart"
           down == IF conf.restart_mode = "direct" THEN v ELSE service_set_state(v, before)
           armed == service_arm_timer(down, TRUE)
           blamed == Blame(down, "resources")
<1>1. Calm(v) /\ Keeps(v, w)
  BY BlameCalm, Zenon
<1>2. x = end(v) \/ (allow_restart /\ service_shall_restart(v)
                      /\ (x = [service_set_state(armed, "auto-restart") EXCEPT !.forbid_restart = FALSE] \/ x = end(blamed)))
  BY Zenon DEF service_enter_dead
<1> HIDE DEF v
<1>3. Typed(v) /\ v.next = NoCall /\ (v.aborted => ~ Supported) /\ Same(v, w) /\ Same(v, v)
  BY <1>1, Zenon DEF Calm, Keeps, Same
<1>4. before \in BeforeRestart
  BY Zenon DEF BeforeRestart
<1> HIDE DEF before
<1>5. Typed(down) /\ down.next = NoCall /\ (down.aborted => ~ Supported) /\ (Same(down, v) \/ Reports(down, v, before))
  <2>1. CASE conf.restart_mode = "direct"
    BY <1>3, <2>1, Zenon
  <2>2. CASE conf.restart_mode # "direct"
    <3>1. Typed(down) /\ Reports(down, v, before) /\ Cleaned(down, v, before)
      BY <1>3, <2>2, SetStateReports, Zenon
    <3> QED BY <1>3, <3>1, Zenon DEF Cleaned
  <2> QED BY <2>1, <2>2, Zenon
<1> HIDE DEF down
<1>6. ASSUME NEW u, Typed(u), Keeps(u, down)
      PROVE  u.next = NoCall /\ (u.aborted => ~ Supported) /\ (Same(u, v) \/ Reports(u, v, before))
  <2>1. u.next = NoCall /\ (u.aborted => ~ Supported) /\ Same(u, down)
    BY <1>5, <1>6, Zenon DEF Keeps
  <2>2. Same(down, v) => Same(u, v)
    BY <2>1, Zenon DEF Same
  <2>3. Reports(down, v, before) => Reports(u, v, before)
    BY <2>1, Zenon DEF Same, Reports, Job
  <2> QED BY <1>5, <2>1, <2>2, <2>3, Zenon
<1>7. Typed(armed) /\ Keeps(armed, down)
  BY <1>5, ArmTyped, Zenon
<1>8. Typed(blamed) /\ Keeps(blamed, down)
  BY <1>5, BlameTyped, Zenon DEF ServiceResult
<1> HIDE DEF armed, blamed
<1>9. Good(end(v), w, Ends, {})
  <2>1. (IF clean(v) THEN "dead" ELSE "failed") \in {"dead", "failed", "auto-restart"} \cap Ends
    BY Zenon DEF Ends
  <2> DEFINE s == IF clean(v) THEN "dead" ELSE "failed"
  <2> HIDE DEF s
  <2>2. Good([service_set_state(v, s) EXCEPT !.forbid_restart = FALSE], w, Ends, {})
    BY <1>3, <2>1, EndGood, Zenon DEF s
  <2> QED BY <2>2, Zenon DEF s
<1>10. Good(end(blamed), w, Restarts, {})
  <2>1. (IF clean(blamed) THEN "dead" ELSE "failed") \in {"dead", "failed", "auto-restart"} \cap Restarts
    BY Zenon DEF Ends, Restarts
  <2> DEFINE s == IF clean(blamed) THEN "dead" ELSE "failed"
  <2> HIDE DEF s
  <2>2. before \in Restarts
    BY <1>4, Zenon DEF Restarts
  <2>3. blamed.next = NoCall /\ (blamed.aborted => ~ Supported) /\ (Same(blamed, v) \/ Reports(blamed, v, before))
    BY <1>6, <1>8, Zenon
  <2>4. Good([service_set_state(blamed, s) EXCEPT !.forbid_restart = FALSE], w, Restarts, {})
    BY <1>3, <1>8, <2>1, <2>2, <2>3, EndGood, Zenon DEF s
  <2> QED BY <2>4, Zenon DEF s
<1>11. Good([service_set_state(armed, "auto-restart") EXCEPT !.forbid_restart = FALSE], w, Restarts, {})
  <2>1. "auto-restart" \in {"dead", "failed", "auto-restart"} \cap Restarts /\ before \in Restarts
    BY <1>4, Zenon DEF Restarts
  <2>2. armed.next = NoCall /\ (armed.aborted => ~ Supported) /\ (Same(armed, v) \/ Reports(armed, v, before))
    BY <1>6, <1>7, Zenon
  <2> QED BY <1>3, <1>7, <2>1, <2>2, EndGood, Zenon
<1>12. Good(end(v), w, Restarts, {})
  <2>1. Ends \subseteq Restarts
    BY Zenon DEF Restarts
  <2> QED BY <1>9, <2>1, GoodMore
<1>13. service_shall_restart(v) => ~ w.forbid_restart
  BY <1>1, Zenon DEF service_shall_restart, Keeps, Same
<1> HIDE DEF end, clean
<1> QED BY <1>2, <1>9, <1>10, <1>11, <1>12, <1>13, Zenon

\* What is next when there is nothing to kill.
LEMMA EscalateGood ==
  ASSUME NEW w, NEW v, Calm(v), Same(v, w), NEW state \in Signals, NEW f \in ServiceResult, NEW x \in Escalate(v, state, f),
         NEW S
  PROVE  Good(x, w, S, Takedown)
<1>1. "signal" \in Takedown \cap Onward /\ "stop-post" \in Takedown \cap Onward /\ "dead" \in Takedown \cap Onward
  BY Zenon DEF Takedown, Onward
<1>2. "final-sigkill" \in Signals /\ "stop-sigkill" \in Signals
  BY Zenon DEF Signals, FinalSignal, StopSignal
<1>3. ASSUME x \in ThenDead(v, f) PROVE Good(x, w, S, Takedown)
  BY <1>1, <1>3, ThenGood, Zenon DEF ThenDead
<1>4. ASSUME NEW to \in Signals, x \in ThenSignal(v, to, f) PROVE Good(x, w, S, Takedown)
  BY <1>1, <1>4, ThenGood, Zenon DEF ThenSignal
<1>5. ASSUME x \in ThenEnter(v, "stop-post", f) PROVE Good(x, w, S, Takedown)
  BY <1>1, <1>5, ThenGood, Zenon DEF ThenEnter
<1> QED BY <1>2, <1>3, <1>4, <1>5, Zenon DEF Escalate

\* The states by kind.
LEMMA StoppingStates ==
  ASSUME NEW s \in Stopping
  PROVE  s \in ServiceState \ BeforeRestart /\ s \notin Watched /\ s \notin {"start", "exited"}
  BY Zenon DEF ServiceState, BeforeRestart, Watched, Starting, Reloading, Stopping, StopSignal, FinalSignal

\* A stopping state.
LEMMA StoppingGood ==
  ASSUME NEW w, NEW v, Calm(v), v.aborted \/ Same(v, w), NEW S, NEW O, NEW s \in S, s \in Stopping
  PROVE  Good(service_set_state(v, s), w, S, O)
<1>1. s \in ServiceState \ BeforeRestart /\ s \notin Watched /\ s # "start" /\ s # "exited"
  BY StoppingStates, Zenon
<1> QED BY <1>1, SetStateGood, Zenon

\* service_enter_signal().
LEMMA EnterSignalGood ==
  ASSUME NEW w, Calm(w), NEW state \in Signals, NEW f \in ServiceResult, NEW x \in service_enter_signal(w, state, f)
  PROVE  Good(x, w, {state}, Takedown)
<1> DEFINE v == Blame(w, f)
           armed == service_arm_timer(v, StopTimeout(state))
<1>1. Calm(v) /\ Same(v, w)
  BY BlameCalm, Zenon DEF Keeps
<1>2. "success" \in ServiceResult /\ "resources" \in ServiceResult /\ state \in Stopping
  BY Zenon DEF ServiceResult, Signals, Stopping
<1>3. Calm(armed) /\ Same(armed, v)
  BY <1>1, ArmCalm, Zenon DEF Keeps
<1>4. x \in Escalate(v, state, "success") \cup Escalate(v, state, "resources") \cup {service_set_state(armed, state)}
  BY Zenon DEF service_enter_signal
<1> HIDE DEF v, armed
<1>5. CASE x \in Escalate(v, state, "success") \cup Escalate(v, state, "resources")
  BY <1>1, <1>2, <1>5, EscalateGood, Zenon
<1>6. CASE x = service_set_state(armed, state)
  <2>1. Same(armed, w)
    BY <1>1, <1>3, Zenon DEF Same
  <2>2. Good(service_set_state(armed, state), w, {state}, Takedown)
    BY <1>2, <1>3, <2>1, StoppingGood, Zenon
  <2> QED BY <1>6, <2>2, Zenon
<1> QED BY <1>4, <1>5, <1>6, Zenon

\* Before a new control process.
LEMMA BlameUnwatch ==
  ASSUME NEW w, Calm(w), NEW f \in ServiceResult
  PROVE  LET v == service_unwatch_control_pid(Blame(w, f))
         IN Calm(v) /\ Keeps(v, w) /\ Group(v, w) /\ v.control = NoPid /\ v.result = Blame(w, f).result
<1>1. Calm(Blame(w, f)) /\ Keeps(Blame(w, f), w) /\ Group(Blame(w, f), w)
  BY BlameCalm, Zenon
<1> DEFINE u == Blame(w, f)
           v == service_unwatch_control_pid(u)
<1> HIDE DEF u
<1>2. Calm(v) /\ Keeps(v, u) /\ Group(v, u) /\ v.control = NoPid /\ v.result = u.result
  BY <1>1, UnwatchCalm, Zenon DEF u
<1> HIDE DEF v
<1> QED BY <1>1, <1>2, Zenon DEF Keeps, Same, Group, u, v

\* ExecStop= and ExecStopPost=: a control process, or a signal instead.
LEMMA StopCommandGood ==
  ASSUME NEW w, NEW v, Calm(v), Same(v, w), NEW state \in {"stop", "stop-post"}, NEW n \in Nat,
         v.exec_fd = "none" \/ ~ Supported, NEW to \in Signals, NEW x,
         \/ x \in {service_set_state(y, state) : y \in SpawnControl(v, n, conf.timeout_stop)}
         \/ x \in UNION {ThenSignal(y, to, "resources") : y \in SpawnFails(v, conf.timeout_stop)}
  PROVE  Good(x, w, {state}, {"signal"})
<1>1. "signal" \in {"signal"} \cap Onward /\ "signal" \in Takedown /\ "resources" \in ServiceResult /\ state \in Stopping
  BY Zenon DEF Onward, Takedown, ServiceResult, Stopping
<1>2. ASSUME NEW y \in SpawnControl(v, n, conf.timeout_stop), x = service_set_state(y, state)
      PROVE  Good(x, w, {state}, {"signal"})
  <2>1. Calm(y) /\ (y.aborted \/ Same(y, v))
    BY <1>2, SpawnControlCalm, Zenon DEF Keeps
  <2>2. y.aborted \/ Same(y, w)
    BY <2>1, Zenon DEF Same
  <2>3. Good(service_set_state(y, state), w, {state}, {"signal"})
    BY <1>1, <2>1, <2>2, StoppingGood, Zenon
  <2> QED BY <1>2, <2>3, Zenon
<1>3. ASSUME NEW y \in SpawnFails(v, conf.timeout_stop), x \in ThenSignal(y, to, "resources")
      PROVE  Good(x, w, {state}, {"signal"})
  <2>1. Calm(y) /\ Same(y, v)
    BY <1>3, SpawnFailsCalm, Zenon DEF Keeps
  <2>2. Same(y, w)
    BY <2>1, Zenon DEF Same
  <2> QED BY <1>1, <1>3, <2>1, <2>2, ThenGood, Zenon DEF ThenSignal
<1> QED BY <1>2, <1>3, Zenon

\* service_enter_stop_post().
LEMMA EnterStopPostGood ==
  ASSUME NEW w, Calm(w), NEW f \in ServiceResult, NEW x \in service_enter_stop_post(w, f)
  PROVE  Good(x, w, {"stop-post"}, {"signal"})
<1> DEFINE v == service_unwatch_control_pid(Blame(w, f))
           n == conf.commands["stop-post"]
<1>1. Calm(v) /\ Same(v, w) /\ v.exec_fd = w.exec_fd
  BY BlameUnwatch, Zenon DEF Keeps
<1>2. n \in Nat /\ (w.exec_fd # "none" => conf.type = "exec")
  BY Zenon DEF Calm, Typed, Commands
<1>3. IF n = 0 THEN x \in ThenSignal(v, "final-sigterm", "success")
      ELSE \/ x \in {service_set_state(y, "stop-post") : y \in SpawnControl(v, n, conf.timeout_stop)}
           \/ x \in UNION {ThenSignal(y, "final-sigterm", "resources") : y \in SpawnFails(v, conf.timeout_stop)}
  BY Zenon DEF service_enter_stop_post
<1> HIDE DEF v, n
<1>4. "final-sigterm" \in Signals /\ "signal" \in {"signal"} \cap Onward /\ "signal" \in Takedown /\ "success" \in ServiceResult
  BY Zenon DEF Signals, FinalSignal, Onward, Takedown, ServiceResult
<1>5. CASE n = 0
  BY <1>1, <1>3, <1>4, <1>5, ThenGood, Zenon DEF ThenSignal
<1>6. CASE n # 0
  <2>1. v.exec_fd = "none" \/ ~ Supported
    BY <1>1, <1>2, <1>6, Zenon DEF Supported, n
  <2> QED BY <1>1, <1>2, <1>3, <1>4, <1>6, <2>1, StopCommandGood, Zenon
<1> QED BY <1>5, <1>6, Zenon

\* service_enter_stop(), called once execve() of the main process is over.
LEMMA EnterStopGood ==
  ASSUME NEW w, Calm(w), w.exec_fd = "none", NEW f \in ServiceResult, NEW x \in service_enter_stop(w, f)
  PROVE  Good(x, w, {"stop"}, {"signal"})
<1> DEFINE v == service_unwatch_control_pid(Blame(w, f))
           n == conf.commands["stop"]
<1>1. Calm(v) /\ Same(v, w) /\ v.exec_fd = "none"
  BY BlameUnwatch, Zenon DEF Keeps
<1>2. n \in Nat
  BY Zenon DEF Calm, Typed, Commands
<1>3. IF n = 0 THEN x \in ThenSignal(v, "stop-sigterm", "success")
      ELSE \/ x \in {service_set_state(y, "stop") : y \in SpawnControl(v, n, conf.timeout_stop)}
           \/ x \in UNION {ThenSignal(y, "stop-sigterm", "resources") : y \in SpawnFails(v, conf.timeout_stop)}
  BY Zenon DEF service_enter_stop
<1> HIDE DEF v, n
<1>4. "stop-sigterm" \in Signals /\ "signal" \in {"signal"} \cap Onward /\ "signal" \in Takedown /\ "success" \in ServiceResult
  BY Zenon DEF Signals, StopSignal, Onward, Takedown, ServiceResult
<1>5. CASE n = 0
  BY <1>1, <1>3, <1>4, <1>5, ThenGood, Zenon DEF ThenSignal
<1>6. CASE n # 0
  BY <1>1, <1>2, <1>3, <1>4, <1>6, StopCommandGood, Zenon
<1> QED BY <1>5, <1>6, Zenon

\* service_enter_stop_by_notify().
LEMMA EnterStopByNotifyGood ==
  ASSUME NEW w, NEW v, Calm(v), Same(v, w), NEW x \in service_enter_stop_by_notify(v)
  PROVE  Good(x, w, {"stop-sigterm"}, {"signal"})
<1> DEFINE armed == service_arm_timer(v, conf.timeout_stop)
<1>1. Calm(armed) /\ Same(armed, v)
  BY ArmCalm, Zenon DEF Keeps
<1>2. x = service_set_state(armed, "stop-sigterm") \/ x \in ThenSignal(v, "stop-sigterm", "resources")
  BY Zenon DEF service_enter_stop_by_notify
<1> HIDE DEF armed
<1>3. /\ "stop-sigterm" \in Signals /\ "signal" \in {"signal"} \cap Onward /\ "signal" \in Takedown
      /\ "resources" \in ServiceResult /\ "stop-sigterm" \in Stopping
  BY Zenon DEF Signals, StopSignal, Onward, Takedown, ServiceResult, Stopping
<1>4. Same(armed, w)
  BY <1>1, Zenon DEF Same
<1>5. Good(service_set_state(armed, "stop-sigterm"), w, {"stop-sigterm"}, {"signal"})
  BY <1>1, <1>3, <1>4, StoppingGood, Zenon
<1>6. CASE x \in ThenSignal(v, "stop-sigterm", "resources")
  BY <1>3, <1>6, ThenGood, ZenonT(30) DEF ThenSignal
<1> QED BY <1>2, <1>5, <1>6, Zenon

-----------------------------------------------------------------------------
(* Going up.                                                               *)

\* The outcome of a reload.
LEMMA ReloadResult ==
  ASSUME NEW w, Calm(w), NEW r \in ServiceResult
  PROVE  LET x == [w EXCEPT !.reload_result = r]
         IN Calm(x) /\ Keeps(x, w) /\ Group(x, w) /\ x.control = w.control /\ x.result = w.result
  BY DEF Calm, Typed, Object, Fields, Keeps, Same, Group

\* Back to service_enter_running(), the reload having failed.
LEMMA ReloadFailsGood ==
  ASSUME NEW w, NEW v, Calm(v), Same(v, w), v.exec_fd = "none", Watchable => v.watchdog, NEW f \in ServiceResult,
         NEW S, NEW O, "running" \in O, NEW x \in ReloadFails(v, f)
  PROVE  Good(x, w, S, O)
<1> DEFINE y == [v EXCEPT !.reload_result = f]
<1>1. Calm(y) /\ Keeps(y, v)
  BY ReloadResult, Zenon
<1>2. x \in Then(y, "running", "success", "none")
  BY Zenon DEF ReloadFails, ThenEnter
<1> HIDE DEF y
<1>3. Same(y, w) /\ y.exec_fd = "none" /\ (Watchable => y.watchdog)
  BY <1>1, Zenon DEF Keeps, Same
<1>4. "running" \in O \cap Onward /\ "success" \in ServiceResult
  BY Zenon DEF Onward, ServiceResult
<1> QED BY <1>1, <1>2, <1>3, <1>4, ThenGood, Zenon

\* service_enter_reload_by_notify().
LEMMA EnterReloadByNotifyGood ==
  ASSUME NEW w, NEW v, Calm(v), Same(v, w), v.exec_fd = "none", Watchable => v.watchdog,
         NEW x \in service_enter_reload_by_notify(v)
  PROVE  Good(x, w, {"reload-notify"}, {"running"})
<1> DEFINE z == service_arm_timer(v, conf.timeout_start)
<1>1. x = service_set_state(z, "reload-notify") \/ x \in ReloadFails(v, "resources")
  BY Zenon DEF service_enter_reload_by_notify
<1>2. Calm(z) /\ Keeps(z, v)
  BY ArmCalm, Zenon
<1> HIDE DEF z
<1>3. Same(z, w) /\ z.watchdog = v.watchdog
  BY <1>2, Zenon DEF Keeps, Same
<1>4. "reload-notify" \in ServiceState \ BeforeRestart /\ "resources" \in ServiceResult
  BY Zenon DEF ServiceState, Reloading, BeforeRestart, ServiceResult
<1>5. Good(service_set_state(z, "reload-notify"), w, {"reload-notify"}, {"running"})
  BY <1>2, <1>3, <1>4, SetStateGood, Zenon
<1>6. CASE x \in ReloadFails(v, "resources")
  BY <1>4, <1>6, ReloadFailsGood, Zenon
<1> QED BY <1>1, <1>5, <1>6, Zenon

\* The states service_enter_running() reports.
Runs(w) == {"running", "exited", "stop-sigterm"} \cup (IF w.notify_state = "reloading" THEN {"reload-notify"} ELSE {})

\* The processes decide whether the service is up.
LEMMA GroupGood == ASSUME NEW v, NEW w, Group(v, w) PROVE service_good(v) <=> service_good(w)
<1>1. main_pid_good(v) = main_pid_good(w)
  BY Zenon DEF Group, main_pid_good
<1> QED BY <1>1, Zenon DEF Group, service_good, cgroup_good

\* A service that runs may have a timeout, RuntimeMaxSec=.
LEMMA RunningGood ==
  ASSUME NEW w, NEW v, Calm(v), Same(v, w), Watchable => v.watchdog, NEW S, "running" \in S, NEW x,
         LET running == service_set_state(v, "running")
         IN x = service_arm_timer(running, conf.runtime_max) \/ x \in ThenSignal(running, "stop-sigterm", "resources")
  PROVE  Good(x, w, S, {"signal"})
<1> DEFINE running == service_set_state(v, "running")
           a == service_arm_timer(running, conf.runtime_max)
<1>1. "running" \in ServiceState \ BeforeRestart /\ "running" \in Timed
  BY Zenon DEF ServiceState, BeforeRestart, Timed
<1>2. Calm(running) /\ Sound(running)
  BY <1>1, SetStateSound, Zenon
<1>3. Reports(running, v, "running") /\ Cleaned(running, v, "running")
  BY SetStateReports, Zenon DEF Calm
<1>4. x = a \/ x \in ThenSignal(running, "stop-sigterm", "resources")
  BY Zenon
<1> HIDE DEF running
<1>5. ASSUME NEW y, Same(y, running), Sound(y) PROVE Good(y, w, S, {"signal"})
  <2>1. Reports(y, v, "running")
    BY <1>3, <1>5, Zenon DEF Same, Reports, Job
  <2>2. Reports(y, w, "running")
    BY <2>1, SameReports, Zenon
  <2> QED BY <1>5, <2>2, Zenon DEF Good, Leads, Tells
<1>6. Calm(a) /\ Keeps(a, running) /\ Group(a, running) /\ a.control = running.control
  BY <1>2, ArmCalm, Zenon
<1> HIDE DEF a
<1>7. Sound(a)
  <2>1. a.state = "running" /\ running.next = NoCall
    BY <1>2, <1>3, <1>6, Zenon DEF Keeps, Same, Reports, Calm
  <2>2. ~ running.aborted => Rests(running)
    BY <1>2, <2>1, Zenon DEF Sound
  <2>3. ~ a.aborted => Rests(a)
    BY <1>1, <1>6, <2>1, <2>2, Zenon DEF Rests, Keeps, Same, Group
  <2> QED BY <1>6, <2>3, Zenon DEF Sound, Calm
<1>8. CASE x = a
  BY <1>5, <1>6, <1>7, <1>8, Zenon DEF Keeps
<1>9. CASE x \in ThenSignal(running, "stop-sigterm", "resources")
  <2>1. /\ "stop-sigterm" \in Signals /\ "signal" \in Onward /\ "signal" \in Takedown /\ "resources" \in ServiceResult
    BY Zenon DEF Signals, StopSignal, Onward, Takedown, ServiceResult
  <2>2. Sound(x) /\ Same(x, running)
    BY <1>2, <1>9, <2>1, ThenSound, Zenon DEF ThenSignal
  <2> QED BY <1>5, <2>2, Zenon
<1> QED BY <1>4, <1>8, <1>9, Zenon

\* service_enter_running(): a service that is up has its watchdog already.
LEMMA EnterRunningGood ==
  ASSUME NEW w, Calm(w), w.exec_fd = "none", Watchable => w.watchdog \/ ~ service_good(w), NEW f \in ServiceResult,
         NEW x \in service_enter_running(w, f)
  PROVE  Good(x, w, Runs(w), {"signal", "stop", "running"})
<1> DEFINE v == service_unwatch_control_pid(Blame(w, f))
           running == service_set_state(v, "running")
<1>1. Calm(v) /\ Keeps(v, w) /\ Group(v, w)
  BY BlameUnwatch, Zenon
<1>2. IF v.result # "success" THEN x \in ThenSignal(v, "stop-sigterm", f)
      ELSE IF service_good(v)
      THEN IF v.notify_state = "reloading" THEN x \in service_enter_reload_by_notify(v)
           ELSE IF v.notify_state = "stopping" THEN x \in service_enter_stop_by_notify(v)
           ELSE x = service_arm_timer(running, conf.runtime_max) \/ x \in ThenSignal(running, "stop-sigterm", "resources")
      ELSE IF conf.remain_after_exit THEN x = service_set_state(v, "exited")
      ELSE x \in ThenEnter(v, "stop", "success")
  BY Zenon DEF service_enter_running
<1> HIDE DEF v
<1>3. Same(v, w) /\ v.watchdog = w.watchdog /\ v.exec_fd = "none" /\ v.notify_state = w.notify_state
  BY <1>1, Zenon DEF Keeps, Same
<1>4. /\ "stop-sigterm" \in Signals /\ "signal" \in {"signal", "stop", "running"} \cap Onward /\ "signal" \in Takedown
      /\ "stop" \in {"signal", "stop", "running"} \cap Onward /\ "success" \in ServiceResult
  BY Zenon DEF Signals, StopSignal, Onward, Takedown, ServiceResult
<1>5. CASE x \in ThenSignal(v, "stop-sigterm", f)
  BY <1>1, <1>3, <1>4, <1>5, ThenGood, Zenon DEF ThenSignal
<1>6. CASE x \in ThenEnter(v, "stop", "success")
  BY <1>1, <1>3, <1>4, <1>6, ThenGood, Zenon DEF ThenEnter
<1>7. CASE conf.remain_after_exit /\ x = service_set_state(v, "exited")
  <2>1. "exited" \in ServiceState \ BeforeRestart /\ "exited" \notin Watched /\ "exited" \in Runs(w)
    BY Zenon DEF ServiceState, BeforeRestart, Watched, Reloading, Runs
  <2>2. Good(service_set_state(v, "exited"), w, Runs(w), {"signal", "stop", "running"})
    BY <1>1, <1>3, <1>7, <2>1, SetStateGood, Zenon
  <2> QED BY <1>7, <2>2, Zenon
<1>8. service_good(v) /\ Watchable => v.watchdog
  BY <1>1, <1>3, GroupGood, Zenon
<1>9. CASE service_good(v) /\ v.notify_state = "reloading" /\ x \in service_enter_reload_by_notify(v)
  <2>1. Good(x, w, {"reload-notify"}, {"running"})
    BY <1>1, <1>3, <1>8, <1>9, EnterReloadByNotifyGood, Zenon
  <2>2. {"reload-notify"} \subseteq Runs(w)
    BY <1>3, <1>9, Zenon DEF Runs
  <2> QED BY <2>1, <2>2, GoodMore
<1>10. CASE x \in service_enter_stop_by_notify(v)
  <2>1. Good(x, w, {"stop-sigterm"}, {"signal"})
    BY <1>1, <1>3, <1>10, EnterStopByNotifyGood, Zenon
  <2>2. {"stop-sigterm"} \subseteq Runs(w)
    BY Zenon DEF Runs
  <2> QED BY <2>1, <2>2, GoodMore
<1>11. CASE service_good(v) /\ (x = service_arm_timer(running, conf.runtime_max) \/ x \in ThenSignal(running, "stop-sigterm", "resources"))
  <2>1. "running" \in Runs(w)
    BY Zenon DEF Runs
  <2>2. Good(x, w, Runs(w), {"signal"})
    BY <1>1, <1>3, <1>8, <1>11, <2>1, RunningGood, Zenon
  <2> QED BY <2>2, GoodMore, Zenon
<1> QED BY <1>2, <1>5, <1>6, <1>7, <1>9, <1>10, <1>11, Zenon

\* A control process that goes with a state.
LEMMA CommandGood ==
  ASSUME NEW w, NEW v, Calm(v), Same(v, w), v.exec_fd = "none", NEW n \in Nat, NEW finite,
         NEW s \in Starting \cup {"reload"}, Watchable /\ s \in Watched => v.watchdog, NEW S, s \in S, NEW O,
         NEW y \in SpawnControl(v, n, finite)
  PROVE  Good(service_set_state(y, s), w, S, O)
<1>1. Calm(y) /\ (y.aborted \/ Keeps(y, v))
  BY SpawnControlCalm, Zenon
<1>2. y.aborted \/ (Same(y, w) /\ y.watchdog = v.watchdog /\ y.exec_fd = "none")
  BY <1>1, Zenon DEF Keeps, Same
<1>3. s \in ServiceState \ BeforeRestart /\ s # "exited"
  BY Zenon DEF ServiceState, Starting, Reloading, BeforeRestart
<1> QED BY <1>1, <1>2, <1>3, SetStateGood, Zenon

\* ... or cannot be spawned.
LEMMA FailsGood ==
  ASSUME NEW w, NEW v, Calm(v), Same(v, w), v.exec_fd = "none", NEW finite, NEW y \in SpawnFails(v, finite),
         NEW S, NEW O, NEW op \in O \cap Onward, NEW to, op = "signal" => to \in Signals, op # "running",
         NEW x \in Then(y, op, "resources", to)
  PROVE  Good(x, w, S, O)
<1>1. Calm(y) /\ Keeps(y, v)
  BY SpawnFailsCalm, Zenon
<1>2. Same(y, w) /\ y.exec_fd = "none" /\ "resources" \in ServiceResult
  BY <1>1, Zenon DEF Keeps, Same, ServiceResult
<1> QED BY <1>1, <1>2, ThenGood, Zenon

\* The watchdog is armed.
LEMMA StartWatchdog ==
  ASSUME NEW w, Calm(w)
  PROVE  LET v == [w EXCEPT !.watchdog = conf.watchdog]
         IN Calm(v) /\ Same(v, w) /\ v.exec_fd = w.exec_fd /\ (Watchable => v.watchdog)
  BY DEF Calm, Typed, Object, Fields, Same, Watchable

\* service_enter_start_post() starts the watchdog.
LEMMA EnterStartPostGood ==
  ASSUME NEW w, Calm(w), w.exec_fd = "none", NEW x \in service_enter_start_post(w)
  PROVE  Good(x, w, {"start-post"}, {"running", "stop"})
<1> DEFINE u == service_unwatch_control_pid(w)
           v == [u EXCEPT !.watchdog = conf.watchdog]
           n == conf.commands["start-post"]
<1>1. Calm(u) /\ Keeps(u, w)
  BY UnwatchCalm, Zenon
<1>2. IF n = 0 THEN x \in ThenEnter(v, "running", "success")
      ELSE \/ x \in {service_set_state(y, "start-post") : y \in SpawnControl(v, n, conf.timeout_start)}
           \/ x \in UNION {ThenEnter(y, "stop", "resources") : y \in SpawnFails(v, conf.timeout_start)}
  BY Zenon DEF service_enter_start_post
<1> HIDE DEF u
<1>3. Calm(v) /\ Same(v, u) /\ v.exec_fd = u.exec_fd /\ (Watchable => v.watchdog)
  BY <1>1, StartWatchdog, Zenon
<1> HIDE DEF v
<1>4. Same(v, w) /\ v.exec_fd = "none"
  BY <1>1, <1>3, Zenon DEF Keeps, Same
<1>5. n \in Nat
  BY Zenon DEF Calm, Typed, Commands
<1> HIDE DEF n
<1>6. /\ "running" \in {"running", "stop"} \cap Onward /\ "stop" \in {"running", "stop"} \cap Onward
      /\ "success" \in ServiceResult /\ "start-post" \in Starting \cup {"reload"}
  BY Zenon DEF Onward, ServiceResult, Starting
<1>7. CASE n = 0
  BY <1>2, <1>3, <1>4, <1>6, <1>7, ThenGood, Zenon DEF ThenEnter
<1>8. ASSUME n # 0, NEW y \in SpawnControl(v, n, conf.timeout_start), x = service_set_state(y, "start-post")
      PROVE  Good(x, w, {"start-post"}, {"running", "stop"})
  <2>1. Good(service_set_state(y, "start-post"), w, {"start-post"}, {"running", "stop"})
    BY <1>3, <1>4, <1>5, <1>6, <1>8, CommandGood, Zenon
  <2> QED BY <1>8, <2>1, Zenon
<1>9. ASSUME NEW y \in SpawnFails(v, conf.timeout_start), x \in ThenEnter(y, "stop", "resources")
      PROVE  Good(x, w, {"start-post"}, {"running", "stop"})
  BY <1>3, <1>4, <1>6, <1>9, FailsGood, Zenon DEF ThenEnter
<1> QED BY <1>2, <1>7, <1>8, <1>9, Zenon

\* ExecCondition= and ExecStartPre=.
LEMMA ControlStepGood ==
  ASSUME NEW w, Calm(w), w.exec_fd = "none", NEW s \in {"condition", "start-pre"}, NEW next \in {"start-pre", "start"},
         NEW x \in EnterControlStep(w, s, next)
  PROVE  Good(x, w, {s}, {next, "dead"})
<1> DEFINE v == service_unwatch_control_pid(w)
           n == conf.commands[s]
<1>1. Calm(v) /\ Keeps(v, w)
  BY UnwatchCalm, Zenon
<1>2. \/ x \in ThenEnter(w, next, "success")
      \/ x \in ThenDead(v, "resources")
      \/ x \in {service_set_state(y, s) : y \in SpawnControl(v, n, conf.timeout_start)}
      \/ x \in UNION {ThenDead(y, "resources") : y \in SpawnFails(v, conf.timeout_start)}
  BY Zenon DEF EnterControlStep
<1> HIDE DEF v
<1>3. Same(v, w) /\ v.exec_fd = "none" /\ Same(w, w)
  BY <1>1, Zenon DEF Keeps, Same
<1>4. n \in Nat
  BY Zenon DEF Calm, Typed, Commands
<1> HIDE DEF n
<1>5. /\ next \in {next, "dead"} \cap Onward /\ "dead" \in {next, "dead"} \cap Onward /\ next # "signal" /\ next # "running"
      /\ "success" \in ServiceResult /\ "resources" \in ServiceResult /\ s \in Starting \cup {"reload"} /\ s \notin Watched
  BY Zenon DEF Onward, Takedown, ServiceResult, Starting, Watched, Reloading
<1>6. CASE x \in ThenEnter(w, next, "success")
  BY <1>3, <1>5, <1>6, ThenGood, Zenon DEF ThenEnter
<1>7. CASE x \in ThenDead(v, "resources")
  BY <1>1, <1>3, <1>5, <1>7, ThenGood, Zenon DEF ThenDead
<1>8. ASSUME NEW y \in SpawnControl(v, n, conf.timeout_start), x = service_set_state(y, s)
      PROVE  Good(x, w, {s}, {next, "dead"})
  <2>1. Good(service_set_state(y, s), w, {s}, {next, "dead"})
    BY <1>1, <1>3, <1>4, <1>5, <1>8, CommandGood, Zenon
  <2> QED BY <1>8, <2>1, Zenon
<1>9. ASSUME NEW y \in SpawnFails(v, conf.timeout_start), x \in ThenDead(y, "resources")
      PROVE  Good(x, w, {s}, {next, "dead"})
  BY <1>1, <1>3, <1>5, <1>9, FailsGood, Zenon DEF ThenDead
<1> QED BY <1>2, <1>6, <1>7, <1>8, <1>9, Zenon

\* The main process is forgotten, or another command is its command.
LEMMA ClearMain ==
  ASSUME NEW w, Calm(w)
  PROVE  LET x == [w EXCEPT !.main = NoPid]
         IN /\ Calm(x) /\ Keeps(x, w) /\ x.main = NoPid /\ x.control = w.control /\ x.main_known = w.main_known
            /\ x.main_command = w.main_command /\ x.live = w.live /\ x.timer = w.timer
  BY DEF Calm, Typed, Object, Fields, Keeps, Same
LEMMA MainCommand ==
  ASSUME NEW w, Calm(w), NEW m \in Nat, m <= conf.commands["start"]
  PROVE  LET x == [w EXCEPT !.main_command = m]
         IN /\ Calm(x) /\ Keeps(x, w) /\ Group(x, w) /\ x.control = w.control /\ x.timer = w.timer
<1> DEFINE x == [w EXCEPT !.main_command = m]
<1>1. Object(w)
  BY Zenon DEF Calm, Typed
<1>2. x = [k \in Fields |-> x[k]] /\ x.main_command = m /\ \A k \in Fields \ {"main_command"} : x[k] = w[k]
  BY <1>1, Zenon DEF Object, Fields
<1> HIDE DEF x
<1>3. /\ Keeps(x, w) /\ Group(x, w) /\ x.control = w.control /\ x.timer = w.timer
      /\ x.live = w.live /\ x.zombie = w.zombie /\ x.foreign = w.foreign /\ x.control_command = w.control_command
      /\ x.result = w.result /\ x.reload_result = w.reload_result
  BY <1>2, ZenonT(30) DEF Fields, Keeps, Same, Group
<1>4. Object(x) /\ 0 <= x.main_command
  BY <1>1, <1>2, <1>3 DEF Object
<1>5. Calm(x)
  BY <1>3, <1>4, Zenon DEF Calm, Typed, Keeps, Same, Group
<1> QED BY <1>3, <1>5, Zenon DEF x

\* A service without ExecStart= is started as soon as it is starting.
LEMMA StartedGood ==
  ASSUME NEW w, NEW v, Calm(v), Same(v, w), v.exec_fd = "none",
         NEW x \in ThenEnter(service_set_state(v, "start"), "start-post", "success")
  PROVE  Good(x, w, {"start"}, {"start-post", "signal"})
<1> DEFINE y == service_set_state(v, "start")
<1>1. "start" \in ServiceState \ BeforeRestart /\ "start" \notin Watched /\ "start-post" \in Onward /\ "success" \in ServiceResult
  BY Zenon DEF ServiceState, Starting, BeforeRestart, Watched, Reloading, Onward, ServiceResult
<1>2. Calm(y)
  BY <1>1, SetStateSound, Zenon
<1>3. Reports(y, v, "start") /\ Cleaned(y, v, "start")
  BY SetStateReports, Zenon DEF Calm
<1> HIDE DEF y
<1>4. y.exec_fd = "none"
  BY <1>3, Zenon DEF Cleaned
<1>5. Sound(x) /\ Same(x, y)
  BY <1>1, <1>2, <1>4, ThenSound, Zenon DEF ThenEnter, y
<1>6. Reports(x, v, "start")
  BY <1>3, <1>5, Zenon DEF Same, Reports, Job
<1>7. Reports(x, w, "start")
  BY <1>6, SameReports, Zenon
<1> QED BY <1>5, <1>7, Zenon DEF Good, Leads, Tells

\* A main process is started: the service is up, or has yet to tell.
LEMMA LaunchedGood ==
  ASSUME NEW w, NEW v, Calm(v), Same(v, w), v.exec_fd = "none", v.control = NoPid, NEW finite,
         NEW x \in Launched(SpawnMain(v, conf.commands["start"], finite))
  PROVE  Good(x, w, {"start"}, {"start-post", "signal"})
<1>1. PICK y \in SpawnMain(v, conf.commands["start"], finite) :
         IF conf.type \in {"simple", "idle"} THEN x \in ThenEnter(y, "start-post", "success")
         ELSE x = service_set_state(y, "start")
  BY Zenon DEF Launched
<1>2. conf.commands["start"] \in Nat /\ conf.commands["start"] <= conf.commands["start"]
  <2>1. conf.commands["start"] \in Nat
    BY Zenon DEF Calm, Typed, Commands
  <2> QED BY <2>1
<1>3. /\ Calm(y) /\ Same(y, v) /\ y.control = v.control
      /\ y.exec_fd # "none" => conf.type = "exec"
  BY <1>2, SpawnMainCalm, ZenonT(30)
<1>4. Same(y, w) /\ y.control = NoPid
  BY <1>3, Zenon DEF Same
<1>5. /\ "start" \in ServiceState \ BeforeRestart /\ "start" \notin Watched /\ "success" \in ServiceResult
      /\ "start-post" \in {"start-post", "signal"} \cap Onward
  BY Zenon DEF ServiceState, Starting, BeforeRestart, Watched, Reloading, Onward, ServiceResult
<1>6. CASE conf.type \in {"simple", "idle"}
  <2>1. y.exec_fd = "none"
    BY <1>3, <1>6, Zenon
  <2> QED BY <1>1, <1>3, <1>4, <1>5, <1>6, <2>1, ThenGood, Zenon DEF ThenEnter
<1>7. CASE conf.type \notin {"simple", "idle"}
  <2>1. Good(service_set_state(y, "start"), w, {"start"}, {"start-post", "signal"})
    BY <1>3, <1>4, <1>5, SetStateGood, Zenon
  <2> QED BY <1>1, <1>7, <2>1, Zenon
<1> QED BY <1>6, <1>7, Zenon

\* service_enter_start().
LEMMA EnterStartGood ==
  ASSUME NEW w, Calm(w), w.exec_fd = "none", NEW x \in service_enter_start(w)
  PROVE  Good(x, w, {"start"}, {"start-post", "signal"})
<1> DEFINE u == service_unwatch_control_pid(w)
           v == [u EXCEPT !.main = NoPid]
           n == conf.commands["start"]
           finite == conf.timeout_start /\ conf.type \notin {"simple", "idle"}
           m == IF conf.type = "forking" THEN 0 ELSE n
           command == [v EXCEPT !.main_command = m]
<1>1. Calm(u) /\ Keeps(u, w) /\ u.control = NoPid
  BY UnwatchCalm, Zenon
<1>2. \/ x \in ThenSignal(v, "stop-sigterm", "resources")
      \/ x \in ThenEnter(service_set_state(command, "start"), "start-post", "success")
      \/ conf.type = "forking" /\ x \in Launched(SpawnControl(command, n, finite))
      \/ x \in Launched(SpawnMain(command, n, finite))
      \/ x \in UNION {ThenSignal(y, "stop-sigterm", "resources") : y \in SpawnMainFails(command, finite)}
  BY Zenon DEF service_enter_start
<1> HIDE DEF u, finite
<1>3. Calm(v) /\ Keeps(v, u) /\ v.control = u.control
  BY <1>1, ClearMain, Zenon
<1> HIDE DEF v
<1>4. n \in Nat
  BY Zenon DEF Calm, Typed, Commands
<1>5. m \in Nat /\ m <= n
  BY <1>4
<1> HIDE DEF m
<1>6. Calm(command) /\ Keeps(command, v) /\ command.control = v.control
  BY <1>3, <1>5, MainCommand, Zenon
<1> HIDE DEF command
<1>7. Same(v, w) /\ v.exec_fd = "none" /\ Same(command, w) /\ command.exec_fd = "none" /\ command.control = NoPid
  BY <1>1, <1>3, <1>6, Zenon DEF Keeps, Same
<1>8. /\ "stop-sigterm" \in Signals /\ "signal" \in {"start-post", "signal"} \cap Onward /\ "signal" \in Takedown
      /\ "resources" \in ServiceResult /\ "start" \in Starting \cup {"reload"} /\ "start" \notin Watched
  BY Zenon DEF Signals, StopSignal, Onward, Takedown, ServiceResult, Starting, Watched, Reloading
<1>9. CASE x \in ThenSignal(v, "stop-sigterm", "resources")
  BY <1>3, <1>7, <1>8, <1>9, ThenGood, Zenon DEF ThenSignal
<1>10. CASE x \in ThenEnter(service_set_state(command, "start"), "start-post", "success")
  BY <1>6, <1>7, <1>10, StartedGood, Zenon
<1>11. ASSUME NEW y \in SpawnControl(command, n, finite), x = service_set_state(y, "start")
       PROVE  Good(x, w, {"start"}, {"start-post", "signal"})
  <2>1. Good(service_set_state(y, "start"), w, {"start"}, {"start-post", "signal"})
    BY <1>4, <1>6, <1>7, <1>8, <1>11, CommandGood, Zenon
  <2> QED BY <1>11, <2>1, Zenon
<1>12. CASE conf.type = "forking" /\ x \in Launched(SpawnControl(command, n, finite))
  <2>1. x \in {service_set_state(y, "start") : y \in SpawnControl(command, n, finite)}
    BY <1>12, Zenon DEF Launched
  <2> QED BY <1>11, <2>1, Zenon
<1>13. CASE x \in Launched(SpawnMain(command, n, finite))
  BY <1>6, <1>7, <1>13, LaunchedGood, Zenon
<1>14. ASSUME NEW y \in SpawnMainFails(command, finite), x \in ThenSignal(y, "stop-sigterm", "resources")
       PROVE  Good(x, w, {"start"}, {"start-post", "signal"})
  <2>1. Calm(y) /\ Same(y, command)
    BY <1>6, <1>14, SpawnMainFailsCalm, Zenon
  <2>2. Same(y, w)
    BY <1>7, <2>1, Zenon DEF Same
  <2> QED BY <1>8, <1>14, <2>1, <2>2, ThenGood, Zenon DEF ThenSignal
<1> HIDE DEF n
<1> QED BY <1>2, <1>9, <1>10, <1>12, <1>13, <1>14, Zenon

\* service_enter_reload().
LEMMA EnterReloadGood ==
  ASSUME NEW w, Calm(w), w.exec_fd = "none", Watchable => w.watchdog, NEW x \in service_enter_reload(w)
  PROVE  Good(x, w, {"reload", "reload-signal"}, {"running"})
<1> DEFINE u == service_unwatch_control_pid(w)
           v == [u EXCEPT !.reload_result = "success"]
           n == conf.commands["reload"]
           armed == service_arm_timer(v, conf.timeout_start)
<1>1. Calm(u) /\ Keeps(u, w)
  BY UnwatchCalm, Zenon
<1>2. \/ x \in {service_set_state(y, "reload") : y \in SpawnControl(v, n, conf.timeout_start)}
      \/ x \in UNION {ReloadFails(y, "resources") : y \in SpawnFails(v, conf.timeout_start)}
      \/ x = service_set_state(armed, "reload-signal")
      \/ x \in ReloadFails(v, "resources")
      \/ x \in ThenEnter(v, "running", "success")
  BY Zenon DEF service_enter_reload
<1> HIDE DEF u
<1>3. "success" \in ServiceResult /\ "resources" \in ServiceResult
  BY Zenon DEF ServiceResult
<1>4. Calm(v) /\ Keeps(v, u)
  BY <1>1, <1>3, ReloadResult, Zenon
<1> HIDE DEF v
<1>5. Calm(armed) /\ Keeps(armed, v)
  BY <1>4, ArmCalm, Zenon
<1> HIDE DEF armed
<1>6. Same(v, w) /\ v.exec_fd = "none" /\ (Watchable => v.watchdog)
  BY <1>1, <1>4, Zenon DEF Keeps, Same
<1>7. Same(armed, w) /\ armed.exec_fd = "none" /\ (Watchable => armed.watchdog)
  BY <1>5, <1>6, Zenon DEF Keeps, Same
<1>8. n \in Nat
  BY Zenon DEF Calm, Typed, Commands
<1> HIDE DEF n
<1>9. /\ "running" \in {"running"} \cap Onward /\ "reload" \in Starting \cup {"reload"}
      /\ "reload-signal" \in ServiceState \ BeforeRestart
  BY Zenon DEF Onward, Starting, ServiceState, Reloading, BeforeRestart
<1>10. ASSUME NEW y \in SpawnControl(v, n, conf.timeout_start), x = service_set_state(y, "reload")
       PROVE  Good(x, w, {"reload", "reload-signal"}, {"running"})
  <2>1. Good(service_set_state(y, "reload"), w, {"reload", "reload-signal"}, {"running"})
    BY <1>4, <1>6, <1>8, <1>9, <1>10, CommandGood, Zenon
  <2> QED BY <1>10, <2>1, Zenon
<1>11. ASSUME NEW y \in SpawnFails(v, conf.timeout_start), x \in ReloadFails(y, "resources")
       PROVE  Good(x, w, {"reload", "reload-signal"}, {"running"})
  <2>1. Calm(y) /\ Keeps(y, v)
    BY <1>4, <1>11, SpawnFailsCalm, Zenon
  <2>2. Same(y, w) /\ y.exec_fd = "none" /\ (Watchable => y.watchdog)
    BY <1>6, <2>1, Zenon DEF Keeps, Same
  <2> QED BY <1>3, <1>11, <2>1, <2>2, ReloadFailsGood, Zenon
<1>12. CASE x = service_set_state(armed, "reload-signal")
  <2>1. Good(service_set_state(armed, "reload-signal"), w, {"reload", "reload-signal"}, {"running"})
    BY <1>5, <1>7, <1>9, SetStateGood, Zenon
  <2> QED BY <1>12, <2>1, Zenon
<1>13. CASE x \in ReloadFails(v, "resources")
  BY <1>3, <1>4, <1>6, <1>13, ReloadFailsGood, Zenon
<1>14. CASE x \in ThenEnter(v, "running", "success")
  BY <1>3, <1>4, <1>6, <1>9, <1>14, ThenGood, Zenon DEF ThenEnter
<1> QED BY <1>2, <1>10, <1>11, <1>12, <1>13, <1>14, Zenon

\* The states with processes have a timer.
LEMMA ProcessStates == WithMain \subseteq Timed /\ WithControl \subseteq Timed /\ "reload" \in Watched
  BY Zenon DEF WithMain, WithControl, Timed, Watched, Starting, Reloading

\* The main process is not the control process's business.
LEMMA SpawnControlMain ==
  ASSUME NEW w, Calm(w), w.exec_fd = "none", NEW n, NEW finite, NEW x \in SpawnControl(w, n, finite) PROVE x.main = w.main
<1>1. PICK p \in Fresh(w) : x = [Spawn(w, p, finite) EXCEPT !.control = p, !.control_command = n]
  BY Zenon DEF SpawnControl
<1>2. Object(w)
  BY Zenon DEF Calm, Typed
<1> QED BY <1>1, <1>2, Zenon DEF Spawn, Object, Fields

\* A control command that has a successor: that one runs.
LEMMA RunNextControlGood ==
  ASSUME NEW w, Calm(w), Rests(w), w.exec_fd = "none", w.state \in WithControl, ~ w.pid_watch, w.control_command > 1,
         NEW x \in service_run_next_control(w)
  PROVE  Sound(x) /\ (Leads(x, w, {}, Onward) \/ Same(x, w))
<1> DEFINE v == service_unwatch_control_pid(w)
           n == w.control_command - 1
           finite == IF w.state \in Starting \cup {"running", "reload"} THEN conf.timeout_start ELSE conf.timeout_stop
<1>1. Calm(v) /\ Keeps(v, w) /\ v.main = w.main
  BY UnwatchCalm, Zenon DEF Group
<1>2. \/ x \in SpawnControl(v, n, finite)
      \/ \E y \in SpawnFails(v, finite) :
            \/ x \in ThenSignal(y, "stop-sigterm", "resources")
            \/ x \in ThenDead(y, "resources")
            \/ w.state = "reload" /\ x \in ReloadFails(y, "resources")
            \/ x \in ThenEnter(y, "stop", "resources")
  BY ZenonT(30) DEF service_run_next_control
<1>3. n \in Nat
  BY DEF Calm, Typed
<1> HIDE DEF v, n, finite
<1>4. Same(v, w) /\ v.exec_fd = "none" /\ v.watchdog = w.watchdog /\ v.pid_watch = w.pid_watch
  BY <1>1, Zenon DEF Keeps
<1>5. CASE x \in SpawnControl(v, n, finite)
  <2>1. Calm(x) /\ (x.aborted \/ Keeps(x, v)) /\ x.main = v.main
    BY <1>1, <1>3, <1>4, <1>5, SpawnControlCalm, SpawnControlMain
  <2>2. CASE x.aborted
    BY <2>1, <2>2, Zenon DEF Sound, Calm, Leads
  <2>3. CASE Keeps(x, v)
    <3>1. Same(x, w) /\ x.exec_fd = "none" /\ x.watchdog = w.watchdog /\ x.pid_watch = w.pid_watch /\ x.main = w.main
      BY <1>1, <1>4, <2>1, <2>3, Zenon DEF Keeps, Same
    <3>2. x.state \in WithControl /\ x.state \in Timed /\ x.state = w.state
      BY <3>1, ProcessStates, Zenon DEF Same
    <3>3. Rests(x)
      BY <3>1, <3>2, Zenon DEF Rests
    <3> QED BY <2>1, <3>1, <3>3, Zenon DEF Sound, Calm
  <2> QED BY <2>1, <2>2, <2>3, Zenon
<1>6. ASSUME NEW y \in SpawnFails(v, finite),
             \/ x \in ThenSignal(y, "stop-sigterm", "resources")
             \/ x \in ThenDead(y, "resources")
             \/ w.state = "reload" /\ x \in ReloadFails(y, "resources")
             \/ x \in ThenEnter(y, "stop", "resources")
      PROVE  Good(x, w, {}, Onward)
  <2>1. /\ "stop-sigterm" \in Signals /\ "signal" \in Onward \cap Onward /\ "dead" \in Onward \cap Onward
        /\ "stop" \in Onward \cap Onward /\ "running" \in Onward /\ "resources" \in ServiceResult
    BY Zenon DEF Signals, StopSignal, Onward, Takedown, ServiceResult
  <2>2. CASE x \in ThenSignal(y, "stop-sigterm", "resources")
    BY <1>1, <1>4, <2>1, <2>2, FailsGood, Zenon DEF ThenSignal
  <2>3. CASE x \in ThenDead(y, "resources")
    BY <1>1, <1>4, <2>1, <2>3, FailsGood, Zenon DEF ThenDead
  <2>4. CASE x \in ThenEnter(y, "stop", "resources")
    BY <1>1, <1>4, <2>1, <2>4, FailsGood, Zenon DEF ThenEnter
  <2>5. CASE w.state = "reload" /\ x \in ReloadFails(y, "resources")
    <3>1. Calm(y) /\ Keeps(y, v)
      BY <1>1, <1>6, SpawnFailsCalm, Zenon
    <3>2. Watchable => w.watchdog
      BY <2>5, ProcessStates, Zenon DEF Rests
    <3>3. Same(y, w) /\ y.exec_fd = "none" /\ (Watchable => y.watchdog)
      BY <1>4, <3>1, <3>2, Zenon DEF Keeps, Same
    <3> QED BY <2>1, <2>5, <3>1, <3>3, ReloadFailsGood, Zenon
  <2> QED BY <1>6, <2>2, <2>3, <2>4, <2>5, Zenon
<1> QED BY <1>2, <1>5, <1>6, Zenon DEF Good

\* A main command that has a successor, of a Type=oneshot service: that one runs.
LEMMA RunNextMainGood ==
  ASSUME NEW w, Calm(w), Rests(w), w.exec_fd = "none", w.state \in WithMain, conf.type = "oneshot", w.main_command > 1,
         NEW x \in service_run_next_main(w)
  PROVE  Sound(x) /\ (Leads(x, w, {}, Onward) \/ Same(x, w))
<1> DEFINE v == [w EXCEPT !.main = NoPid]
           n == w.main_command - 1
<1>1. Calm(v) /\ Keeps(v, w) /\ v.control = w.control
  BY ClearMain, Zenon
<1>2. \/ x \in SpawnMain(v, n, conf.timeout_start)
      \/ \E y \in SpawnFails(v, conf.timeout_start) : x \in ThenEnter([y EXCEPT !.main_command = n], "stop", "resources")
  BY Zenon DEF service_run_next_main
<1>3. n \in Nat /\ n <= conf.commands["start"]
  BY DEF Calm, Typed, Object
<1> HIDE DEF v, n
<1>4. Same(v, w) /\ v.exec_fd = "none" /\ v.watchdog = w.watchdog /\ v.pid_watch = w.pid_watch
  BY <1>1, Zenon DEF Keeps
<1>5. CASE x \in SpawnMain(v, n, conf.timeout_start)
  <2>1. /\ Calm(x) /\ Same(x, v) /\ x.aborted = v.aborted
        /\ x.watchdog = v.watchdog /\ x.control = v.control /\ x.pid_watch = v.pid_watch
        /\ x.exec_fd # "none" => conf.type = "exec"
    BY <1>1, <1>3, <1>4, <1>5, SpawnMainCalm
  <2>2. /\ Same(x, w) /\ x.watchdog = w.watchdog /\ x.control = w.control /\ x.pid_watch = w.pid_watch /\ x.exec_fd = "none"
    BY <1>1, <1>4, <2>1, Zenon DEF Same
  <2>3. x.state \in WithMain /\ x.state \in Timed /\ x.state = w.state
    BY <2>2, ProcessStates, Zenon DEF Same
  <2>4. Rests(x)
    BY <2>2, <2>3, Zenon DEF Rests
  <2> QED BY <2>1, <2>2, <2>4, Zenon DEF Sound, Calm
<1>6. ASSUME NEW y \in SpawnFails(v, conf.timeout_start), x \in ThenEnter([y EXCEPT !.main_command = n], "stop", "resources")
      PROVE  Good(x, w, {}, Onward)
  <2> DEFINE z == [y EXCEPT !.main_command = n]
  <2>1. Calm(y) /\ Keeps(y, v)
    BY <1>1, <1>6, SpawnFailsCalm, Zenon
  <2>2. Calm(z) /\ Keeps(z, y)
    BY <1>3, <2>1, MainCommand, Zenon
  <2>3. x \in Then(z, "stop", "resources", "none")
    BY <1>6, Zenon DEF ThenEnter
  <2> HIDE DEF z
  <2>4. Same(z, w) /\ z.exec_fd = "none"
    BY <1>4, <2>1, <2>2, Zenon DEF Keeps, Same
  <2>5. "stop" \in Onward \cap Onward /\ "resources" \in ServiceResult
    BY Zenon DEF Onward, ServiceResult
  <2> QED BY <2>2, <2>3, <2>4, <2>5, ThenGood, Zenon
<1> QED BY <1>2, <1>5, <1>6, Zenon DEF Good

\* The type of the unit's job after a new one of type t is installed.
Merged(w, t) ==
    IF w.job = "none" \/ job_type_is_conflicting(w.job, t) THEN t
    ELSE job_type_merge_and_collapse(w.job, t, service_active_state(w.state))

\* Jobs that do not conflict merge.
LEMMA MergedType ==
  ASSUME NEW w, w.job \in MergingTypes \cup {"none"}, NEW t \in MergingTypes PROVE Merged(w, t) \in MergingTypes
<1> DEFINE j == w.job
           a == service_active_state(w.state)
<1>1. ASSUME j \in MergingTypes, ~ job_type_is_conflicting(j, t) PROVE job_type_merge_and_collapse(j, t, a) \in MergingTypes
  <2> HIDE DEF j, a
  <2> DEFINE m == job_type_lookup_merge(j, t)
  <2>1. m # "unmergeable"
    BY <1>1, Zenon DEF job_type_is_conflicting, job_type_is_mergeable, MergingTypes
  <2>2. m \in MergingTypes \cup {"reload-or-start"}
    BY <1>1, <2>1, Zenon DEF job_type_lookup_merge, MergingTypes
  <2> HIDE DEF m
  <2>3. job_type_merge_and_collapse(j, t, a) = job_type_collapse(m, a)
    BY Zenon DEF job_type_merge_and_collapse, m
  <2> QED BY <2>2, <2>3, Zenon DEF job_type_collapse, MergingTypes
<1> QED BY <1>1, Zenon DEF Merged

\* job_install() changes the job.
LEMMA InstallTyped ==
  ASSUME NEW w, Object(w), NEW t
  PROVE  LET x == job_install(w, service_active_state(w.state), t)
         IN /\ Object(x) /\ \A k \in Fields \ {"job", "run"} : x[k] = w[k]
            /\ x.job = Merged(w, t)
            /\ w.job = "none" \/ job_type_is_conflicting(w.job, t) => x.run = FALSE
            /\ x.run = w.run \/ x.run = FALSE
<1> DEFINE a == service_active_state(w.state)
           x == job_install(w, a, t)
           new == w.job = "none" \/ job_type_is_conflicting(w.job, t)
           m == job_type_merge_and_collapse(w.job, t, a)
           r == w.run /\ t # "reload" /\ job_type_is_superset(w.job, t)
<1>1. CASE new
  <2>1. x = [w EXCEPT !.job = t, !.run = FALSE] /\ Merged(w, t) = t
    BY <1>1, Zenon DEF job_install, Merged
  <2> HIDE DEF x, new
  <2>2. x = [k \in Fields |-> x[k]] /\ x.job = t /\ x.run = FALSE /\ \A k \in Fields \ {"job", "run"} : x[k] = w[k]
    BY <2>1, ZenonT(30) DEF Object, Fields
  <2>3. x.live = w.live /\ x.zombie = w.zombie /\ x.main_command = w.main_command
    BY <2>2, Zenon DEF Fields
  <2>4. Object(x)
    BY <2>2, <2>3, Zenon DEF Object
  <2> QED BY <2>1, <2>2, <2>4, Zenon DEF x
<1>2. CASE ~ new
  <2>1. x = [w EXCEPT !.job = m, !.run = r] /\ Merged(w, t) = m
    BY <1>2, Zenon DEF job_install, Merged
  <2>2. r \in {FALSE, TRUE} /\ (r => w.run)
    BY Zenon
  <2> HIDE DEF x, r, m
  <2>3. x = [k \in Fields |-> x[k]] /\ x.job = m /\ x.run = r /\ \A k \in Fields \ {"job", "run"} : x[k] = w[k]
    BY <2>1, ZenonT(30) DEF Object, Fields
  <2>4. x.live = w.live /\ x.zombie = w.zombie /\ x.main_command = w.main_command
    BY <2>3, Zenon DEF Fields
  <2>5. Object(x)
    BY <2>3, <2>4, Zenon DEF Object
  <2> QED BY <1>2, <2>1, <2>2, <2>3, <2>5, Zenon DEF x
<1> QED BY <1>1, <1>2, Zenon

\* service_enter_restart(): nothing, because the service is being stopped; no
\* restart, because it failed; or a job of its own, and a report.
LEMMA EnterRestartGood ==
  ASSUME NEW w, Calm(w), NEW x \in service_enter_restart(w)
  PROVE  \/ x = w
         \/ Good(x, w, Restarts, {})
         \/ /\ Sound(x)
            /\ \E y : /\ y.notified = w.notified /\ Job(y) = <<Merged(w, "start"), FALSE>>
                      /\ Reports(x, y, "auto-restart-queued")
<1> DEFINE u == job_install(w, service_active_state(w.state), "start")
           v == [u EXCEPT !.run = FALSE]
           z == service_set_state(v, "auto-restart-queued")
<1>1. x = w \/ x \in service_enter_dead(w, "resources", FALSE) \/ x = z
  BY Zenon DEF service_enter_restart
<1>2. CASE x \in service_enter_dead(w, "resources", FALSE)
  <2>1. "resources" \in ServiceResult
    BY Zenon DEF ServiceResult
  <2> QED BY <1>2, <2>1, EnterDeadGood, Zenon
<1>3. Object(w)
  BY Zenon DEF Calm, Typed
<1>4. Object(u) /\ u.job = Merged(w, "start") /\ \A k \in Fields \ {"job", "run"} : u[k] = w[k]
  BY <1>3, InstallTyped, Zenon
<1> HIDE DEF u
<1>5. v = [k \in Fields |-> v[k]] /\ v.run = FALSE /\ \A k \in Fields \ {"run"} : v[k] = u[k]
  BY <1>4, Zenon DEF Object, Fields
<1> HIDE DEF v
<1>6. v.job = Merged(w, "start") /\ \A k \in Fields \ {"job", "run"} : v[k] = w[k]
  BY <1>4, <1>5, Zenon DEF Fields
<1>7. /\ v.state = w.state /\ v.next = w.next /\ v.aborted = w.aborted /\ v.notified = w.notified
      /\ v.exec_fd = w.exec_fd /\ v.main = w.main /\ v.control = w.control /\ v.main_known = w.main_known
  BY <1>6, Zenon DEF Fields
<1>8. /\ v.main_command = w.main_command /\ v.control_command = w.control_command
      /\ v.result = w.result /\ v.reload_result = w.reload_result /\ v.notify_state = w.notify_state
      /\ v.live = w.live /\ v.zombie = w.zombie /\ v.foreign = w.foreign
  BY <1>6, Zenon DEF Fields
<1>9. Object(v)
  BY <1>3, <1>5, <1>8, Zenon DEF Object
<1>10. v.job \in MergingTypes \cup {"none"}
  <2>1. w.job \in MergingTypes \cup {"none"} /\ "start" \in MergingTypes
    BY Zenon DEF Calm, Typed, MergingTypes
  <2> QED BY <1>6, <2>1, MergedType, Zenon
<1>11. Calm(v)
  <2>1. Typed(v)
    BY <1>7, <1>8, <1>9, <1>10, Zenon DEF Calm, Typed
  <2> QED BY <1>7, <2>1, Zenon DEF Calm
<1>12. "auto-restart-queued" \in ServiceState \ BeforeRestart /\ "auto-restart-queued" \notin Watched
  BY Zenon DEF ServiceState, BeforeRestart, AutoRestart, Watched, Reloading
<1>13. Sound(z)
  BY <1>11, <1>12, SetStateSound, Zenon
<1>14. Reports(z, v, "auto-restart-queued")
  BY <1>11, SetStateReports, Zenon DEF Calm
<1>15. Job(v) = <<Merged(w, "start"), FALSE>>
  BY <1>5, <1>6, Zenon DEF Job
<1> HIDE DEF z
<1> QED BY <1>1, <1>2, <1>7, <1>13, <1>14, <1>15, Zenon

\* The states that no call in progress leads to.
All == ServiceState \ {"cleaning"}

\* A call that is due can be made.
LEMMA CallCalm ==
  ASSUME NEW u, Sound(u), u.next # NoCall, ~ u.aborted
  PROVE  LET w == [u EXCEPT !.next = NoCall]
         IN Calm(w) /\ Same(w, u) /\ w.exec_fd = u.exec_fd /\ w.watchdog = u.watchdog
<1> DEFINE w == [u EXCEPT !.next = NoCall]
<1>1. Object(u)
  BY Zenon DEF Sound, Typed
<1>2. w = [k \in Fields |-> w[k]] /\ w.next = NoCall /\ \A k \in Fields \ {"next"} : w[k] = u[k]
  BY <1>1, ZenonT(30) DEF Object, Fields
<1> HIDE DEF w
<1>3. /\ w.state = u.state /\ w.aborted = u.aborted /\ w.notified = u.notified /\ w.job = u.job /\ w.run = u.run
      /\ w.perform = u.perform /\ w.forbid_restart = u.forbid_restart /\ w.watchdog = u.watchdog
      /\ w.exec_fd = u.exec_fd /\ w.main = u.main /\ w.control = u.control /\ w.main_known = u.main_known
  BY <1>2, Zenon DEF Fields
<1>4. /\ w.main_command = u.main_command /\ w.control_command = u.control_command
      /\ w.result = u.result /\ w.reload_result = u.reload_result /\ w.notify_state = u.notify_state
      /\ w.live = u.live /\ w.zombie = u.zombie /\ w.foreign = u.foreign
  BY <1>2, Zenon DEF Fields
<1>5. Object(w)
  BY <1>1, <1>2, <1>3, <1>4, Zenon DEF Object
<1>6. Typed(w)
  BY <1>3, <1>4, <1>5, Zenon DEF Sound, Typed
<1> QED BY <1>2, <1>3, <1>4, <1>6, Zenon DEF Calm, Sound, Same, w

\* What a call that is due leads to: nothing but the end once a service is on its
\* way down for good, and no reload the service did not ask for.
LEMMA CallGood ==
  ASSUME NEW u, Sound(u), u.next # NoCall, ~ u.aborted, NEW x \in Call(u)
  PROVE  /\ Good(x, u, All, Onward)
         /\ u.notify_state # "reloading" => Good(x, u, All \ Reloading, Onward)
         /\ u.next[1] \in Takedown /\ u.forbid_restart => Good(x, u, Ends \cup Stopping, Takedown)
<1> DEFINE w == [u EXCEPT !.next = NoCall]
           op == u.next[1]
           f == u.next[2]
           to == u.next[3]
           few == Ends \cup Stopping
<1>1. Calm(w) /\ Same(w, u) /\ w.exec_fd = u.exec_fd /\ w.watchdog = u.watchdog
  BY CallCalm, Zenon
<1>2. /\ op \in Onward /\ f \in ServiceResult
      /\ op = "signal" => to \in Signals
      /\ u.exec_fd # "none" => op \in Takedown
      /\ Watchable /\ op = "running" => u.watchdog
  BY Zenon DEF Sound, Goes
<1>3. \/ op = "dead" /\ x \in service_enter_dead(w, f, to = "restart")
      \/ op = "signal" /\ x \in service_enter_signal(w, to, f)
      \/ op = "stop-post" /\ x \in service_enter_stop_post(w, f)
      \/ op = "stop" /\ x \in service_enter_stop(w, f)
      \/ op = "running" /\ x \in service_enter_running(w, f)
      \/ op = "start-post" /\ x \in service_enter_start_post(w)
      \/ op = "start" /\ x \in service_enter_start(w)
      \/ op = "start-pre" /\ x \in service_enter_start_pre(w)
  BY <1>2, Zenon DEF Call, Onward, Takedown
<1> HIDE DEF w, op, f, to
<1>4. w.forbid_restart = u.forbid_restart /\ w.notify_state = u.notify_state
  BY <1>1, Zenon DEF Same
<1>5. ASSUME NEW S, NEW O, Good(x, w, S, O), NEW T, S \subseteq T, NEW P, O \subseteq P PROVE Good(x, u, T, P)
  BY <1>1, <1>5, GoodMore, GoodAfter, Zenon
<1>6. ASSUME NEW S, NEW O, Good(x, w, S, O), S \subseteq All \ Reloading, O \subseteq Onward
      PROVE  Good(x, u, All, Onward) /\ Good(x, u, All \ Reloading, Onward)
  BY <1>5, <1>6, Zenon
<1>7. few \subseteq All \ Reloading /\ Restarts \subseteq All \ Reloading /\ Takedown \subseteq Onward /\ {} \subseteq Onward
  BY Zenon DEF All, Ends, Restarts, ServiceState, Reloading, Stopping, StopSignal, FinalSignal, BeforeRestart, AutoRestart, Onward
<1> SUFFICES /\ Good(x, u, All, Onward)
             /\ u.notify_state # "reloading" => Good(x, u, All \ Reloading, Onward)
             /\ op \in Takedown /\ u.forbid_restart => Good(x, u, few, Takedown)
  BY Zenon DEF op
<1>8. CASE op = "dead" /\ x \in service_enter_dead(w, f, to = "restart")
  <2>1. Good(x, w, Restarts, {}) /\ (w.forbid_restart => Good(x, w, Ends, {}))
    BY <1>1, <1>2, <1>8, EnterDeadGood, Zenon
  <2>2. Good(x, u, All, Onward) /\ Good(x, u, All \ Reloading, Onward)
    BY <1>6, <1>7, <2>1
  <2>3. w.forbid_restart => Good(x, u, few, Takedown)
    BY <1>5, <2>1
  <2> QED BY <1>4, <2>2, <2>3, Zenon
<1>9. ASSUME NEW S, NEW O, Good(x, w, S, O), S \subseteq few, O \subseteq Takedown
      PROVE  Good(x, u, All, Onward) /\ Good(x, u, All \ Reloading, Onward) /\ Good(x, u, few, Takedown)
  BY <1>5, <1>6, <1>7, <1>9, Zenon
<1>10. CASE op = "signal" /\ x \in service_enter_signal(w, to, f)
  <2>1. Good(x, w, {to}, Takedown)
    BY <1>1, <1>2, <1>10, EnterSignalGood, Zenon
  <2>2. {to} \subseteq few
    BY <1>2, <1>10, Zenon DEF Signals, Stopping
  <2> QED BY <1>9, <2>1, <2>2, Zenon
<1>11. CASE op = "stop-post" /\ x \in service_enter_stop_post(w, f)
  <2>1. Good(x, w, {"stop-post"}, {"signal"})
    BY <1>1, <1>2, <1>11, EnterStopPostGood, Zenon
  <2>2. {"stop-post"} \subseteq few /\ {"signal"} \subseteq Takedown
    BY Zenon DEF Stopping, Takedown
  <2> QED BY <1>9, <2>1, <2>2
<1>12. op \notin Takedown => w.exec_fd = "none"
  BY <1>1, <1>2, Zenon
<1>13. CASE op = "stop" /\ x \in service_enter_stop(w, f)
  <2>1. op \notin Takedown
    BY <1>13, Zenon DEF Takedown
  <2>2. Good(x, w, {"stop"}, {"signal"})
    BY <1>1, <1>2, <1>12, <1>13, <2>1, EnterStopGood, Zenon
  <2>3. {"stop"} \subseteq All \ Reloading /\ {"signal"} \subseteq Onward
    BY Zenon DEF All, ServiceState, Reloading, Stopping, Onward, Takedown
  <2> QED BY <1>6, <2>1, <2>2, <2>3
<1>14. CASE op = "running" /\ x \in service_enter_running(w, f)
  <2>1. op \notin Takedown
    BY <1>14, Zenon DEF Takedown
  <2>2. Good(x, w, Runs(w), {"signal", "stop", "running"})
    BY <1>1, <1>2, <1>12, <1>14, <2>1, EnterRunningGood, ZenonT(30)
  <2>3. {"signal", "stop", "running"} \subseteq Onward /\ Runs(w) \subseteq All
    BY Zenon DEF Onward, Takedown, Runs, All, ServiceState, Reloading, Stopping, StopSignal
  <2>4. u.notify_state # "reloading" => Runs(w) \subseteq All \ Reloading
    BY <1>4, Zenon DEF Runs, All, ServiceState, Reloading, Stopping, StopSignal
  <2> QED BY <1>5, <2>1, <2>2, <2>3, <2>4, Zenon
<1>15. CASE op = "start-post" /\ x \in service_enter_start_post(w)
  <2>1. op \notin Takedown
    BY <1>15, Zenon DEF Takedown
  <2>2. Good(x, w, {"start-post"}, {"running", "stop"})
    BY <1>1, <1>12, <1>15, <2>1, EnterStartPostGood, Zenon
  <2>3. {"start-post"} \subseteq All \ Reloading /\ {"running", "stop"} \subseteq Onward
    BY Zenon DEF All, ServiceState, Reloading, Starting, Onward, Takedown
  <2> QED BY <1>6, <2>1, <2>2, <2>3
<1>16. CASE op = "start" /\ x \in service_enter_start(w)
  <2>1. op \notin Takedown
    BY <1>16, Zenon DEF Takedown
  <2>2. Good(x, w, {"start"}, {"start-post", "signal"})
    BY <1>1, <1>12, <1>16, <2>1, EnterStartGood, Zenon
  <2>3. {"start"} \subseteq All \ Reloading /\ {"start-post", "signal"} \subseteq Onward
    BY Zenon DEF All, ServiceState, Reloading, Starting, Onward, Takedown
  <2> QED BY <1>6, <2>1, <2>2, <2>3
<1>17. CASE op = "start-pre" /\ x \in service_enter_start_pre(w)
  <2>1. op \notin Takedown
    BY <1>17, Zenon DEF Takedown
  <2>2. Good(x, w, {"start-pre"}, {"start", "dead"})
    BY <1>1, <1>12, <1>17, <2>1, ControlStepGood, Zenon DEF service_enter_start_pre
  <2>3. {"start-pre"} \subseteq All \ Reloading /\ {"start", "dead"} \subseteq Onward
    BY Zenon DEF All, ServiceState, Reloading, Starting, Onward, Takedown
  <2> QED BY <1>6, <2>1, <2>2, <2>3
<1> QED BY <1>3, <1>8, <1>10, <1>11, <1>13, <1>14, <1>15, <1>16, <1>17, ZenonT(30)

-----------------------------------------------------------------------------
(* Handlers.                                                               *)

\* The unit's job has heard nothing,
Hush(x, w) == x.state = w.state /\ Job(x) = Job(w) /\ x.notified = w.notified /\ x.perform = w.perform

\* or one report or two.
Moves(x, w) == x.aborted \/ Hush(x, w) \/ Tells(x, w, ServiceState)

\* What every handler does.
Fares(x, w) == Sound(x) /\ Moves(x, w)

\* The object a handler is called on.
Awaits(w) == Calm(w) /\ Rests(w) /\ ~ w.aborted

LEMMA SameHush == ASSUME NEW x, NEW w, Same(x, w) PROVE Hush(x, w)
  BY Zenon DEF Same, Hush, Job

LEMMA HushTells ==
  ASSUME NEW v, NEW w, Hush(v, w), NEW x, NEW S, Tells(x, v, S), S \subseteq ServiceState PROVE Tells(x, w, ServiceState)
<1>1. \A z, s : Reports(z, v, s) => Reports(z, w, s)
  BY Zenon DEF Hush, Reports
<1> QED BY <1>1, Zenon DEF Tells

\* A call a handler ends with.
LEMMA GoodFares ==
  ASSUME NEW v, NEW w, Hush(v, w), NEW x, NEW S, NEW O, Good(x, v, S, O), S \subseteq ServiceState PROVE Fares(x, w)
<1>1. CASE x.aborted
  BY <1>1, Zenon DEF Good, Fares, Moves
<1>2. CASE Same(x, v)
  <2>1. Hush(x, v)
    BY <1>2, SameHush, Zenon
  <2>2. Hush(x, w)
    BY <2>1, Zenon DEF Hush
  <2> QED BY <2>2, Zenon DEF Good, Fares, Moves
<1>3. CASE Tells(x, v, S)
  BY <1>3, HushTells, Zenon DEF Good, Fares, Moves
<1> QED BY <1>1, <1>2, <1>3, Zenon DEF Good, Leads

\* A handler may do what the job does not hear of first.
LEMMA FaresAfter == ASSUME NEW v, NEW w, Hush(v, w), NEW x, Fares(x, v) PROVE Fares(x, w)
<1>1. CASE Hush(x, v)
  BY <1>1, Zenon DEF Fares, Moves, Hush
<1>2. CASE Tells(x, v, ServiceState)
  BY <1>2, HushTells, Zenon DEF Fares, Moves
<1> QED BY <1>1, <1>2, Zenon DEF Fares, Moves

\* No call at all.
LEMMA AwaitsFares == ASSUME NEW w, NEW x, Awaits(x), Hush(x, w) PROVE Fares(x, w)
  BY Zenon DEF Awaits, Calm, Fares, Sound, Moves

\* The same for each function.
LEMMA DeadFares ==
  ASSUME NEW w, NEW v, Hush(v, w), Calm(v), NEW f \in ServiceResult, NEW b, NEW x \in service_enter_dead(v, f, b)
  PROVE  Fares(x, w)
<1>1. Restarts \subseteq ServiceState
  BY Zenon DEF Restarts, Ends, ServiceState, AutoRestart
<1>2. Good(x, v, Restarts, {})
  BY EnterDeadGood, Zenon
<1> QED BY <1>1, <1>2, GoodFares, Zenon
LEMMA SignalFares ==
  ASSUME NEW w, NEW v, Hush(v, w), Calm(v), NEW f \in ServiceResult, NEW s \in Signals, NEW x \in service_enter_signal(v, s, f)
  PROVE  Fares(x, w)
<1>1. {s} \subseteq ServiceState
  BY Zenon DEF Signals, ServiceState, Stopping
<1>2. Good(x, v, {s}, Takedown)
  BY EnterSignalGood, Zenon
<1> QED BY <1>1, <1>2, GoodFares, Zenon
LEMMA StopPostFares ==
  ASSUME NEW w, NEW v, Hush(v, w), Calm(v), NEW f \in ServiceResult, NEW x \in service_enter_stop_post(v, f)
  PROVE  Fares(x, w)
<1>1. {"stop-post"} \subseteq ServiceState
  BY Zenon DEF ServiceState, Stopping
<1>2. Good(x, v, {"stop-post"}, {"signal"})
  BY EnterStopPostGood, Zenon
<1> QED BY <1>1, <1>2, GoodFares, Zenon
LEMMA StopFares ==
  ASSUME NEW w, NEW v, Hush(v, w), Calm(v), v.exec_fd = "none", NEW f \in ServiceResult, NEW x \in service_enter_stop(v, f)
  PROVE  Fares(x, w)
<1>1. {"stop"} \subseteq ServiceState
  BY Zenon DEF ServiceState, Stopping
<1>2. Good(x, v, {"stop"}, {"signal"})
  BY EnterStopGood, Zenon
<1> QED BY <1>1, <1>2, GoodFares, Zenon
LEMMA StopByNotifyFares ==
  ASSUME NEW w, NEW v, Hush(v, w), Calm(v), NEW x \in service_enter_stop_by_notify(v)
  PROVE  Fares(x, w)
<1>1. {"stop-sigterm"} \subseteq ServiceState /\ Same(v, v)
  BY Zenon DEF ServiceState, Stopping, StopSignal, Same
<1>2. Good(x, v, {"stop-sigterm"}, {"signal"})
  BY <1>1, EnterStopByNotifyGood, Zenon
<1> QED BY <1>1, <1>2, GoodFares, Zenon
LEMMA ReloadByNotifyFares ==
  ASSUME NEW w, NEW v, Hush(v, w), Calm(v), v.exec_fd = "none", Watchable => v.watchdog,
         NEW x \in service_enter_reload_by_notify(v)
  PROVE  Fares(x, w)
<1>1. {"reload-notify"} \subseteq ServiceState /\ Same(v, v)
  BY Zenon DEF ServiceState, Reloading, Same
<1>2. Good(x, v, {"reload-notify"}, {"running"})
  BY <1>1, EnterReloadByNotifyGood, Zenon
<1> QED BY <1>1, <1>2, GoodFares, Zenon
LEMMA RunningFares ==
  ASSUME NEW w, NEW v, Hush(v, w), Calm(v), v.exec_fd = "none", Watchable => v.watchdog \/ ~ service_good(v),
         NEW f \in ServiceResult, NEW x \in service_enter_running(v, f)
  PROVE  Fares(x, w)
<1>1. Runs(v) \subseteq ServiceState
  BY Zenon DEF Runs, ServiceState, Reloading, Stopping, StopSignal
<1>2. Good(x, v, Runs(v), {"signal", "stop", "running"})
  BY EnterRunningGood, Zenon
<1> QED BY <1>1, <1>2, GoodFares, Zenon
LEMMA StartPostFares ==
  ASSUME NEW w, NEW v, Hush(v, w), Calm(v), v.exec_fd = "none", NEW x \in service_enter_start_post(v)
  PROVE  Fares(x, w)
<1>1. {"start-post"} \subseteq ServiceState
  BY Zenon DEF ServiceState, Starting
<1>2. Good(x, v, {"start-post"}, {"running", "stop"})
  BY EnterStartPostGood, Zenon
<1> QED BY <1>1, <1>2, GoodFares, Zenon
LEMMA StartFares ==
  ASSUME NEW w, NEW v, Hush(v, w), Calm(v), v.exec_fd = "none", NEW x \in service_enter_start(v)
  PROVE  Fares(x, w)
<1>1. {"start"} \subseteq ServiceState
  BY Zenon DEF ServiceState, Starting
<1>2. Good(x, v, {"start"}, {"start-post", "signal"})
  BY EnterStartGood, Zenon
<1> QED BY <1>1, <1>2, GoodFares, Zenon
LEMMA StartPreFares ==
  ASSUME NEW w, NEW v, Hush(v, w), Calm(v), v.exec_fd = "none", NEW x \in service_enter_start_pre(v)
  PROVE  Fares(x, w)
<1>1. {"start-pre"} \subseteq ServiceState
  BY Zenon DEF ServiceState, Starting
<1>2. Good(x, v, {"start-pre"}, {"start", "dead"})
  BY ControlStepGood, Zenon DEF service_enter_start_pre
<1> QED BY <1>1, <1>2, GoodFares, Zenon

-----------------------------------------------------------------------------
(* SIGCHLD of the main process.                                            *)

\* A main process that is gone is no good, and neither is its service.
LEMMA GoneBad ==
  ASSUME NEW w, w.main = NoPid, w.main_known, conf.exit_type = "main" \/ ~ cgroup_good(w) PROVE ~ service_good(w)
<1>1. main_pid_good(w) = 0
  BY Zenon DEF main_pid_good
<1> QED BY <1>1 DEF service_good

\* SIGCHLD of the last main process: the service is in a state to have one.
LEMMA MainGoneFares ==
  ASSUME NEW w, Awaits(w), w.state \in WithMain, w.exec_fd = "none", w.main = NoPid, w.main_known,
         conf.exit_type = "main" \/ ~ cgroup_good(w), NEW f \in ServiceResult, NEW x \in MainGone(w, f)
  PROVE  Fares(x, w)
<1>1. \/ x \in service_enter_stop(w, f) \/ x = w \/ x \in service_enter_start_post(w)
      \/ x \in service_enter_signal(w, "stop-sigterm", f) \/ x \in service_enter_signal(w, "stop-sigterm", "protocol")
      \/ x \in service_enter_running(w, f) \/ x \in service_enter_stop_post(w, f)
      \/ x \in service_enter_signal(w, "final-sigterm", f) \/ x \in service_enter_dead(w, f, TRUE)
  BY Zenon DEF MainGone, WithMain, Stopping
<1>2. Calm(w) /\ Hush(w, w) /\ "protocol" \in ServiceResult
  BY Zenon DEF Awaits, Hush, ServiceResult
<1>3. ~ service_good(w)
  BY GoneBad, Zenon
<1>4. x \in service_enter_running(w, f) => Fares(x, w)
  BY <1>2, <1>3, RunningFares, Zenon
<1>5. x \in service_enter_signal(w, "stop-sigterm", f) \/ x \in service_enter_signal(w, "stop-sigterm", "protocol")
      \/ x \in service_enter_signal(w, "final-sigterm", f) => Fares(x, w)
  BY <1>2, SignalNames, SignalFares, Zenon
<1>6. x \in service_enter_stop(w, f) \/ x \in service_enter_stop_post(w, f) \/ x \in service_enter_dead(w, f, TRUE) => Fares(x, w)
  BY <1>2, StopFares, StopPostFares, DeadFares, Zenon
<1>7. x = w \/ x \in service_enter_start_post(w) => Fares(x, w)
  BY <1>2, AwaitsFares, StartPostFares, Zenon
<1> QED BY <1>1, <1>4, <1>5, <1>6, <1>7, Zenon

\* A PID file names a process of the service.
LEMMA LoadPidFileCalm ==
  ASSUME NEW w, Calm(w), NEW r \in service_load_pid_file(w)
  PROVE  /\ Calm(r[2]) /\ Keeps(r[2], w) /\ r[2].control = w.control /\ r[2].timer = w.timer /\ r[2].live = w.live
         /\ r[1] \in {-1, 0, 1} /\ (r[1] <= 0 => r[2] = w)
<1>1. CASE r = <<-1, w>> \/ r = <<0, w>>
  BY <1>1 DEF Keeps, Same
<1>2. ASSUME NEW p \in w.live, r = <<1, service_set_main_pidref([w EXCEPT !.main_known = FALSE], p)>>
      PROVE  /\ Calm(r[2]) /\ Keeps(r[2], w) /\ r[2].control = w.control /\ r[2].timer = w.timer /\ r[2].live = w.live
             /\ r[1] = 1
  <2>1. Object(w) /\ p \in Pids
    BY Zenon DEF Calm, Typed, Object
  <2>2. r[1] = 1 /\ r[2] = [w EXCEPT !.main = p, !.main_known = TRUE, !.main_alien = p \in w.foreign]
    BY <1>2, <2>1, ZenonT(30) DEF service_set_main_pidref, Object, Fields
  <2>3. ASSUME NEW x, x = [w EXCEPT !.main = p, !.main_known = TRUE, !.main_alien = p \in w.foreign]
        PROVE  Calm(x) /\ Keeps(x, w) /\ x.control = w.control /\ x.timer = w.timer /\ x.live = w.live
    BY <2>1, <2>3, ZenonT(30) DEF Calm, Typed, Object, Fields, Keeps, Same
  <2> QED BY <2>2, <2>3, Zenon
<1>3. \/ r = <<-1, w>> \/ r = <<0, w>>
      \/ \E p \in w.live : r = <<1, service_set_main_pidref([w EXCEPT !.main_known = FALSE], p)>>
  BY Zenon DEF service_load_pid_file
<1>4. CASE \E p \in w.live : r = <<1, service_set_main_pidref([w EXCEPT !.main_known = FALSE], p)>>
  <2>1. /\ Calm(r[2]) /\ Keeps(r[2], w) /\ r[2].control = w.control /\ r[2].timer = w.timer /\ r[2].live = w.live
        /\ r[1] = 1
    BY <1>2, <1>4, Zenon
  <2>2. r[1] \in {-1, 0, 1} /\ (r[1] <= 0 => r[2] = w)
    BY <2>1
  <2> QED BY <2>1, <2>2, Zenon
<1> QED BY <1>1, <1>3, <1>4, Zenon

\* So does the search for it.
LEMMA SearchMainPidCalm ==
  ASSUME NEW w, Calm(w), NEW x \in service_search_main_pid(w)
  PROVE  Calm(x) /\ Keeps(x, w) /\ x.control = w.control /\ x.timer = w.timer /\ x.live = w.live
<1>1. CASE x = w
  BY <1>1, Zenon DEF Keeps, Same
<1>2. ASSUME NEW p \in w.live, x = service_set_main_pidref(w, p)
      PROVE  Calm(x) /\ Keeps(x, w) /\ x.control = w.control /\ x.timer = w.timer /\ x.live = w.live
  <2>1. Object(w) /\ p \in Pids
    BY Zenon DEF Calm, Typed, Object
  <2>2. x = w \/ x = [w EXCEPT !.main = p, !.main_known = TRUE, !.main_alien = p \in w.foreign]
    BY <1>2, Zenon DEF service_set_main_pidref
  <2>3. CASE x = [w EXCEPT !.main = p, !.main_known = TRUE, !.main_alien = p \in w.foreign]
    BY <2>1, <2>3, ZenonT(30) DEF Calm, Typed, Object, Fields, Keeps, Same
  <2> QED BY <1>1, <2>2, <2>3, Zenon
<1> QED BY <1>1, <1>2, Zenon DEF service_search_main_pid

\* The next process of a service that goes on.
LEMMA NextFares ==
  ASSUME NEW w, NEW v, Hush(v, w), NEW x, Sound(x), Leads(x, v, {}, Onward) \/ Same(x, v) PROVE Fares(x, w)
<1>1. CASE Leads(x, v, {}, Onward)
  <2>1. Good(x, v, {}, Onward) /\ {} \subseteq ServiceState
    BY <1>1, Zenon DEF Good
  <2> QED BY <2>1, GoodFares
<1>2. CASE Same(x, v)
  <2>1. Hush(x, v)
    BY <1>2, SameHush, Zenon
  <2> QED BY <2>1, Zenon DEF Fares, Moves, Hush
<1> QED BY <1>1, <1>2, Zenon

\* SIGCHLD of a main process.
LEMMA MainExitedFares ==
  ASSUME NEW u, Awaits(u), u.main # NoPid, NEW f \in ServiceResult, NEW x \in MainExited(u, f)
  PROVE  Fares(x, u)
<1> DEFINE v == [u EXCEPT !.exec_fd = "none"]
           y == [v EXCEPT !.main = NoPid]
           w == Blame(y, f)
           z == [w EXCEPT !.main_command = 0]
<1>1. \/ \E r \in service_load_pid_file(v) : r[1] > 0 /\ x = r[2]
      \/ w.main_command > 1 /\ conf.type = "oneshot" /\ x \in service_run_next_main(w)
      \/ (conf.exit_type = "main" \/ ~ cgroup_good(w)) /\ x \in MainGone(z, f)
      \/ x \in service_enter_start_post(z) \/ x = z
  BY Zenon DEF MainExited
<1>2. u.state \in WithMain /\ u.main_known
  BY ZenonT(30) DEF Awaits, Calm, Typed, Rests
<1>3. Awaits(v) /\ v.exec_fd = "none" /\ Hush(v, u) /\ v.main_known /\ v.state = u.state
  BY <1>2, SMTT(30) DEF Awaits, Calm, Typed, Object, Fields, Rests, Hush, Job, Keeps, Same
<1> HIDE DEF v
<1>4. Awaits(y) /\ y.exec_fd = "none" /\ Hush(y, v) /\ y.main = NoPid /\ y.main_known
  BY <1>3 DEF Awaits, Calm, Typed, Object, Fields, Rests, Hush, Job
<1> HIDE DEF y
<1>5. Awaits(w) /\ w.exec_fd = "none" /\ Hush(w, y) /\ w.main = NoPid /\ w.main_known
  <2>1. Calm(w) /\ Keeps(w, y) /\ Group(w, y) /\ w.control = y.control /\ w.timer = y.timer
    BY <1>4, BlameCalm, Zenon DEF Awaits
  <2> HIDE DEF w
  <2> QED BY <1>4, <2>1, ZenonT(30) DEF Awaits, Rests, Keeps, Same, Group, Hush, Job
<1> HIDE DEF w
<1>6. /\ Awaits(z) /\ z.exec_fd = "none" /\ Hush(z, w) /\ z.main = NoPid /\ z.main_known
      /\ (cgroup_good(z) <=> cgroup_good(w))
  BY <1>5 DEF Awaits, Calm, Typed, Object, Fields, Rests, Hush, Job, cgroup_good
<1> HIDE DEF z
<1>7. Hush(w, u) /\ Hush(z, u) /\ w.state \in WithMain /\ z.state \in WithMain /\ v.state \in WithMain
  BY <1>2, <1>3, <1>4, <1>5, <1>6, ZenonT(30) DEF Hush
<1>8. ASSUME NEW r \in service_load_pid_file(v), x = r[2] PROVE Fares(x, u)
  <2>1. Calm(x) /\ Keeps(x, v) /\ x.control = v.control /\ x.timer = v.timer
    BY <1>3, <1>8, LoadPidFileCalm, Zenon DEF Awaits
  <2>2. Awaits(x)
    BY <1>3, <1>7, <2>1, Zenon DEF Awaits, Rests, Keeps, Same
  <2>3. Hush(x, u)
    BY <1>3, <2>1, Zenon DEF Keeps, Same, Hush, Job
  <2> QED BY <2>2, <2>3, AwaitsFares, Zenon
<1>9. ASSUME w.main_command > 1, conf.type = "oneshot", x \in service_run_next_main(w) PROVE Fares(x, u)
  <2>1. Sound(x) /\ (Leads(x, w, {}, Onward) \/ Same(x, w))
    BY <1>5, <1>7, <1>9, RunNextMainGood, Zenon DEF Awaits
  <2> QED BY <1>7, <2>1, NextFares, Zenon
<1>10. ASSUME conf.exit_type = "main" \/ ~ cgroup_good(w), x \in MainGone(z, f) PROVE Fares(x, u)
  <2>1. Fares(x, z)
    BY <1>6, <1>7, <1>10, MainGoneFares, Zenon
  <2> QED BY <1>7, <2>1, FaresAfter, Zenon
<1>11. x \in service_enter_start_post(z) \/ x = z => Fares(x, u)
  BY <1>6, <1>7, StartPostFares, AwaitsFares, Zenon DEF Awaits
<1> QED BY <1>1, <1>8, <1>9, <1>10, <1>11, Zenon

-----------------------------------------------------------------------------
(* PID files, and SIGCHLD of the control process.                          *)

\* The PID file is read, or waited for.
LEMMA RetryPidFileFares ==
  ASSUME NEW w, Awaits(w), w.exec_fd = "none", Watchable => w.watchdog, NEW x \in RetryPidFile(w)
  PROVE  Fares(x, w)
<1>1. PICK r \in service_load_pid_file(w) :
         \/ r[1] < 0 /\ x = r[2]
         \/ x \in service_enter_running([r[2] EXCEPT !.pid_watch = FALSE], "success")
  BY Zenon DEF RetryPidFile
<1>2. Calm(r[2]) /\ Keeps(r[2], w) /\ (r[1] <= 0 => r[2] = w) /\ r[1] \in {-1, 0, 1}
  BY LoadPidFileCalm, Zenon DEF Awaits
<1>3. CASE r[1] < 0 /\ x = r[2]
  <2>1. x = w
    BY <1>2, <1>3
  <2> QED BY <2>1, AwaitsFares, Zenon DEF Hush
<1>4. CASE x \in service_enter_running([r[2] EXCEPT !.pid_watch = FALSE], "success")
  <2> DEFINE y == r[2]
             v == [y EXCEPT !.pid_watch = FALSE]
  <2>1. Calm(y) /\ Keeps(y, w)
    BY <1>2, Zenon
  <2> HIDE DEF y
  <2>2. Calm(v) /\ Same(v, y) /\ v.exec_fd = y.exec_fd /\ v.watchdog = y.watchdog
    BY <2>1, ZenonT(30) DEF Calm, Typed, Object, Fields, Same
  <2>3. x \in service_enter_running(v, "success")
    BY <1>4, Zenon DEF y
  <2> HIDE DEF v
  <2>4. Hush(v, w) /\ v.exec_fd = "none" /\ (Watchable => v.watchdog) /\ "success" \in ServiceResult
    BY <2>1, <2>2, Zenon DEF Hush, Keeps, Same, Job, ServiceResult
  <2> QED BY <2>2, <2>3, <2>4, RunningFares, Zenon
<1> QED BY <1>1, <1>3, <1>4, Zenon

\* service_demand_pid_file() finds no watch set up.
LEMMA DemandPidFileFares ==
  ASSUME NEW w, Awaits(w), w.exec_fd = "none", ~ w.pid_watch, w.control = NoPid, w.state \in {"start", "start-post"},
         Watchable => w.state = "start-post",
         NEW fail, \A y \in fail : Fares(y, w), NEW x \in service_demand_pid_file(w, fail)
  PROVE  Fares(x, w)
<1> DEFINE v == [w EXCEPT !.pid_watch = TRUE]
<1>1. x \in fail \/ x \in RetryPidFile(v)
  BY Zenon DEF service_demand_pid_file
<1>2. Awaits(v) /\ Hush(v, w) /\ v.exec_fd = "none" /\ v.watchdog = w.watchdog
  BY ZenonT(30) DEF Awaits, Calm, Typed, Object, Fields, Rests, Hush, Job
<1> HIDE DEF v
<1>3. Watchable => v.watchdog
  BY <1>2, Zenon DEF Awaits, Rests, Watched
<1>4. x \in RetryPidFile(v) => Fares(x, w)
  BY <1>2, <1>3, RetryPidFileFares, FaresAfter, Zenon
<1> QED BY <1>1, <1>4, Zenon

\* Type=forking: the end of the start.
LEMMA ForkedFares ==
  ASSUME NEW w, Awaits(w), w.exec_fd = "none", ~ w.pid_watch, w.control = NoPid, w.state = "start",
         conf.type = "forking", conf.pid_file,
         NEW x \in UNION {IF conf.commands["start-post"] = 0 /\ r[1] < 0
                          THEN service_demand_pid_file(r[2], service_enter_signal(r[2], "stop-sigterm", "protocol"))
                          ELSE service_enter_start_post(r[2]) : r \in service_load_pid_file(w)}
  PROVE  Fares(x, w)
<1>1. PICK r \in service_load_pid_file(w) :
         \/ /\ conf.commands["start-post"] = 0 /\ r[1] < 0
            /\ x \in service_demand_pid_file(r[2], service_enter_signal(r[2], "stop-sigterm", "protocol"))
         \/ x \in service_enter_start_post(r[2])
  BY Zenon
<1>2. Calm(r[2]) /\ Keeps(r[2], w) /\ (r[1] <= 0 => r[2] = w) /\ r[1] \in {-1, 0, 1}
  BY LoadPidFileCalm, Zenon DEF Awaits
<1>3. ASSUME conf.commands["start-post"] = 0, r[1] < 0,
             x \in service_demand_pid_file(r[2], service_enter_signal(r[2], "stop-sigterm", "protocol"))
      PROVE  Fares(x, w)
  <2> DEFINE fail == service_enter_signal(w, "stop-sigterm", "protocol")
  <2>1. r[2] = w /\ ~ Watchable
    BY <1>2, <1>3 DEF Watchable
  <2>2. x \in service_demand_pid_file(w, fail)
    BY <1>3, <2>1, Zenon
  <2>3. \A y \in fail : Fares(y, w)
    BY SignalFares, SignalNames, Zenon DEF Awaits, Hush, ServiceResult
  <2> HIDE DEF fail
  <2> QED BY <2>1, <2>2, <2>3, DemandPidFileFares, Zenon
<1>4. ASSUME x \in service_enter_start_post(r[2]) PROVE Fares(x, w)
  <2>1. Hush(r[2], w) /\ r[2].exec_fd = "none"
    BY <1>2, Zenon DEF Hush, Keeps, Same, Job
  <2> QED BY <1>2, <1>4, <2>1, StartPostFares, Zenon
<1> QED BY <1>1, <1>3, <1>4, Zenon

\* ExecStartPost= is over.
LEMMA PostFares ==
  ASSUME NEW w, Awaits(w), w.exec_fd = "none", ~ w.pid_watch, w.control = NoPid, w.state = "start-post",
         NEW x \in UNION {IF r[1] < 0 THEN service_demand_pid_file(r[2], service_enter_stop(r[2], "protocol"))
                          ELSE service_enter_running(r[2], "success") : r \in service_load_pid_file(w)}
  PROVE  Fares(x, w)
<1>1. PICK r \in service_load_pid_file(w) :
         \/ r[1] < 0 /\ x \in service_demand_pid_file(r[2], service_enter_stop(r[2], "protocol"))
         \/ x \in service_enter_running(r[2], "success")
  BY Zenon
<1>2. Calm(r[2]) /\ Keeps(r[2], w) /\ (r[1] <= 0 => r[2] = w) /\ r[1] \in {-1, 0, 1}
  BY LoadPidFileCalm, ZenonT(30) DEF Awaits
<1>3. ASSUME r[1] < 0, x \in service_demand_pid_file(r[2], service_enter_stop(r[2], "protocol"))
      PROVE  Fares(x, w)
  <2> DEFINE fail == service_enter_stop(w, "protocol")
  <2>1. r[2] = w
    BY <1>2, <1>3
  <2>2. x \in service_demand_pid_file(w, fail)
    BY <1>3, <2>1, Zenon
  <2>3. \A y \in fail : Fares(y, w)
    BY StopFares, Zenon DEF Awaits, Hush, ServiceResult
  <2> HIDE DEF fail
  <2> QED BY <2>1, <2>2, <2>3, DemandPidFileFares, Zenon
<1>4. ASSUME x \in service_enter_running(r[2], "success") PROVE Fares(x, w)
  <2>1. Watchable => w.watchdog
    BY Zenon DEF Awaits, Rests, Watched
  <2>2. Hush(r[2], w) /\ r[2].exec_fd = "none" /\ (Watchable => r[2].watchdog) /\ "success" \in ServiceResult
    BY <1>2, <2>1, Zenon DEF Hush, Keeps, Same, Job, ServiceResult
  <2> QED BY <1>2, <1>4, <2>2, RunningFares, Zenon
<1> QED BY <1>1, <1>3, <1>4, Zenon

\* What ControlGone() does once ExecReload= is done.
Reloaded(w, f) ==
    UNION {IF x.notify_state = "reloading" THEN {service_set_state(x, "reload-notify")}
           ELSE service_enter_running(x, "success")
           : x \in {[y EXCEPT !.reload_result = f] :
                      y \in IF f # "success" THEN {w}
                            ELSE UNION {IF r[1] < 0 THEN service_search_main_pid(r[2]) ELSE {r[2]}
                                          : r \in service_load_pid_file(w)}}}

\* ExecReload= is over.
LEMMA ReloadedFares ==
  ASSUME NEW w, Awaits(w), w.exec_fd = "none", w.state \in Reloading, NEW y, Calm(y), Keeps(y, w),
         NEW f \in ServiceResult, NEW x,
         LET v == [y EXCEPT !.reload_result = f]
         IN x = service_set_state(v, "reload-notify") \/ x \in service_enter_running(v, "success")
  PROVE  Fares(x, w)
<1> DEFINE v == [y EXCEPT !.reload_result = f]
<1>1. Calm(v) /\ Same(v, y) /\ v.exec_fd = y.exec_fd /\ v.watchdog = y.watchdog /\ v.aborted = y.aborted
  BY ZenonT(30) DEF Calm, Typed, Object, Fields, Same
<1>2. x = service_set_state(v, "reload-notify") \/ x \in service_enter_running(v, "success")
  BY Zenon
<1> HIDE DEF v
<1>3. Watchable => w.watchdog
  BY Zenon DEF Awaits, Rests, Watched
<1>4. Same(v, w) /\ Hush(v, w) /\ v.exec_fd = "none" /\ (Watchable => v.watchdog) /\ "success" \in ServiceResult
  BY <1>1, <1>3, Zenon DEF Hush, Keeps, Same, Job, ServiceResult
<1>5. CASE x = service_set_state(v, "reload-notify")
  <2>1. "reload-notify" \in ServiceState \ BeforeRestart /\ {"reload-notify"} \subseteq ServiceState
    BY Zenon DEF ServiceState, Reloading, BeforeRestart
  <2>2. Good(x, w, {"reload-notify"}, {})
    BY <1>1, <1>4, <1>5, <2>1, SetStateGood, Zenon
  <2> QED BY <2>1, <2>2, GoodFares, Zenon DEF Hush
<1>6. CASE x \in service_enter_running(v, "success")
  BY <1>1, <1>4, <1>6, RunningFares, Zenon
<1> QED BY <1>2, <1>5, <1>6, Zenon

LEMMA ReloadDoneFares ==
  ASSUME NEW w, Awaits(w), w.exec_fd = "none", w.state \in Reloading, NEW f \in ServiceResult, NEW x \in Reloaded(w, f)
  PROVE  Fares(x, w)
<1> DEFINE found == IF f # "success" THEN {w}
                    ELSE UNION {IF r[1] < 0 THEN service_search_main_pid(r[2]) ELSE {r[2]} : r \in service_load_pid_file(w)}
<1>1. \A r \in service_load_pid_file(w) : Calm(r[2]) /\ Keeps(r[2], w)
  BY LoadPidFileCalm, Zenon DEF Awaits
<1>2. \A y \in found : Calm(y) /\ Keeps(y, w)
  <2> TAKE y \in found
  <2>1. \/ y = w
        \/ \E r \in service_load_pid_file(w) : y = r[2] \/ y \in service_search_main_pid(r[2])
    BY Zenon
  <2> HIDE DEF found
  <2>2. y = w => Calm(y) /\ Keeps(y, w)
    BY Zenon DEF Awaits, Keeps, Same
  <2>3. ASSUME NEW r \in service_load_pid_file(w), y \in service_search_main_pid(r[2]) PROVE Calm(y) /\ Keeps(y, w)
    <3>1. Calm(y) /\ Keeps(y, r[2])
      BY <1>1, <2>3, SearchMainPidCalm, Zenon
    <3> QED BY <1>1, <3>1, Zenon DEF Keeps, Same
  <2> QED BY <1>1, <2>1, <2>2, <2>3, Zenon
<1>3. PICK y \in found : LET v == [y EXCEPT !.reload_result = f]
                        IN x = service_set_state(v, "reload-notify") \/ x \in service_enter_running(v, "success")
  BY ZenonT(30) DEF Reloaded
<1> HIDE DEF found
<1> QED BY <1>2, <1>3, ReloadedFares, Zenon

\* SIGCHLD of the last control process: the service is in a state to have one.
LEMMA ControlGoneFares ==
  ASSUME NEW w, Awaits(w), w.state \in WithControl, w.exec_fd = "none", ~ w.pid_watch, w.control = NoPid,
         NEW f \in ServiceResult, NEW x \in ControlGone(w, f)
  PROVE  Fares(x, w)
<1> DEFINE started == UNION {IF conf.commands["start-post"] = 0 /\ r[1] < 0
                             THEN service_demand_pid_file(r[2], service_enter_signal(r[2], "stop-sigterm", "protocol"))
                             ELSE service_enter_start_post(r[2]) : r \in service_load_pid_file(w)}
           posted == UNION {IF r[1] < 0 THEN service_demand_pid_file(r[2], service_enter_stop(r[2], "protocol"))
                            ELSE service_enter_running(r[2], "success") : r \in service_load_pid_file(w)}
           found == UNION {service_enter_start_post(y) : y \in service_search_main_pid(w)}
           found2 == UNION {service_enter_running(y, "success") : y \in service_search_main_pid(w)}
<1>1. \/ x \in service_enter_start_pre(w) \/ x \in service_enter_start(w) \/ x = w
      \/ x \in service_enter_signal(w, "stop-sigterm", f) \/ x \in service_enter_signal(w, "final-sigterm", f)
      \/ w.state = "start" /\ conf.type = "forking" /\ conf.pid_file /\ x \in started
      \/ w.state = "start-post" /\ x \in posted
      \/ x \in found
      \/ w.state = "start-post" /\ x \in found2
      \/ w.state \in Reloading /\ x \in Reloaded(w, f)
      \/ x \in service_enter_stop_post(w, f) \/ x \in service_enter_dead(w, f, TRUE)
      \/ x \in service_enter_dead(w, "success", FALSE)
  <2>1. ControlGone(w, f) =
          IF w.state = "condition" THEN IF f = "success" THEN service_enter_start_pre(w) ELSE service_enter_signal(w, "stop-sigterm", f)
          ELSE IF w.state = "start-pre" THEN IF f = "success" THEN service_enter_start(w) ELSE service_enter_signal(w, "stop-sigterm", f)
          ELSE IF w.state = "start" /\ conf.type # "forking" THEN {w}
          ELSE IF w.state \in {"start", "start-post"} /\ ~ (f = "success") THEN service_enter_signal(w, "stop-sigterm", f)
          ELSE IF w.state = "start" /\ conf.pid_file THEN started
          ELSE IF w.state = "start" THEN found
          ELSE IF w.state = "start-post" /\ conf.pid_file THEN posted
          ELSE IF w.state = "start-post" THEN found2
          ELSE IF w.state \in Reloading THEN Reloaded(w, f)
          ELSE IF w.state = "stop" THEN service_enter_signal(w, "stop-sigterm", f)
          ELSE IF w.state \in StopSignal THEN IF main_pid_good(w) <= 0 THEN service_enter_stop_post(w, f) ELSE {w}
          ELSE IF w.state = "stop-post" THEN IF main_pid_good(w) <= 0 THEN service_enter_signal(w, "final-sigterm", f) ELSE {w}
          ELSE IF w.state \in FinalSignal THEN IF main_pid_good(w) <= 0 THEN service_enter_dead(w, f, TRUE) ELSE {w}
          ELSE IF w.state = "cleaning" THEN service_enter_dead(w, "success", FALSE) ELSE Abort(w)
    BY Zenon DEF ControlGone, Reloaded
  <2> HIDE DEF started, posted, found, found2
  <2>2. x \in ControlGone(w, f) /\ w.state \in Starting \cup Reloading \cup Stopping \cup {"cleaning"}
    BY Zenon DEF WithControl
  <2>3. CASE w.state \in Starting
    BY <2>1, <2>2, <2>3, Zenon DEF Starting, Reloading, StopSignal, FinalSignal
  <2>4. CASE w.state \in Reloading
    BY <2>1, <2>2, <2>4, Zenon DEF Reloading
  <2>5. CASE w.state \in Stopping
    BY <2>1, <2>2, <2>5, Zenon DEF Reloading, Stopping, StopSignal, FinalSignal
  <2>6. CASE w.state = "cleaning"
    BY <2>1, <2>2, <2>6, Zenon DEF Reloading, StopSignal, FinalSignal
  <2> QED BY <2>2, <2>3, <2>4, <2>5, <2>6, ZenonT(30)
<1>2. Calm(w) /\ Hush(w, w) /\ "success" \in ServiceResult
  BY Zenon DEF Awaits, Hush, ServiceResult
<1> HIDE DEF started, posted, found, found2
<1>3. x \in service_enter_start_pre(w) \/ x \in service_enter_start(w) \/ x = w => Fares(x, w)
  BY <1>2, StartPreFares, StartFares, AwaitsFares, Zenon
<1>4. x \in service_enter_signal(w, "stop-sigterm", f) \/ x \in service_enter_signal(w, "final-sigterm", f) => Fares(x, w)
  BY <1>2, SignalNames, SignalFares, Zenon
<1>5. w.state = "start" /\ conf.type = "forking" /\ conf.pid_file /\ x \in started => Fares(x, w)
  BY ForkedFares, Zenon DEF started
<1>6. w.state = "start-post" /\ x \in posted => Fares(x, w)
  BY PostFares, Zenon DEF posted
<1>7. \A y \in service_search_main_pid(w) : Calm(y) /\ Hush(y, w) /\ y.exec_fd = "none" /\ y.watchdog = w.watchdog
  BY <1>2, SearchMainPidCalm, ZenonT(30) DEF Keeps, Same, Hush, Job
<1>8. x \in found => Fares(x, w)
  <2> SUFFICES ASSUME NEW y \in service_search_main_pid(w), x \in service_enter_start_post(y) PROVE Fares(x, w)
    BY Zenon DEF found
  <2> QED BY <1>7, StartPostFares, Zenon
<1>9. ASSUME w.state = "start-post", x \in found2 PROVE Fares(x, w)
  <2>1. PICK y \in service_search_main_pid(w) : x \in service_enter_running(y, "success")
    BY <1>9, Zenon DEF found2
  <2>2. Watchable => w.watchdog
    BY <1>9, Zenon DEF Awaits, Rests, Watched
  <2> QED BY <1>2, <1>7, <2>1, <2>2, RunningFares, ZenonT(30)
<1>10. w.state \in Reloading /\ x \in Reloaded(w, f) => Fares(x, w)
  BY ReloadDoneFares, Zenon
<1>11. \/ x \in service_enter_stop_post(w, f) \/ x \in service_enter_dead(w, f, TRUE) \/ x \in service_enter_dead(w, "success", FALSE)
       => Fares(x, w)
  BY <1>2, StopPostFares, DeadFares, Zenon
<1> QED BY <1>1, <1>3, <1>4, <1>5, <1>6, <1>8, <1>9, <1>10, <1>11, Zenon

\* SIGCHLD of a control process.
LEMMA ControlExitedFares ==
  ASSUME NEW u, Awaits(u), u.control # NoPid, NEW e \in ServiceResult, NEW x \in ControlExited(u, e)
  PROVE  Fares(x, u)
<1> DEFINE n == u.control_command
           y == service_unwatch_control_pid(u)
           v == [y EXCEPT !.control_command = n]
           w(f) == IF u.state = "reload" THEN v ELSE Blame(v, f)
           z(f) == [w(f) EXCEPT !.control_command = 0]
<1>1. PICK f \in {e, "skip-condition"} : (n > 1 /\ x \in service_run_next_control(w(f))) \/ x \in ControlGone(z(f), f)
  BY Zenon DEF ControlExited
<1>2. f \in ServiceResult
  BY Zenon DEF ServiceResult
<1>3. u.state \in WithControl /\ u.exec_fd = "none" /\ ~ u.pid_watch /\ n \in Nat
  BY Zenon DEF Awaits, Rests, Calm, Typed
<1>4. /\ Awaits(v) /\ Hush(v, u) /\ v.exec_fd = "none" /\ ~ v.pid_watch /\ v.control = NoPid
      /\ v.state = u.state /\ v.control_command = n
  <2>1. Calm(y) /\ Keeps(y, u) /\ Group(y, u) /\ y.control = NoPid /\ y.timer = u.timer
    BY UnwatchCalm, ZenonT(30) DEF Awaits, Calm, Typed, Object, Fields, service_unwatch_control_pid
  <2> HIDE DEF y
  <2>2. Awaits(y)
    BY <2>1, Zenon DEF Awaits, Rests, Keeps, Same, Group
  <2>3. Calm(v) /\ Keeps(v, y) /\ v.control_command = n /\ v.main = y.main /\ v.control = y.control /\ v.timer = y.timer
    BY <1>3, <2>1 DEF Calm, Typed, Object, Fields, Keeps, Same
  <2> HIDE DEF v
  <2> QED BY <1>3, <2>1, <2>2, <2>3, ZenonT(30) DEF Awaits, Rests, Keeps, Same, Hush, Job
<1> HIDE DEF v
<1> DEFINE wf == w(f)
           zf == [wf EXCEPT !.control_command = 0]
<1>5. (n > 1 /\ x \in service_run_next_control(wf)) \/ x \in ControlGone(zf, f)
  BY <1>1, Zenon
<1>6. /\ Awaits(wf) /\ Hush(wf, u) /\ wf.exec_fd = "none" /\ ~ wf.pid_watch /\ wf.control = NoPid
      /\ wf.state = u.state /\ wf.control_command = n
  <2>1. CASE wf = v
    BY <1>4, <2>1, Zenon
  <2>2. CASE wf = Blame(v, f)
    <3>1. Calm(wf) /\ Keeps(wf, v) /\ Group(wf, v) /\ wf.control = v.control /\ wf.timer = v.timer
      BY <1>2, <1>4, <2>2, BlameCalm, Zenon DEF Awaits
    <3>2. wf.control_command = v.control_command
      BY <1>4, <2>2, ZenonT(30) DEF Blame, Awaits, Calm, Typed, Object, Fields
    <3> HIDE DEF wf
    <3> QED BY <1>4, <3>1, <3>2, ZenonT(30) DEF Awaits, Rests, Keeps, Same, Group, Hush, Job
  <2> QED BY <2>1, <2>2, Zenon
<1> HIDE DEF wf
<1>7. /\ Awaits(zf) /\ Hush(zf, wf) /\ zf.exec_fd = "none" /\ ~ zf.pid_watch /\ zf.control = NoPid /\ zf.state = wf.state
  BY <1>6, SMTT(30) DEF Awaits, Calm, Typed, Object, Fields, Rests, Hush, Job
<1> HIDE DEF zf
<1>8. CASE n > 1 /\ x \in service_run_next_control(wf)
  <2>1. Sound(x) /\ (Leads(x, wf, {}, Onward) \/ Same(x, wf))
    BY <1>3, <1>6, <1>8, RunNextControlGood, Zenon DEF Awaits
  <2> QED BY <1>6, <2>1, NextFares, Zenon
<1>9. CASE x \in ControlGone(zf, f)
  <2>1. Fares(x, zf)
    BY <1>2, <1>3, <1>6, <1>7, <1>9, ControlGoneFares, ZenonT(30)
  <2> QED BY <1>6, <1>7, <2>1, FaresAfter, ZenonT(30)
<1> QED BY <1>5, <1>8, <1>9, Zenon

-----------------------------------------------------------------------------
(* Other events.                                                           *)

\* An empty control group.
LEMMA CgroupEmptyFares == ASSUME NEW w, Awaits(w), NEW x \in CgroupEmpty(w) PROVE Fares(x, w)
<1> DEFINE v == [w EXCEPT !.pid_watch = FALSE]
<1>1. \/ x = w \/ x \in service_enter_stop_post(w, "protocol") \/ x \in service_enter_stop_post(w, "success")
      \/ w.pid_watch /\ x \in service_enter_stop_post(v, "protocol")
      \/ w.pid_watch /\ x \in service_enter_stop(v, "protocol")
      \/ w.state = "running" /\ x \in service_enter_running(w, "success")
      \/ x \in service_enter_dead(w, "success", TRUE)
  BY Zenon DEF CgroupEmpty
<1>2. Calm(w) /\ Hush(w, w) /\ {"success", "protocol"} \subseteq ServiceResult
  BY Zenon DEF Awaits, Hush, ServiceResult
<1>3. Calm(v) /\ Hush(v, w) /\ v.exec_fd = w.exec_fd
  BY <1>2, ZenonT(30) DEF Calm, Typed, Object, Fields, Hush, Job
<1> HIDE DEF v
<1>4. /\ w.pid_watch => v.exec_fd = "none"
      /\ w.state = "running" => w.exec_fd = "none" /\ (Watchable => w.watchdog)
  BY <1>3, Zenon DEF Awaits, Rests, Watched
<1>5. w.state = "running" /\ x \in service_enter_running(w, "success") => Fares(x, w)
  BY <1>2, <1>4, RunningFares, Zenon
<1>6. w.pid_watch /\ x \in service_enter_stop(v, "protocol") => Fares(x, w)
  BY <1>2, <1>3, <1>4, StopFares, Zenon
<1>7. \/ x \in service_enter_stop_post(w, "protocol") \/ x \in service_enter_stop_post(w, "success")
      \/ x \in service_enter_stop_post(v, "protocol") \/ x \in service_enter_dead(w, "success", TRUE)
      => Fares(x, w)
  BY <1>2, <1>3, StopPostFares, DeadFares, Zenon
<1> QED BY <1>1, <1>2, <1>5, <1>6, <1>7, AwaitsFares, ZenonT(30)

\* What follows a timeout.
LEMMA FailureModeFares ==
  ASSUME NEW w, Calm(w), NEW mode, NEW term \in Signals, NEW watchdog \in Signals, NEW sigkill \in Signals,
         NEW skip, \A y \in skip : Fares(y, w), NEW x,
         x \in FailureMode(w, mode, term, watchdog, sigkill, skip) \/ x \in KillOr(w, sigkill, skip)
  PROVE  Fares(x, w)
<1>1. \/ x \in skip \/ x \in service_enter_signal(w, term, "timeout") \/ x \in service_enter_signal(w, watchdog, "timeout")
      \/ x \in service_enter_signal(w, sigkill, "timeout")
  BY Zenon DEF FailureMode, KillOr
<1>2. Hush(w, w) /\ "timeout" \in ServiceResult
  BY Zenon DEF Hush, ServiceResult
<1> QED BY <1>1, <1>2, SignalFares, Zenon

\* service_dispatch_timer(): the service is in a state to have a timeout.
LEMMA TimedOutFares ==
  ASSUME NEW w, Awaits(w), w.state \in Timed, NEW x \in TimedOut(w)
  PROVE  Fares(x, w) \/ (w.state = "auto-restart" /\ x \in service_enter_restart(w))
<1> DEFINE stop_post == service_enter_stop_post(w, "timeout")
           failed == service_enter_dead(w, "timeout", FALSE)
           v == [w EXCEPT !.reload_result = "timeout"]
           mode == conf.stop_failure_mode
<1>1. \/ x \in FailureMode(w, conf.start_failure_mode, "stop-sigterm", "stop-watchdog", "stop-sigkill", stop_post)
      \/ x \in FailureMode(w, mode, "stop-sigterm", "stop-watchdog", "stop-sigkill", stop_post)
      \/ x \in FailureMode(w, mode, "final-sigterm", "final-watchdog", "final-sigkill", failed)
      \/ w.state = "running" /\ x \in service_enter_stop(w, "timeout")
      \/ w.state \in Reloading /\ x \in service_enter_running(v, "success")
      \/ x \in service_enter_signal(w, "stop-watchdog", "timeout") \/ x \in service_enter_signal(w, "final-watchdog", "timeout")
      \/ x \in KillOr(w, "stop-sigkill", stop_post) \/ x \in KillOr(w, "final-sigkill", failed)
      \/ x \in stop_post \/ x \in service_enter_dead(w, "timeout", TRUE)
      \/ w.state = "auto-restart" /\ x \in service_enter_restart(w)
      \/ x \in service_enter_signal(w, "final-sigkill", "success")
  <2> HIDE DEF stop_post, failed, v
  <2>1. w.state \in Starting \cup {"running"} \cup Reloading \cup Stopping \cup {"auto-restart", "cleaning"} /\ x \in TimedOut(w)
    BY Zenon DEF Timed
  <2>2. CASE w.state \in Starting \cup {"running"} \cup Reloading
    BY <2>1, <2>2, Zenon DEF TimedOut, stop_post, failed, v
  <2>3. CASE w.state \in Stopping
    BY <2>1, <2>3, Zenon DEF TimedOut, stop_post, failed, v, Starting, Reloading, Stopping, StopSignal, FinalSignal
  <2>4. CASE w.state \in {"auto-restart", "cleaning"}
    BY <2>1, <2>4, Zenon DEF TimedOut, stop_post, failed, v, Starting, Reloading
  <2> QED BY <2>1, <2>2, <2>3, <2>4, Zenon
<1>2. Calm(w) /\ Hush(w, w) /\ {"success", "timeout"} \subseteq ServiceResult
  BY Zenon DEF Awaits, Hush, ServiceResult
<1>3. Calm(v) /\ Hush(v, w) /\ v.exec_fd = w.exec_fd /\ v.watchdog = w.watchdog
  BY <1>2, ZenonT(30) DEF Calm, Typed, Object, Fields, Hush, Job
<1> HIDE DEF v
<1>4. w.state \in {"running"} \cup Reloading => w.exec_fd = "none" /\ (Watchable => w.watchdog)
  BY Zenon DEF Awaits, Rests, Watched, Reloading
<1>5. w.state = "running" /\ x \in service_enter_stop(w, "timeout") => Fares(x, w)
  BY <1>2, <1>4, StopFares, Zenon
<1>6. w.state \in Reloading /\ x \in service_enter_running(v, "success") => Fares(x, w)
  BY <1>2, <1>3, <1>4, RunningFares, Zenon
<1>7. \A y \in stop_post : Fares(y, w)
  BY <1>2, StopPostFares, Zenon
<1>8. \A y \in failed : Fares(y, w)
  BY <1>2, DeadFares, Zenon
<1>9. \/ x \in service_enter_signal(w, "stop-watchdog", "timeout") \/ x \in service_enter_signal(w, "final-watchdog", "timeout")
      \/ x \in service_enter_signal(w, "final-sigkill", "success") \/ x \in service_enter_dead(w, "timeout", TRUE)
      => Fares(x, w)
  BY <1>2, SignalFares, SignalNames, DeadFares, ZenonT(30)
<1> HIDE DEF stop_post, failed, mode
<1>10. \/ x \in FailureMode(w, conf.start_failure_mode, "stop-sigterm", "stop-watchdog", "stop-sigkill", stop_post)
       \/ x \in FailureMode(w, mode, "stop-sigterm", "stop-watchdog", "stop-sigkill", stop_post)
       \/ x \in KillOr(w, "stop-sigkill", stop_post)
       => Fares(x, w)
  BY <1>2, <1>7, SignalNames, FailureModeFares, Zenon
<1>11. \/ x \in FailureMode(w, mode, "final-sigterm", "final-watchdog", "final-sigkill", failed)
       \/ x \in KillOr(w, "final-sigkill", failed)
       => Fares(x, w)
  BY <1>2, <1>8, SignalNames, FailureModeFares, Zenon
<1> QED BY <1>1, <1>5, <1>6, <1>7, <1>9, <1>10, <1>11, ZenonT(30)

-----------------------------------------------------------------------------
(* Every event.                                                            *)

\* PID 1 is about to call a handler.
Waiting == Sound(svc) /\ ~ svc.aborted /\ svc.next = NoCall

\* Nothing was reported yet.
LEMMA CalledAwaits ==
  ASSUME Waiting
  PROVE  /\ Awaits(Called) /\ Called.notified = <<>> /\ Called.perform = FALSE
         /\ \A k \in Fields \ {"notified", "tick", "armed", "perform"} : Called[k] = svc[k]
<1>1. Object(svc)
  BY Zenon DEF Waiting, Sound, Typed
<1>2. /\ Called = [k \in Fields |-> Called[k]] /\ Called.notified = <<>> /\ Called.perform = FALSE
      /\ \A k \in Fields \ {"notified", "tick", "armed", "perform"} : Called[k] = svc[k]
  BY <1>1, ZenonT(30) DEF Called, Object, Fields
<1> HIDE DEF Called
<1>3. /\ Called.state = svc.state /\ Called.next = svc.next /\ Called.aborted = svc.aborted /\ Called.job = svc.job
      /\ Called.main = svc.main /\ Called.main_known = svc.main_known /\ Called.control = svc.control
      /\ Called.timer = svc.timer /\ Called.watchdog = svc.watchdog /\ Called.exec_fd = svc.exec_fd
      /\ Called.pid_watch = svc.pid_watch /\ Called.main_command = svc.main_command
      /\ Called.control_command = svc.control_command /\ Called.live = svc.live /\ Called.zombie = svc.zombie
      /\ Called.foreign = svc.foreign /\ Called.notify_state = svc.notify_state
      /\ Called.result = svc.result /\ Called.reload_result = svc.reload_result
  BY <1>2, Zenon DEF Fields
<1>4. Object(Called)
  BY <1>1, <1>2, <1>3, Zenon DEF Object
<1>5. Typed(Called)
  BY <1>3, <1>4, Zenon DEF Waiting, Sound, Typed
<1>6. Rests(svc)
  BY Zenon DEF Waiting, Sound
<1>7. Rests(Called)
  BY <1>3, <1>6, Zenon DEF Rests
<1> QED BY <1>2, <1>3, <1>5, <1>7, Zenon DEF Awaits, Calm, Waiting, Sound

\* A job that is canceled.
LEMMA CancelSound ==
  ASSUME Waiting, Cancel
  PROVE  /\ Sound(svc') /\ svc'.state = Called.state /\ Job(svc') = <<"none", FALSE>>
         /\ svc'.notified = Called.notified /\ svc'.next = NoCall
<1>1. svc' = [Called EXCEPT !.job = "none", !.run = FALSE]
  BY Zenon DEF Cancel, Step
<1>2. Awaits(Called)
  BY CalledAwaits, Zenon
<1> HIDE DEF Called
<1>3. Calm(svc') /\ Rests(svc') /\ ~ svc'.aborted /\ svc'.state = Called.state /\ svc'.job = "none" /\ svc'.run = FALSE
  BY <1>1, <1>2, ZenonT(30) DEF Awaits, Calm, Typed, Object, Fields, Rests
<1>4. svc'.notified = Called.notified
  BY <1>1, <1>2, Zenon DEF Awaits, Calm, Typed, Object, Fields
<1> QED BY <1>3, <1>4, Zenon DEF Sound, Calm, Job

\* Processes may come and go.
LEMMA ProcessesAwait ==
  ASSUME NEW w, Awaits(w), NEW x, x = [k \in Fields |-> x[k]],
         \A k \in Fields \ {"live", "zombie", "foreign", "empty"} : x[k] = w[k],
         x.live \subseteq Pids, x.zombie \subseteq Pids, x.foreign \subseteq x.live
  PROVE  Awaits(x) /\ Hush(x, w)
<1>1. /\ x.state = w.state /\ x.next = w.next /\ x.aborted = w.aborted /\ x.job = w.job /\ x.run = w.run
      /\ x.main = w.main /\ x.main_known = w.main_known /\ x.control = w.control
      /\ x.timer = w.timer /\ x.watchdog = w.watchdog /\ x.exec_fd = w.exec_fd
      /\ x.pid_watch = w.pid_watch /\ x.main_command = w.main_command
      /\ x.control_command = w.control_command /\ x.notify_state = w.notify_state
      /\ x.result = w.result /\ x.reload_result = w.reload_result /\ x.notified = w.notified /\ x.perform = w.perform
  BY Zenon DEF Fields
<1>2. Object(x)
  BY <1>1, Zenon DEF Object, Awaits, Calm, Typed
<1>3. Typed(x)
  BY <1>1, <1>2, Zenon DEF Awaits, Calm, Typed
<1>4. Rests(x)
  BY <1>1, Zenon DEF Awaits, Rests
<1> QED BY <1>1, <1>3, <1>4, Zenon DEF Awaits, Calm, Hush, Job

\* A process that forks.
LEMMA ForkFares == ASSUME Waiting, Fork PROVE Fares(svc', Called)
<1>1. PICK p \in Fresh(svc), orphan \in BOOLEAN :
         svc' = [Called EXCEPT !.live = @ \cup {p}, !.foreign = IF orphan THEN @ ELSE @ \cup {p}]
  BY Zenon DEF Fork, Step
<1>2. p \in Pids /\ Awaits(Called)
  BY FreshPids, CalledAwaits, Zenon
<1> HIDE DEF Called
<1>3. Object(Called) /\ Called.foreign \subseteq Called.live
  BY <1>2, Zenon DEF Awaits, Calm, Typed
<1>4. /\ svc' = [k \in Fields |-> svc'[k]]
      /\ \A k \in Fields \ {"live", "zombie", "foreign", "empty"} : svc'[k] = Called[k]
      /\ svc'.live = Called.live \cup {p} /\ svc'.zombie = Called.zombie
      /\ svc'.foreign = Called.foreign \/ svc'.foreign = Called.foreign \cup {p}
  BY <1>1, <1>3, ZenonT(30) DEF Object, Fields
<1>5. svc'.live \subseteq Pids /\ svc'.zombie \subseteq Pids /\ svc'.foreign \subseteq svc'.live
  BY <1>2, <1>3, <1>4, Zenon DEF Object
<1>6. Awaits(svc') /\ Hush(svc', Called)
  BY <1>2, <1>4, <1>5, ProcessesAwait, Zenon
<1> QED BY <1>6, AwaitsFares, Zenon

\* A process that ends.
LEMMA ExitFares == ASSUME Waiting, NEW p \in Pids, Exit(p) PROVE Fares(svc', Called)
<1>1. PICK adopted \in SUBSET (svc.foreign \ {p}) :
         svc' = [Called EXCEPT !.live = @ \ {p},
                               !.zombie = IF p \in svc.foreign THEN @ ELSE @ \cup {p},
                               !.foreign = @ \ ({p} \cup adopted),
                               !.empty = @ \/ svc.live = {p}]
  BY Zenon DEF Exit, Step
<1>2. Awaits(Called)
  BY CalledAwaits, Zenon
<1> HIDE DEF Called
<1>3. Object(Called) /\ Called.foreign \subseteq Called.live
  BY <1>2, Zenon DEF Awaits, Calm, Typed
<1>4. /\ svc' = [k \in Fields |-> svc'[k]]
      /\ \A k \in Fields \ {"live", "zombie", "foreign", "empty"} : svc'[k] = Called[k]
      /\ svc'.live = Called.live \ {p} /\ svc'.foreign = Called.foreign \ ({p} \cup adopted)
      /\ svc'.zombie = Called.zombie \/ svc'.zombie = Called.zombie \cup {p}
  BY <1>1, <1>3, ZenonT(30) DEF Object, Fields
<1>5. svc'.live \subseteq Pids /\ svc'.zombie \subseteq Pids /\ svc'.foreign \subseteq svc'.live
  BY <1>2, <1>3, <1>4, Zenon DEF Object
<1>6. Awaits(svc') /\ Hush(svc', Called)
  BY <1>2, <1>4, <1>5, ProcessesAwait, Zenon
<1> QED BY <1>6, AwaitsFares, Zenon

\* A PID file that changes is watched for.
LEMMA InotifyFares == ASSUME Waiting, service_dispatch_inotify_io PROVE Fares(svc', Called)
<1> DEFINE v == [Called EXCEPT !.pid_watch = FALSE]
<1>1. Awaits(Called) /\ Called.pid_watch = svc.pid_watch /\ Called.state = svc.state
  BY CalledAwaits, Zenon DEF Fields
<1>2. /\ svc.pid_watch
      /\ \/ svc.state \notin {"start", "start-post"}
         \/ svc' \in RetryPidFile(Called) \/ svc' \in service_enter_signal(v, "stop-sigterm", "resources")
  BY Zenon DEF service_dispatch_inotify_io, Step
<1> HIDE DEF Called
<1>3. /\ Called.state \in {"start", "start-post"} /\ Called.exec_fd = "none"
      /\ Watchable => Called.watchdog
  BY <1>1, <1>2, Zenon DEF Awaits, Rests, Watched
<1>4. svc' \in RetryPidFile(Called) => Fares(svc', Called)
  BY <1>1, <1>3, RetryPidFileFares, ZenonT(30)
<1>5. Calm(v) /\ Hush(v, Called)
  BY <1>1, ZenonT(30) DEF Awaits, Calm, Typed, Object, Fields, Hush, Job
<1> HIDE DEF v
<1>6. svc' \in service_enter_signal(v, "stop-sigterm", "resources") => Fares(svc', Called)
  BY <1>5, SignalFares, SignalNames, Zenon DEF ServiceResult
<1> QED BY <1>1, <1>2, <1>3, <1>4, <1>6, Zenon

\* A process PID 1 reaps.
LEMMA SigchldFares == ASSUME Waiting, NEW p \in Pids, NEW f \in Exits, service_sigchld_event(p, f) PROVE Fares(svc', Called)
<1> DEFINE w == [Called EXCEPT !.zombie = @ \ {p}]
<1>1. \/ p = w.main /\ svc' \in MainExited(w, f)
      \/ p = w.control /\ svc' \in ControlExited(w, f)
      \/ svc' = w
  BY Zenon DEF service_sigchld_event, Step
<1>2. Awaits(Called)
  BY CalledAwaits, ZenonT(30)
<1> HIDE DEF Called
<1>3. Awaits(w) /\ Hush(w, Called)
  BY <1>2, SMTT(30) DEF Awaits, Calm, Typed, Object, Fields, Rests, Hush, Job
<1> HIDE DEF w
<1>4. p # NoPid /\ f \in ServiceResult
  BY PidsAssumption, ExitsAssumption, Zenon
<1>5. p = w.main /\ svc' \in MainExited(w, f) => Fares(svc', Called)
  BY <1>3, <1>4, MainExitedFares, FaresAfter, Zenon
<1>6. p = w.control /\ svc' \in ControlExited(w, f) => Fares(svc', Called)
  BY <1>3, <1>4, ControlExitedFares, FaresAfter, Zenon
<1> QED BY <1>1, <1>3, <1>5, <1>6, AwaitsFares, Zenon

\* The cgroup event.
LEMMA CgroupEventFares == ASSUME Waiting, service_notify_cgroup_empty_event PROVE Fares(svc', Called)
<1> DEFINE w == [Called EXCEPT !.empty = FALSE]
<1>1. svc' \in CgroupEmpty(w) \/ svc' = w
  BY Zenon DEF service_notify_cgroup_empty_event, Step
<1>2. Awaits(Called)
  BY CalledAwaits, Zenon
<1> HIDE DEF Called
<1>3. Awaits(w) /\ Hush(w, Called)
  <2>1. Object(Called) /\ Called.foreign \subseteq Called.live
    BY <1>2, Zenon DEF Awaits, Calm, Typed
  <2>2. /\ w = [k \in Fields |-> w[k]]
        /\ \A k \in Fields \ {"empty"} : w[k] = Called[k]
        /\ w.live = Called.live /\ w.foreign = Called.foreign /\ w.zombie = Called.zombie
    BY <2>1, ZenonT(30) DEF Object, Fields
  <2> HIDE DEF w
  <2> QED BY <1>2, <2>1, <2>2, ProcessesAwait, ZenonT(30) DEF Object
<1> HIDE DEF w
<1>4. svc' \in CgroupEmpty(w) => Fares(svc', Called)
  BY <1>3, CgroupEmptyFares, FaresAfter, Zenon
<1> QED BY <1>1, <1>3, <1>4, AwaitsFares, Zenon

\* The kernel running out of memory.
LEMMA OomFares == ASSUME Waiting, service_notify_cgroup_oom_event PROVE Fares(svc', Called)
<1> DEFINE w == Called
<1>1. \/ svc' = w \/ svc' = Blame(w, "oom-kill")
      \/ svc' \in service_enter_signal(w, "stop-sigkill", "oom-kill")
      \/ svc' \in service_enter_signal(w, "stop-sigterm", "oom-kill")
      \/ svc' \in service_enter_signal(w, "final-sigkill", "oom-kill")
      \/ w.state \in {"exited", "running"} /\ svc' \in service_enter_stop(w, "oom-kill")
  <2> HIDE DEF Called
  <2> QED BY Zenon DEF service_notify_cgroup_oom_event, Step
<1>2. Awaits(w) /\ Calm(w) /\ Hush(w, w) /\ "oom-kill" \in ServiceResult
  BY CalledAwaits, Zenon DEF Hush, Awaits, ServiceResult
<1> SUFFICES Fares(svc', w)
  BY Zenon
<1> HIDE DEF w
<1>3. w.state \in {"exited", "running"} => w.exec_fd = "none"
  BY <1>2, Zenon DEF Awaits, Rests
<1>4. w.state \in {"exited", "running"} /\ svc' \in service_enter_stop(w, "oom-kill") => Fares(svc', w)
  BY <1>2, <1>3, StopFares, Zenon
<1>5. svc' = Blame(w, "oom-kill") => Fares(svc', w)
  <2> DEFINE v == Blame(w, "oom-kill")
  <2>1. Calm(v) /\ Keeps(v, w) /\ Group(v, w) /\ v.control = w.control /\ v.timer = w.timer
    BY <1>2, BlameCalm, Zenon
  <2> HIDE DEF v
  <2>2. Awaits(v) /\ Hush(v, w)
    BY <1>2, <2>1, Zenon DEF Awaits, Rests, Keeps, Same, Group, Hush, Job
  <2> QED BY <2>2, AwaitsFares, Zenon DEF v
<1>6. \/ svc' \in service_enter_signal(w, "stop-sigkill", "oom-kill")
      \/ svc' \in service_enter_signal(w, "stop-sigterm", "oom-kill")
      \/ svc' \in service_enter_signal(w, "final-sigkill", "oom-kill")
      => Fares(svc', w)
  BY <1>2, SignalFares, SignalNames, Zenon
<1> QED BY <1>1, <1>2, <1>4, <1>5, <1>6, AwaitsFares, ZenonT(30)

\* execve() of a Type=exec service.
LEMMA ExecIoFares == ASSUME Waiting, service_dispatch_exec_io PROVE Fares(svc', Called)
<1> DEFINE w == [Called EXCEPT !.exec_fd = "none"]
           z(e) == [Called EXCEPT !.exec_fd = e]
<1>1. /\ svc.exec_fd # "none"
      /\ \/ \E e \in {"cold", "hot"} : svc' = z(e)
         \/ svc' \in service_enter_start_post(w)
         \/ svc' = w
  BY Zenon DEF service_dispatch_exec_io, Step
<1>2. Awaits(Called) /\ Called.exec_fd = svc.exec_fd
  BY CalledAwaits, Zenon DEF Fields
<1> HIDE DEF Called
<1>3. Called.state = "start" /\ Called.control = NoPid /\ ~ Called.pid_watch /\ conf.type = "exec"
  BY <1>1, <1>2, ZenonT(30) DEF Awaits, Calm, Rests
<1>4. ASSUME NEW e \in {"none", "cold", "hot", "forgotten"}, NEW x, x = z(e)
      PROVE  Awaits(x) /\ Hush(x, Called) /\ x.exec_fd = e
  BY <1>2, <1>3, <1>4, ZenonT(30) DEF Awaits, Calm, Typed, Object, Fields, Rests, Hush, Job
<1>5. Awaits(w) /\ Hush(w, Called) /\ w.exec_fd = "none"
  BY <1>4, Zenon
<1> HIDE DEF w
<1>6. svc' \in service_enter_start_post(w) => Fares(svc', Called)
  BY <1>5, StartPostFares, Zenon DEF Awaits
<1>7. ASSUME NEW e \in {"cold", "hot"}, svc' = z(e) PROVE Fares(svc', Called)
  <2>1. Awaits(svc') /\ Hush(svc', Called)
    BY <1>4, <1>7, Zenon
  <2> QED BY <2>1, AwaitsFares, Zenon
<1> QED BY <1>1, <1>5, <1>6, <1>7, AwaitsFares, ZenonT(30)

\* A timer that elapses belongs to the state.  A service that is to be restarted
\* gets a job.
LEMMA TimerFares ==
  ASSUME Waiting, service_dispatch_timer
  PROVE  \/ Fares(svc', Called)
         \/ /\ Sound(svc') /\ Called.state = "auto-restart"
            /\ \E y : /\ y.notified = Called.notified /\ Job(y) = <<Merged(Called, "start"), FALSE>>
                      /\ Reports(svc', y, "auto-restart-queued")
<1> DEFINE w == [Called EXCEPT !.timer = FALSE, !.tick = TRUE]
<1>1. svc' \in TimedOut(w) /\ svc.timer
  BY Zenon DEF service_dispatch_timer, Step
<1>2. Awaits(Called) /\ Called.timer = svc.timer
  BY CalledAwaits, Zenon DEF Fields
<1> HIDE DEF Called
<1>3. Called.state \in Timed
  BY <1>1, <1>2, Zenon DEF Awaits, Rests
<1>4. Awaits(w) /\ Hush(w, Called)
  <2>1. Calm(w) /\ Keeps(w, Called) /\ w.main = Called.main /\ w.control = Called.control /\ ~ w.timer
    BY <1>2, ZenonT(30) DEF Awaits, Calm, Typed, Object, Fields, Keeps, Same
  <2> HIDE DEF w
  <2> QED BY <1>2, <2>1, Zenon DEF Awaits, Rests, Keeps, Same, Hush, Job
<1> HIDE DEF w
<1>5. w.state \in Timed
  BY <1>3, <1>4, Zenon DEF Hush
<1>6. CASE Fares(svc', w)
  BY <1>4, <1>6, FaresAfter, Zenon
<1>7. CASE w.state = "auto-restart" /\ svc' \in service_enter_restart(w)
  <2>1. \/ svc' = w
        \/ Good(svc', w, Restarts, {})
        \/ /\ Sound(svc')
           /\ \E y : /\ y.notified = w.notified /\ Job(y) = <<Merged(w, "start"), FALSE>>
                     /\ Reports(svc', y, "auto-restart-queued")
    BY <1>4, <1>7, EnterRestartGood, Zenon DEF Awaits
  <2>2. CASE svc' = w
    BY <1>4, <2>2, AwaitsFares, Zenon
  <2>3. CASE Good(svc', w, Restarts, {})
    <3>1. Restarts \subseteq ServiceState
      BY Zenon DEF Restarts, Ends, ServiceState, AutoRestart
    <3> QED BY <1>4, <2>3, <3>1, GoodFares, ZenonT(30)
  <2>4. Merged(w, "start") = Merged(Called, "start") /\ w.notified = Called.notified /\ Called.state = w.state
    <3>1. w.job = Called.job /\ w.state = Called.state /\ w.notified = Called.notified
      BY <1>4, Zenon DEF Hush, Job
    <3> QED BY <3>1, Zenon DEF Merged
  <2> QED BY <1>7, <2>1, <2>2, <2>3, <2>4, Zenon
<1> QED BY <1>1, <1>4, <1>5, <1>6, <1>7, TimedOutFares, ZenonT(30)

\* A watchdog that bites.
LEMMA WatchdogFares == ASSUME Waiting, service_dispatch_watchdog PROVE Fares(svc', Called)
<1> DEFINE w == [Called EXCEPT !.watchdog = FALSE]
<1>1. svc' \in service_enter_signal(w, "stop-watchdog", "watchdog")
  BY Zenon DEF service_dispatch_watchdog, Step
<1>2. Awaits(Called)
  BY CalledAwaits, Zenon
<1> HIDE DEF Called
<1>3. Calm(w) /\ Hush(w, Called)
  BY <1>2, ZenonT(30) DEF Awaits, Calm, Typed, Object, Fields, Hush, Job
<1> HIDE DEF w
<1> QED BY <1>1, <1>3, SignalFares, SignalNames, ZenonT(30) DEF ServiceResult

\* What a process says.
LEMMA NotifiedFares ==
  ASSUME Waiting, NEW message, NEW fresh, svc' \in Notified(message, fresh) PROVE Fares(svc', Called)
<1> DEFINE w == Called
           says(n) == [w EXCEPT !.notify_state = n]
           watched == [w EXCEPT !.watchdog = conf.watchdog]
           heard == {"stopping", "ready", "reloading"}
<1>1. \/ \E n \in heard : svc' = says(n)
      \/ svc' \in service_enter_stop_by_notify(says("stopping"))
      \/ /\ w.state = "start" /\ conf.type \in {"notify", "notify-reload"}
         /\ svc' \in service_enter_start_post(says("ready"))
      \/ w.state \in Reloading /\ svc' \in service_enter_running(says("ready"), "success")
      \/ w.state = "running" /\ svc' \in service_enter_reload_by_notify(says("reloading"))
      \/ w.state = "reload-signal" /\ svc' = service_set_state(says("reloading"), "reload-notify")
      \/ svc' = watched \/ svc' \in service_enter_signal(w, "stop-watchdog", "watchdog")
  BY Zenon DEF Notified, Reloading
<1>2. Awaits(w) /\ Calm(w) /\ Hush(w, w) /\ {"success", "watchdog"} \subseteq ServiceResult
  BY CalledAwaits, Zenon DEF Awaits, Hush, ServiceResult
<1> SUFFICES Fares(svc', w)
  BY Zenon
<1> HIDE DEF w
<1>3. ASSUME NEW n \in heard
      PROVE  Awaits(says(n)) /\ Hush(says(n), w) /\ says(n).exec_fd = w.exec_fd /\ says(n).watchdog = w.watchdog
  <2> DEFINE x == says(n)
  <2>1. Awaits(x) /\ Hush(x, w) /\ x.exec_fd = w.exec_fd /\ x.watchdog = w.watchdog
    BY <1>2 DEF Awaits, Calm, Typed, Object, Fields, Rests, Hush, Job
  <2> QED BY <2>1, ZenonT(30)
<1> HIDE DEF says
<1>4. /\ Awaits(says("stopping")) /\ Hush(says("stopping"), w)
      /\ Awaits(says("ready")) /\ Hush(says("ready"), w)
      /\ says("ready").exec_fd = w.exec_fd /\ says("ready").watchdog = w.watchdog
      /\ Awaits(says("reloading")) /\ Hush(says("reloading"), w)
      /\ says("reloading").exec_fd = w.exec_fd /\ says("reloading").watchdog = w.watchdog
  BY <1>3, Zenon
<1>5. /\ w.state \in Reloading \cup {"running"} => w.exec_fd = "none" /\ (Watchable => w.watchdog)
      /\ w.state = "start" /\ conf.type \in {"notify", "notify-reload"} => w.exec_fd = "none"
      /\ "reload-signal" \in Reloading
  BY <1>2, Zenon DEF Awaits, Calm, Rests, Watched, Reloading
<1>6. \A n \in heard : svc' = says(n) => Fares(svc', w)
  BY <1>3, AwaitsFares, Zenon
<1>7. svc' \in service_enter_stop_by_notify(says("stopping")) => Fares(svc', w)
  BY <1>4, StopByNotifyFares, Zenon DEF Awaits
<1>8. w.state = "start" /\ conf.type \in {"notify", "notify-reload"} /\ svc' \in service_enter_start_post(says("ready"))
      => Fares(svc', w)
  BY <1>4, <1>5, StartPostFares, Zenon DEF Awaits
<1>9. w.state \in Reloading /\ svc' \in service_enter_running(says("ready"), "success") => Fares(svc', w)
  BY <1>2, <1>4, <1>5, RunningFares, ZenonT(30) DEF Awaits
<1>10. w.state = "running" /\ svc' \in service_enter_reload_by_notify(says("reloading")) => Fares(svc', w)
  BY <1>4, <1>5, ReloadByNotifyFares, ZenonT(30) DEF Awaits
<1>11. ASSUME w.state = "reload-signal", svc' = service_set_state(says("reloading"), "reload-notify") PROVE Fares(svc', w)
  <2> DEFINE v == says("reloading")
  <2>1. "reload-notify" \in ServiceState \ BeforeRestart /\ {"reload-notify"} \subseteq ServiceState
    BY Zenon DEF ServiceState, Reloading, BeforeRestart
  <2>2. Calm(v) /\ Hush(v, w) /\ (Watchable => v.watchdog) /\ v.exec_fd = "none" /\ Same(v, v)
    BY <1>4, <1>5, <1>11, ZenonT(30) DEF Awaits, Same
  <2>3. svc' = service_set_state(v, "reload-notify")
    BY <1>11, Zenon
  <2> HIDE DEF v
  <2>4. Good(svc', v, {"reload-notify"}, {})
    BY <2>1, <2>2, <2>3, SetStateGood, ZenonT(30)
  <2> QED BY <2>1, <2>2, <2>4, GoodFares, ZenonT(30)
<1>12. svc' = watched => Fares(svc', w)
  <2>1. Awaits(watched) /\ Hush(watched, w)
    BY <1>2 DEF Awaits, Calm, Typed, Object, Fields, Rests, Hush, Job, Watchable
  <2> HIDE DEF watched
  <2> QED BY <2>1, AwaitsFares, ZenonT(30)
<1>13. svc' \in service_enter_signal(w, "stop-watchdog", "watchdog") => Fares(svc', w)
  BY <1>2, SignalFares, SignalNames, ZenonT(30)
<1> HIDE DEF watched, heard
<1> QED BY <1>1, <1>6, <1>7, <1>8, <1>9, <1>10, <1>11, <1>12, <1>13, Zenon

\* The notify socket.
LEMMA MessageFares == ASSUME Waiting, service_notify_message PROVE Fares(svc', Called)
<1>1. \/ \E message, fresh : svc' \in Notified(message, fresh)
      \/ \E q \in svc.live : svc' = NewMain(q)
  BY Zenon DEF service_notify_message, Step
<1>2. ASSUME NEW q \in svc.live, svc' = NewMain(q) PROVE Fares(svc', Called)
  <2>1. Awaits(Called) /\ Called.state = svc.state /\ Called.live = svc.live
    BY CalledAwaits, Zenon DEF Fields
  <2>2. svc' = Called \/ (svc.state \in WithMain /\ svc' = service_set_main_pidref(Called, q))
    BY <1>2, Zenon DEF NewMain, WithMain
  <2> HIDE DEF Called
  <2>3. q \in Pids
    BY <1>2, <2>1, ZenonT(30) DEF Awaits, Calm, Typed, Object
  <2>4. \/ svc' = Called
        \/ svc.state \in WithMain /\ svc' = [Called EXCEPT !.main = q, !.main_known = TRUE, !.main_alien = q \in Called.foreign]
    BY <2>2, Zenon DEF service_set_main_pidref
  <2>5. CASE svc' = Called
    BY <2>1, <2>5, AwaitsFares, Zenon DEF Hush
  <2>6. ASSUME svc.state \in WithMain, svc' = [Called EXCEPT !.main = q, !.main_known = TRUE, !.main_alien = q \in Called.foreign]
        PROVE  Fares(svc', Called)
    <3>1. Calm(svc') /\ Keeps(svc', Called) /\ svc'.control = Called.control /\ svc'.timer = Called.timer
      BY <2>1, <2>3, <2>6, ZenonT(30) DEF Awaits, Calm, Typed, Object, Fields, Keeps, Same
    <3>2. Awaits(svc') /\ Hush(svc', Called)
      BY <2>1, <2>6, <3>1, Zenon DEF Awaits, Rests, Keeps, Same, Hush, Job
    <3> QED BY <3>2, AwaitsFares, ZenonT(30)
  <2> QED BY <2>4, <2>5, <2>6, ZenonT(30)
<1> QED BY <1>1, <1>2, NotifiedFares, Zenon

\* A bus name that changes hands.
LEMMA BusNameFares == ASSUME Waiting, service_bus_name_owner_change PROVE Fares(svc', Called)
<1> DEFINE w == [Called EXCEPT !.bus_name_good = ~ @]
<1>1. /\ conf.type = "dbus"
      /\ \/ w.state = "running" /\ svc' \in service_enter_running(w, "success")
         \/ svc' \in service_enter_start_post(w)
         \/ svc' = w
  BY ZenonT(30) DEF service_bus_name_owner_change, Step
<1>2. Awaits(Called)
  BY CalledAwaits, Zenon
<1> HIDE DEF Called
<1>3. Calm(w) /\ Keeps(w, Called) /\ w.main = Called.main /\ w.control = Called.control /\ w.timer = Called.timer
  BY <1>2, ZenonT(30) DEF Awaits, Calm, Typed, Object, Fields, Keeps, Same
<1> HIDE DEF w
<1>4. Awaits(w) /\ Hush(w, Called)
  BY <1>2, <1>3, Zenon DEF Awaits, Rests, Keeps, Same, Hush, Job
<1>5. w.exec_fd = "none" /\ (w.state = "running" /\ Watchable => w.watchdog) /\ "success" \in ServiceResult
  BY <1>1, <1>4, Zenon DEF Awaits, Calm, Rests, Watched, ServiceResult
<1>6. w.state = "running" /\ svc' \in service_enter_running(w, "success") => Fares(svc', Called)
  BY <1>3, <1>4, <1>5, RunningFares, ZenonT(30)
<1>7. svc' \in service_enter_start_post(w) => Fares(svc', Called)
  BY <1>3, <1>4, <1>5, StartPostFares, ZenonT(30)
<1> QED BY <1>1, <1>4, <1>6, <1>7, AwaitsFares, ZenonT(30)

\* systemctl reset-failed.
LEMMA ResetFailedFares == ASSUME Waiting, service_reset_failed PROVE Fares(svc', Called)
<1> DEFINE w == IF svc.state = "failed" THEN service_set_state(Called, "dead") ELSE Called
<1>1. svc' = [w EXCEPT !.result = "success", !.reload_result = "success"]
  BY Zenon DEF service_reset_failed, Step
<1>2. Awaits(Called)
  BY CalledAwaits, Zenon
<1>3. Calm(w) /\ Sound(w) /\ ~ w.aborted /\ (w = Called \/ Reports(w, Called, "dead"))
  <2>1. CASE w = Called
    BY <1>2, <2>1, Zenon DEF Awaits, Calm, Sound
  <2>2. CASE w = service_set_state(Called, "dead")
    <3>1. "dead" \in ServiceState \ BeforeRestart /\ "dead" \notin Watched
      BY Zenon DEF ServiceState, BeforeRestart, Watched, Reloading
    <3>2. Calm(w) /\ Sound(w)
      BY <1>2, <2>2, <3>1, SetStateSound, ZenonT(30) DEF Awaits
    <3>3. Reports(w, Called, "dead") /\ Cleaned(w, Called, "dead")
      BY <1>2, <2>2, SetStateReports, ZenonT(30) DEF Awaits, Calm
    <3>4. ~ w.aborted
      BY <1>2, <3>3, Zenon DEF Cleaned, Awaits
    <3> QED BY <3>2, <3>3, <3>4, Zenon
  <2> QED BY <2>1, <2>2, Zenon
<1> HIDE DEF w, Called
<1>4. /\ Calm(svc') /\ Keeps(svc', w) /\ svc'.main = w.main /\ svc'.control = w.control /\ svc'.timer = w.timer
      /\ svc'.job = w.job /\ svc'.run = w.run
  <2>1. "success" \in ServiceResult
    BY Zenon DEF ServiceResult
  <2> QED BY <1>1, <1>3, <2>1, ZenonT(30) DEF Calm, Typed, Object, Fields, Keeps, Same
<1>5. Rests(w)
  BY <1>3, Zenon DEF Sound, Calm
<1>6. Rests(svc')
  BY <1>4, <1>5, Zenon DEF Rests, Keeps, Same
<1>7. Sound(svc')
  BY <1>4, <1>6, Zenon DEF Sound, Calm
<1>8. CASE w = Called
  BY <1>4, <1>7, <1>8, Zenon DEF Keeps, Same, Fares, Moves, Hush, Job
<1>9. CASE Reports(w, Called, "dead")
  <2>1. Reports(svc', Called, "dead")
    BY <1>4, <1>9, Zenon DEF Keeps, Same, Reports, Job
  <2>2. "dead" \in ServiceState
    BY Zenon DEF ServiceState
  <2> QED BY <1>7, <2>1, <2>2, Zenon DEF Fares, Moves, Tells
<1> QED BY <1>3, <1>8, <1>9, Zenon

\* systemctl clean.
LEMMA CleanFares == ASSUME Waiting, service_clean PROVE Fares(svc', Called)
<1>1. PICK y \in SpawnControl(Called, 0, conf.timeout_clean) : svc' = service_set_state(y, "cleaning") /\ svc.state = "dead"
  BY Zenon DEF service_clean, Step
<1>2. Awaits(Called) /\ Called.state = svc.state
  BY CalledAwaits, Zenon DEF Fields
<1> HIDE DEF Called
<1>3. Called.exec_fd = "none"
  BY <1>1, <1>2, Zenon DEF Awaits, Rests
<1>4. Calm(y) /\ (y.aborted \/ Keeps(y, Called))
  BY <1>1, <1>2, <1>3, SpawnControlCalm, Zenon DEF Awaits
<1>5. "cleaning" \in ServiceState \ BeforeRestart /\ "cleaning" \notin Watched
  BY Zenon DEF ServiceState, BeforeRestart, Watched, Reloading
<1>6. Good(svc', Called, {"cleaning"}, {})
  BY <1>1, <1>4, <1>5, SetStateGood, Zenon DEF Keeps
<1>7. Hush(Called, Called) /\ {"cleaning"} \subseteq ServiceState
  BY <1>5, Zenon DEF Hush
<1> QED BY <1>6, <1>7, GoodFares, Zenon

\* daemon-reload: the watchdog is armed again, and a timer in no state without one.
LEMMA ReloadFares == ASSUME Waiting, Reload PROVE Fares(svc', Called)
<1> DEFINE w == Called
           timer == ColdplugTimeout
           watchdog == conf.watchdog /\ svc.state \in Watched
           main == IF svc.main_known THEN w.main ELSE NoPid
           alien == svc.main # NoPid /\ svc.main \notin (svc.live \ svc.foreign) \cup svc.zombie
           fd == IF w.exec_fd = "hot" THEN "forgotten" ELSE w.exec_fd
<1>1. svc' = [w EXCEPT !.timer = timer, !.watchdog = watchdog, !.main = main, !.main_alien = alien, !.exec_fd = fd,
                       !.notify_state = "unknown", !.pid_watch = FALSE]
  <2> HIDE DEF Called
  <2> QED BY Zenon DEF Reload, Step
<1>2. Awaits(w) /\ w.state = svc.state /\ w.main_known = svc.main_known
  BY CalledAwaits, Zenon DEF Fields
<1> SUFFICES Fares(svc', w)
  BY Zenon
<1>3. timer => w.state \in Timed
  BY <1>2, Zenon DEF ColdplugTimeout, Timed
<1>4. Watchable /\ w.state \in Watched => watchdog
  BY <1>2, Zenon DEF Watchable
<1>5. main \in {w.main, NoPid} /\ (main # NoPid => w.main_known)
  BY <1>2, Zenon DEF w
<1>6. fd \in {w.exec_fd, "forgotten"} /\ (fd # "none" => w.exec_fd # "none")
  BY Zenon
<1> HIDE DEF w, timer, watchdog, main, alien, fd
<1>7. Object(w)
  BY <1>2, Zenon DEF Awaits, Calm, Typed
<1>8. /\ svc' = [k \in Fields |-> svc'[k]]
      /\ \A k \in Fields \ {"timer", "watchdog", "main", "main_alien", "exec_fd", "notify_state", "pid_watch"} : svc'[k] = w[k]
      /\ svc'.timer = timer /\ svc'.watchdog = watchdog /\ svc'.main = main /\ svc'.notify_state = "unknown"
      /\ svc'.pid_watch = FALSE /\ svc'.exec_fd = fd
  BY <1>1, <1>7, ZenonT(30) DEF Object, Fields
<1>9. /\ svc'.state = w.state /\ svc'.next = w.next /\ svc'.aborted = w.aborted /\ svc'.job = w.job /\ svc'.run = w.run
      /\ svc'.main_known = w.main_known /\ svc'.control = w.control
      /\ svc'.main_command = w.main_command /\ svc'.control_command = w.control_command
      /\ svc'.live = w.live /\ svc'.zombie = w.zombie /\ svc'.foreign = w.foreign
      /\ svc'.result = w.result /\ svc'.reload_result = w.reload_result /\ svc'.notified = w.notified
      /\ svc'.perform = w.perform
  BY <1>8, Zenon DEF Fields
<1>10. Object(svc')
  BY <1>7, <1>8, <1>9, Zenon DEF Object
<1>11. Typed(svc')
  BY <1>2, <1>5, <1>6, <1>8, <1>9, <1>10, ZenonT(30) DEF Awaits, Calm, Typed
<1>12. Rests(svc')
  BY <1>2, <1>3, <1>4, <1>5, <1>6, <1>8, <1>9, ZenonT(30) DEF Awaits, Rests
<1>13. Awaits(svc') /\ Hush(svc', w)
  BY <1>2, <1>6, <1>8, <1>9, <1>11, <1>12, ZenonT(30) DEF Awaits, Calm, Hush, Job
<1> QED BY <1>13, AwaitsFares, Zenon

=============================================================================
