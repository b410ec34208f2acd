------------------------ MODULE ServiceContract_proof ------------------------
(***************************************************************************)
(* The fields of a service keep their types, no assertion fails, a service *)
(* that is up is watched, and a service implements UnitContract: for any   *)
(* number of processes and any interleaving of jobs, signals, timers,      *)
(* messages and daemon-reloads, and for any unit file but those Supported  *)
(* and Watchable exclude.                                                  *)
(*                                                                         *)
(* Every handler is shown to keep Sound(svc) of ServiceSteps_proof and to  *)
(* be a step of the contract (Obeys).  A job that was run and has had no   *)
(* effect yet is the delicate part: the chain of calls that is left must   *)
(* not report a state the job engine does not expect (Aims).               *)
(***************************************************************************)
EXTENDS ServiceContract, ServiceSteps_proof

-----------------------------------------------------------------------------
(* Steps of the contract.                                                  *)

\* The job types of the contract are those of the service.
LEMMA SameJobTypes ==
  /\ \A j, ns : Contract!Told(j, ns) = Left(j, ns)
  /\ \A t, s : Contract!MethodTargets(t, s) = MethodTargets(t, s)
  /\ \A t, s : Contract!NotYet(t, s) <=> NotYet(t, s)
  /\ \A t, s : Contract!OnItsWay(t, s) <=> OnItsWay(t, s)
  /\ \A a, b : Contract!job_type_is_conflicting(a, b) <=> job_type_is_conflicting(a, b)
  /\ \A a, b, s : Contract!job_type_merge_and_collapse(a, b, s) = job_type_merge_and_collapse(a, b, s)
  /\ \A s : Contract!IsInactiveOrFailed(s) <=> IsInactiveOrFailed(s)
  /\ Contract!MergingTypes = MergingTypes
<1>1. \A t, run, ns, ok : Contract!unit_process_job(t, run, ns, ok) = unit_process_job(t, run, ns, ok)
  BY Zenon DEF Contract!unit_process_job, unit_process_job, Contract!IsInactiveOrFailed, IsInactiveOrFailed,
         Contract!IsActiveOrReloading, IsActiveOrReloading
<1>2. \A j, ns : Contract!Told(j, ns) = Left(j, ns)
  BY <1>1, ZenonT(30) DEF Contract!Told, Left
<1>3. \A t, s : Contract!MethodTargets(t, s) = MethodTargets(t, s)
  BY Zenon DEF Contract!MethodTargets, MethodTargets, Contract!UnitActiveState, UnitActiveState,
         Contract!IsInactiveOrFailed, IsInactiveOrFailed
<1>4. \A t, s : (Contract!OnItsWay(t, s) <=> OnItsWay(t, s)) /\ (Contract!NotYet(t, s) <=> NotYet(t, s))
  BY Zenon DEF Contract!OnItsWay, OnItsWay, Contract!NotYet, NotYet
<1>5. \A a, b : Contract!job_type_is_conflicting(a, b) <=> job_type_is_conflicting(a, b)
  BY Zenon DEF Contract!job_type_is_conflicting, job_type_is_conflicting, Contract!job_type_is_mergeable,
         job_type_is_mergeable, Contract!job_type_lookup_merge, job_type_lookup_merge
<1>6. \A a, b, s : Contract!job_type_merge_and_collapse(a, b, s) = job_type_merge_and_collapse(a, b, s)
  BY DEF Contract!job_type_merge_and_collapse, job_type_merge_and_collapse, Contract!job_type_collapse,
         job_type_collapse, Contract!job_type_lookup_merge, job_type_lookup_merge,
         Contract!IsActiveOrReloading, IsActiveOrReloading, Contract!IsActiveOrActivating, IsActiveOrActivating
<1>7. \A s : Contract!IsInactiveOrFailed(s) <=> IsInactiveOrFailed(s)
  BY Zenon DEF Contract!IsInactiveOrFailed, IsInactiveOrFailed
<1>8. Contract!MergingTypes = MergingTypes
  BY Zenon DEF Contract!MergingTypes, MergingTypes
<1> QED BY <1>2, <1>3, <1>4, <1>5, <1>6, <1>7, <1>8, ZenonT(30)

\* What the job engine sees of the service.
Active == service_active_state(svc.state)
Performing == svc.perform /\ svc.next # NoCall

\* The unit file does not change.
LEMMA ActiveNext == ASSUME conf' = conf PROVE Active' = service_active_state(svc'.state)
  BY Zenon DEF Active, service_active_state

\* The service reports no state.
LEMMA NotifyNone ==
  ASSUME NEW j, svc'.notified = <<>>, Job(svc') = j, Active' = Active, ~ Performing'
  PROVE  Contract!Notify(j)
<1> DEFINE J == {j, <<"start", FALSE>>, <<"none", FALSE>>}
           h == [i \in 0 .. 0 |-> j]
<1>1. Len(svc'.notified) = 0
  OBVIOUS
<1>2. h \in [0 .. 0 -> J] /\ h[0] = j /\ \A i \in 1 .. 0 : h[i] \in Contract!Told(h[i - 1], svc'.notified[i])
  OBVIOUS
<1> HIDE DEF h
<1> QED BY <1>1, <1>2, Zenon DEF Contract!Notify, Job, Active, Performing

\* A job that is told of a state stays as it is, goes on as a START or is over.
LEMMA ToldAmong ==
  ASSUME NEW j, NEW ns, NEW k \in Contract!Told(j, ns)
  PROVE  k \in {j, <<"start", FALSE>>, <<"none", FALSE>>}
  BY Zenon DEF Contract!Told

\* The service reports one state,
LEMMA NotifyOne ==
  ASSUME NEW j, NEW a, svc'.notified = <<a>>, Job(svc') \in Contract!Told(j, a), Active' = a, ~ Performing'
  PROVE  Contract!Notify(j)
<1> DEFINE J == {j, <<"start", FALSE>>, <<"none", FALSE>>}
           k == Job(svc')
           h == [i \in 0 .. 1 |-> IF i = 0 THEN j ELSE k]
<1>1. Len(svc'.notified) = 1 /\ svc'.notified[1] = a
  OBVIOUS
<1>2. k \in J /\ j \in J
  BY ToldAmong, Zenon
<1> HIDE DEF k, J
<1>3. h \in [0 .. 1 -> J] /\ h[0] = j /\ h[1] = k
  BY <1>2
<1>4. \A i \in 1 .. 1 : h[i] \in Contract!Told(h[i - 1], svc'.notified[i])
  <2> TAKE i \in 1 .. 1
  <2>1. i = 1 /\ i - 1 = 0
    OBVIOUS
  <2> HIDE DEF h
  <2> QED BY <1>1, <1>3, <2>1, Zenon DEF k
<1>5. <<svc'.job, svc'.run>> = h[1] /\ Active' = svc'.notified[1]
  BY <1>1, <1>3, Zenon DEF Job, k
<1> HIDE DEF h
<1> DEFINE n == Len(svc'.notified)
<1>6. /\ \E g \in [0 .. n -> J] :
           /\ g[0] = j /\ \A i \in 1 .. n : g[i] \in Contract!Told(g[i - 1], svc'.notified[i])
           /\ <<svc'.job, svc'.run>> = g[n]
      /\ Active' = IF n = 0 THEN Active ELSE svc'.notified[n]
  <2> HIDE DEF n, Active
  <2>1. n = 1
    BY <1>1, Zenon DEF n
  <2> QED BY <1>3, <1>4, <1>5, <2>1
<1> QED BY <1>6, Zenon DEF Contract!Notify, J, Active, Performing

\* or two.
LEMMA NotifyTwo ==
  ASSUME NEW j, NEW a, NEW b, Active' = b, ~ Performing',
         Len(svc'.notified) = 2, svc'.notified[1] = a, svc'.notified[2] = b,
         NEW k \in Contract!Told(j, a), Job(svc') \in Contract!Told(k, b)
  PROVE  Contract!Notify(j)
<1> DEFINE J == {j, <<"start", FALSE>>, <<"none", FALSE>>}
           l == Job(svc')
           h == [i \in 0 .. 2 |-> IF i = 0 THEN j ELSE IF i = 1 THEN k ELSE l]
<1>1. Len(svc'.notified) = 2 /\ svc'.notified[1] = a /\ svc'.notified[2] = b
  BY Zenon
<1>2. k \in J /\ l \in J /\ j \in J
  <2>1. k \in J
    BY ToldAmong, Zenon
  <2>2. l \in {k, <<"start", FALSE>>, <<"none", FALSE>>}
    BY ToldAmong, Zenon
  <2> QED BY <2>1, <2>2, Zenon
<1> HIDE DEF l, J
<1>3. h \in [0 .. 2 -> J] /\ h[0] = j /\ h[1] = k /\ h[2] = l
  BY <1>2
<1>4. \A i \in 1 .. 2 : h[i] \in Contract!Told(h[i - 1], svc'.notified[i])
  <2> TAKE i \in 1 .. 2
  <2>1. (i = 1 /\ i - 1 = 0) \/ (i = 2 /\ i - 1 = 1)
    OBVIOUS
  <2> HIDE DEF h
  <2> QED BY <1>1, <1>3, <2>1, ZenonT(30) DEF l
<1>5. <<svc'.job, svc'.run>> = h[2] /\ Active' = svc'.notified[2]
  BY <1>1, <1>3, Zenon DEF Job, l
<1> HIDE DEF h
<1> DEFINE n == Len(svc'.notified)
<1>6. /\ \E g \in [0 .. n -> J] :
           /\ g[0] = j /\ \A i \in 1 .. n : g[i] \in Contract!Told(g[i - 1], svc'.notified[i])
           /\ <<svc'.job, svc'.run>> = g[n]
      /\ Active' = IF n = 0 THEN Active ELSE svc'.notified[n]
  <2> HIDE DEF n, Active
  <2>1. n = 2
    BY <1>1, Zenon DEF n
  <2> QED BY <1>3, <1>4, <1>5, <2>1
<1> QED BY <1>6, Zenon DEF Contract!Notify, J, Active, Performing

\* What a handler tells the job.
LEMMA TellsNotify ==
  ASSUME conf' = conf, NEW w, w.notified = <<>>, NEW S, Tells(svc', w, S)
  PROVE  /\ Contract!Notify(Job(w)) /\ svc'.perform = FALSE /\ svc'.notified # <<>>
         /\ \E s \in S : Head(svc'.notified) = service_active_state(s)
<1>1. PICK s \in S : \/ Reports(svc', w, s)
                    \/ \E z : \E t \in ServiceState : Reports(z, w, s) /\ Reports(svc', z, t)
  BY Zenon DEF Tells
<1> DEFINE a == service_active_state(s)
<1>2. CASE Reports(svc', w, s)
  <2>1. svc'.notified = <<a>> /\ svc'.perform = FALSE /\ Job(svc') \in Left(Job(w), a) /\ svc'.state = s
    BY <1>2 DEF Reports
  <2>2. Active' = a /\ ~ Performing'
    BY <2>1, ActiveNext, Zenon DEF Performing
  <2>3. Job(svc') \in Contract!Told(Job(w), a)
    BY <2>1, SameJobTypes, Zenon
  <2> HIDE DEF a
  <2>4. Head(svc'.notified) = a /\ svc'.notified # <<>>
    BY <2>1
  <2>5. Contract!Notify(Job(w))
    BY <2>1, <2>2, <2>3, NotifyOne, ZenonT(30)
  <2> QED BY <2>1, <2>4, <2>5, Zenon DEF a
<1>3. ASSUME NEW z, NEW t \in ServiceState, Reports(z, w, s), Reports(svc', z, t)
      PROVE  Contract!Notify(Job(w)) /\ svc'.perform = FALSE /\ svc'.notified # <<>> /\ Head(svc'.notified) = a
  <2> DEFINE b == service_active_state(t)
             k == Job(z)
  <2>1. /\ z.notified = <<a>> /\ k \in Left(Job(w), a)
        /\ svc'.notified = Append(z.notified, b) /\ svc'.perform = FALSE /\ Job(svc') \in Left(k, b) /\ svc'.state = t
    BY <1>3 DEF Reports
  <2>2. Active' = b /\ ~ Performing'
    BY <2>1, ActiveNext, Zenon DEF Performing
  <2>3. k \in Contract!Told(Job(w), a) /\ Job(svc') \in Contract!Told(k, b)
    BY <2>1, SameJobTypes, Zenon
  <2> HIDE DEF a, b, k
  <2>4. svc'.notified = Append(<<a>>, b)
    BY <2>1, Zenon
  <2>5. LET n == Append(<<a>>, b) IN Len(n) = 2 /\ n[1] = a /\ n[2] = b /\ Head(n) = a /\ n # <<>>
    OBVIOUS
  <2>6. Contract!Notify(Job(w))
    BY <2>2, <2>3, <2>4, <2>5, NotifyTwo, ZenonT(30)
  <2> QED BY <2>1, <2>4, <2>5, <2>6, ZenonT(30)
<1> QED BY <1>1, <1>2, <1>3, Zenon

\* The call of a function that acts on a job the service has been run for: what
\* it does to the service's state is still to come, and cannot be but what the
\* job is for.
Aims(x) ==
    \/ x.job = "start" /\ x.state \in {"dead", "failed", "auto-restart-queued"} /\ x.notify_state = "unknown"
    \/ /\ x.job \in {"stop", "restart"} /\ x.state \in ServiceState \ (Ends \cup BeforeRestart)
       /\ x.forbid_restart /\ x.next[1] \in Takedown
    \/ x.job = "reload" /\ x.state \in {"running", "exited"}
Performs(x) == x.perform /\ x.next # NoCall => x.run = TRUE /\ x.notified = <<>> /\ Aims(x)

\* Its job is running, or it is not.
Flagged(w) == w.run \in BOOLEAN

\* What every step does.
Obeys ==
    /\ Sound(svc')
    /\ svc'.aborted \/ (/\ Contract!Next \/ UNCHANGED Contract!vars
                        /\ Flagged(svc') /\ Performs(svc'))

\* A report leaves a job that runs, or does not.
LEMMA TellsRun == ASSUME NEW x, NEW w, Flagged(w), NEW S, Tells(x, w, S) PROVE Flagged(x)
<1>1. ASSUME NEW z, NEW v, Flagged(v), NEW s, Reports(z, v, s) PROVE Flagged(z)
  <2>1. Job(z) = Job(v) \/ \E t : Job(z) = <<t, FALSE>>
    BY <1>1, Zenon DEF Reports, Left
  <2> QED BY <1>1, <2>1, Zenon DEF Job, Flagged
<1> QED BY <1>1, Zenon DEF Tells

\* Handlers of events.
LEMMA FaresObeys == ASSUME Waiting, Flagged(svc), conf' = conf, Fares(svc', Called) PROVE Obeys
<1>1. /\ Called.notified = <<>> /\ Called.perform = FALSE /\ Called.state = svc.state
      /\ Called.job = svc.job /\ Called.run = svc.run
  BY CalledAwaits, Zenon DEF Fields
<1>2. ~ Performing /\ Job(Called) = <<svc.job, svc.run>>
  BY <1>1, Zenon DEF Performing, Waiting, Job
<1> HIDE DEF Called
<1>3. CASE Hush(svc', Called)
  <2>1. svc'.notified = <<>> /\ Job(svc') = Job(Called) /\ svc'.perform = FALSE /\ svc'.state = svc.state
    BY <1>1, <1>3, Zenon DEF Hush
  <2>2. Active' = Active /\ ~ Performing'
    BY <2>1, ActiveNext, Zenon DEF Active, Performing
  <2>3. Contract!Notify(<<svc.job, svc.run>>)
    BY <1>2, <2>1, <2>2, NotifyNone, ZenonT(30)
  <2>4. Flagged(svc')
    BY <1>2, <2>1, Zenon DEF Job, Flagged
  <2>5. Contract!Change
    BY <1>2, <2>3, Zenon DEF Contract!Change, Performing
  <2> QED BY <2>1, <2>4, <2>5, Zenon DEF Obeys, Fares, Contract!Next, Performs
<1>4. CASE Tells(svc', Called, ServiceState)
  <2>1. Contract!Notify(<<svc.job, svc.run>>) /\ svc'.perform = FALSE
    BY <1>1, <1>2, <1>4, TellsNotify, ZenonT(30)
  <2>2. Flagged(svc')
    <3>1. Flagged(Called)
      BY <1>1, Zenon DEF Flagged
    <3> QED BY <1>4, <3>1, TellsRun, ZenonT(30)
  <2>3. Contract!Change
    BY <1>2, <2>1, Zenon DEF Contract!Change, Performing
  <2> QED BY <2>1, <2>2, <2>3, ZenonT(30) DEF Obeys, Fares, Contract!Next, Performs
<1> QED BY <1>3, <1>4, Zenon DEF Obeys, Fares, Moves

\* systemctl cancel.
LEMMA CancelObeys == ASSUME Waiting, conf' = conf, Cancel PROVE Obeys
<1>1. Called.notified = <<>> /\ Called.state = svc.state /\ svc.next = NoCall
  BY CalledAwaits, Zenon DEF Fields, Waiting
<1>2. svc.job # "none"
  BY Zenon DEF Cancel
<1>3. /\ Sound(svc') /\ svc'.state = Called.state /\ Job(svc') = <<"none", FALSE>>
      /\ svc'.notified = Called.notified /\ svc'.next = NoCall
  BY CancelSound, Zenon
<1> HIDE DEF Called
<1>4. svc'.job = "none" /\ svc'.run = FALSE
  BY <1>3, Zenon DEF Job
<1>5. Active' = Active /\ ~ Performing' /\ ~ Performing
  BY <1>1, <1>3, ActiveNext, ZenonT(30) DEF Active, Performing
<1>6. Contract!Cancel
  BY <1>1, <1>2, <1>3, <1>4, <1>5, ZenonT(30) DEF Contract!Cancel, Contract!Quiet, Active, Performing
<1>7. Flagged(svc') /\ Performs(svc')
  BY <1>3, <1>4, Zenon DEF Flagged, Performs
<1> QED BY <1>3, <1>6, <1>7, ZenonT(30) DEF Obeys, Contract!Next

\* A new job: what job_install() makes of it and of the one the unit has.
LEMMA MergedInstall ==
  ASSUME ~ Performing, NEW t \in MergingTypes, NEW w, w.job = svc.job, w.state = svc.state, NEW r,
         r = FALSE \/ (r = svc.run /\ ~ (w.job = "none" \/ job_type_is_conflicting(w.job, t))),
         Contract!Notify(<<Merged(w, t), r>>)
  PROVE  Contract!Install
<1>1. t \in Contract!MergingTypes
  BY SameJobTypes, Zenon
<1>2. CASE svc.job = "none" \/ job_type_is_conflicting(svc.job, t)
  <2>1. Contract!Notify(<<t, FALSE>>) /\ (svc.job = "none" \/ Contract!job_type_is_conflicting(svc.job, t))
    BY <1>2, SameJobTypes, Zenon DEF Merged
  <2> QED BY <1>1, <2>1, Zenon DEF Contract!Install, Performing
<1>3. CASE ~ (svc.job = "none" \/ job_type_is_conflicting(svc.job, t))
  <2>1. Merged(w, t) = Contract!job_type_merge_and_collapse(svc.job, t, Active)
    BY <1>3, SameJobTypes, Zenon DEF Merged, Active
  <2>2. ~ (svc.job = "none" \/ Contract!job_type_is_conflicting(svc.job, t))
    BY <1>3, SameJobTypes, ZenonT(30)
  <2>3. r \in {FALSE, svc.run} /\ Contract!Notify(<<Contract!job_type_merge_and_collapse(svc.job, t, Active), r>>)
    BY <2>1, Zenon
  <2> QED BY <1>1, <2>2, <2>3, ZenonT(30) DEF Contract!Install, Performing, Active
<1> QED BY <1>2, <1>3, ZenonT(30)

\* systemctl start, stop, reload, restart.
LEMMA RequestObeys == ASSUME Waiting, Flagged(svc), conf' = conf, NEW t \in Requests, Request(t) PROVE Obeys
<1> DEFINE w == Called
<1>1. /\ w.notified = <<>> /\ w.state = svc.state /\ w.job = svc.job /\ w.run = svc.run
      /\ svc.next = NoCall /\ Awaits(w)
  BY CalledAwaits, Zenon DEF Fields, Waiting
<1>2. svc' = job_install(w, service_active_state(w.state), t) /\ t \in MergingTypes
  BY <1>1, RequestsAssumption, Zenon DEF Request, Step
<1> HIDE DEF w
<1>3. /\ Object(svc') /\ \A k \in Fields \ {"job", "run"} : svc'[k] = w[k]
      /\ svc'.job = Merged(w, t)
      /\ w.job = "none" \/ job_type_is_conflicting(w.job, t) => svc'.run = FALSE
      /\ svc'.run = w.run \/ svc'.run = FALSE
  <2>1. Object(w)
    BY <1>1, Zenon DEF Awaits, Calm, Typed
  <2> QED BY <1>2, <2>1, InstallTyped, ZenonT(30)
<1>4. /\ svc'.state = w.state /\ svc'.notified = w.notified /\ svc'.next = w.next /\ svc'.aborted = w.aborted
      /\ svc'.main = w.main /\ svc'.control = w.control /\ svc'.timer = w.timer /\ svc'.pid_watch = w.pid_watch
      /\ svc'.exec_fd = w.exec_fd /\ svc'.watchdog = w.watchdog
  BY <1>3, Zenon DEF Fields
<1>5. /\ svc'.result = w.result /\ svc'.reload_result = w.reload_result /\ svc'.foreign = w.foreign
      /\ svc'.live = w.live /\ svc'.main_command = w.main_command /\ svc'.control_command = w.control_command
      /\ svc'.notify_state = w.notify_state /\ svc'.main_known = w.main_known
  BY <1>3, Zenon DEF Fields
<1>6. svc'.job \in MergingTypes \cup {"none"}
  <2>1. w.job \in MergingTypes \cup {"none"}
    BY <1>1, Zenon DEF Awaits, Calm, Typed
  <2> QED BY <1>2, <1>3, <2>1, MergedType, ZenonT(30)
<1>7. Typed(svc') /\ Rests(svc')
  BY <1>1, <1>3, <1>4, <1>5, <1>6, ZenonT(30) DEF Awaits, Calm, Typed, Rests
<1>8. Sound(svc') /\ svc'.next = NoCall
  BY <1>1, <1>4, <1>7, Zenon DEF Awaits, Calm, Sound
<1>9. Active' = Active /\ ~ Performing' /\ ~ Performing
  BY <1>1, <1>4, <1>8, ActiveNext, ZenonT(30) DEF Active, Performing
<1>10. Job(svc') = <<Merged(w, t), svc'.run>> /\ svc'.notified = <<>>
  BY <1>1, <1>3, <1>4, ZenonT(30) DEF Job
<1>11. Contract!Notify(<<Merged(w, t), svc'.run>>)
  BY <1>9, <1>10, NotifyNone, ZenonT(30)
<1>12. svc'.run = FALSE \/ (svc'.run = svc.run /\ ~ (w.job = "none" \/ job_type_is_conflicting(w.job, t)))
  BY <1>1, <1>3, Zenon
<1>13. Contract!Install
  BY <1>1, <1>2, <1>9, <1>11, <1>12, MergedInstall, ZenonT(30)
<1>14. Flagged(svc') /\ Performs(svc')
  BY <1>1, <1>3, <1>8, ZenonT(30) DEF Flagged, Performs
<1> QED BY <1>8, <1>13, <1>14, ZenonT(30) DEF Obeys, Contract!Next

\* Timeouts, among them the one that starts a service anew.
LEMMA TimerObeys == ASSUME Waiting, Flagged(svc), conf' = conf, service_dispatch_timer PROVE Obeys
<1> DEFINE w == Called
<1>1. CASE Fares(svc', w)
  BY <1>1, FaresObeys, Zenon
<1>2. ASSUME Sound(svc'),
             NEW y, y.notified = w.notified, Job(y) = <<Merged(w, "start"), FALSE>>, Reports(svc', y, "auto-restart-queued")
      PROVE  Obeys
  <2>1. w.notified = <<>> /\ w.state = svc.state /\ w.job = svc.job /\ ~ Performing
    BY CalledAwaits, Zenon DEF Fields, Waiting, Performing
  <2> HIDE DEF w
  <2>2. Tells(svc', y, {"auto-restart-queued"}) /\ y.notified = <<>>
    BY <1>2, <2>1, Zenon DEF Tells
  <2>3. Contract!Notify(<<Merged(w, "start"), FALSE>>) /\ svc'.perform = FALSE
    BY <1>2, <2>2, TellsNotify, ZenonT(30)
  <2>4. Flagged(y)
    BY <1>2, Zenon DEF Job, Flagged
  <2>5. Flagged(svc') /\ Performs(svc')
    BY <2>2, <2>3, <2>4, TellsRun, ZenonT(30) DEF Performs
  <2>6. "start" \in MergingTypes
    BY Zenon DEF MergingTypes
  <2>7. Contract!Install
    BY <2>1, <2>3, <2>6, MergedInstall, ZenonT(30)
  <2> QED BY <1>2, <2>5, <2>7, ZenonT(30) DEF Obeys, Contract!Next
<1> QED BY <1>1, <1>2, TimerFares, ZenonT(30)

-----------------------------------------------------------------------------
(* Running the job.                                                        *)

\* What the function that runs the job may do: put it off, end it, leave it to a
\* change under way, set off a change, or be about to.
Goal(w, s) == service_active_state(s) \in MethodTargets(w.job, service_active_state(w.state))
Rest(x, w, type, run) ==
    /\ x.next = NoCall /\ x.state = w.state /\ x.notified = w.notified /\ x.job = type /\ x.run = run
Outcome(x, w) ==
    /\ Sound(x)
    /\ \/ x.aborted
       \/ NotYet(w.job, service_active_state(w.state)) /\ Rest(x, w, w.job, FALSE)
       \/ /\ w.job = "restart" => IsInactiveOrFailed(service_active_state(w.state))
          /\ Rest(x, w, IF w.job = "restart" THEN "start" ELSE "none", FALSE)
       \/ OnItsWay(w.job, service_active_state(w.state)) /\ Rest(x, w, w.job, TRUE)
       \/ \E S : Tells(x, w, S) /\ \A s \in S : Goal(w, s)
       \/ x.next # NoCall /\ Hush(x, w) /\ Aims(x)

\* The object as that function finds it.
Ran == [Called EXCEPT !.run = TRUE, !.perform = TRUE]
LEMMA RanAwaits ==
  ASSUME Waiting
  PROVE  /\ Awaits(Ran) /\ Ran.run = TRUE /\ Ran.perform = TRUE /\ Ran.notified = <<>>
         /\ Ran.state = svc.state /\ Ran.job = svc.job
<1> DEFINE w == Called
<1>1. Awaits(w) /\ w.notified = <<>> /\ w.state = svc.state /\ w.job = svc.job
  BY CalledAwaits, Zenon DEF Fields
<1>2. Ran = [w EXCEPT !.run = TRUE, !.perform = TRUE]
  BY Zenon DEF Ran
<1> HIDE DEF w
<1>3. Ran.run = TRUE /\ Ran.perform = TRUE /\ Ran.notified = w.notified /\ Ran.state = w.state /\ Ran.job = w.job
  BY <1>1, <1>2, ZenonT(30) DEF Awaits, Calm, Typed, Object, Fields
<1>4. Awaits(Ran)
  BY <1>1, <1>2, ZenonT(30) DEF Awaits, Calm, Typed, Object, Fields, Rests
<1> QED BY <1>1, <1>3, <1>4, ZenonT(30)

\* All that is a step of the contract.
LEMMA OutcomeObeys ==
  ASSUME Waiting, conf' = conf, svc.job # "none", ~ svc.run, Flagged(svc), Outcome(svc', Ran)
  PROVE  Obeys
<1> DEFINE w == Ran
<1>1. /\ w.run = TRUE /\ w.perform = TRUE /\ w.notified = <<>> /\ w.state = svc.state /\ w.job = svc.job
      /\ svc.next = NoCall
  BY RanAwaits, Zenon DEF Waiting
<1>2. svc.run = FALSE /\ ~ Performing
  BY <1>1, Zenon DEF Flagged, Performing
<1>3. Sound(svc')
  BY Zenon DEF Outcome
<1> HIDE DEF w
<1>4. ASSUME NEW type, NEW run, Rest(svc', w, type, run)
      PROVE  /\ svc'.job = type /\ svc'.run = run /\ svc'.notified = <<>> /\ Active' = Active
             /\ ~ Performing' /\ Performs(svc')
    BY <1>1, <1>4, ActiveNext, ZenonT(30) DEF Rest, Active, Performing, Performs
<1>5. CASE NotYet(w.job, service_active_state(w.state)) /\ Rest(svc', w, w.job, FALSE)
  <2>1. Contract!NotYet(svc.job, Active)
    BY <1>1, <1>5, SameJobTypes, ZenonT(30) DEF Active
  <2>2. Flagged(svc')
    BY <1>4, <1>5, Zenon DEF Flagged
  <2>3. Contract!Run
    BY <1>1, <1>2, <1>4, <1>5, <2>1, ZenonT(30) DEF Contract!Run, Contract!Quiet, Active, Performing
  <2> QED BY <1>3, <1>4, <1>5, <2>2, <2>3, ZenonT(30) DEF Obeys, Contract!Next
<1>6. ASSUME w.job = "restart" => IsInactiveOrFailed(service_active_state(w.state)),
             Rest(svc', w, IF w.job = "restart" THEN "start" ELSE "none", FALSE)
      PROVE  Obeys
  <2>1. svc.job = "restart" => Contract!IsInactiveOrFailed(Active)
    BY <1>1, <1>6, SameJobTypes, ZenonT(30) DEF Active
  <2>2. Flagged(svc')
    BY <1>4, <1>6, Zenon DEF Flagged
  <2>3. svc'.job = IF svc.job = "restart" /\ Contract!IsInactiveOrFailed(Active) THEN "start" ELSE "none"
    BY <1>1, <1>4, <1>6, <2>1, ZenonT(30)
  <2>4. Contract!Run
    BY <1>2, <1>4, <1>6, <2>3, ZenonT(30) DEF Contract!Run, Contract!Quiet, Active, Performing
  <2> QED BY <1>3, <1>4, <1>6, <2>2, <2>4, ZenonT(30) DEF Obeys, Contract!Next
<1>7. CASE OnItsWay(w.job, service_active_state(w.state)) /\ Rest(svc', w, w.job, TRUE)
  <2>1. Contract!OnItsWay(svc.job, Active)
    BY <1>1, <1>7, SameJobTypes, ZenonT(30) DEF Active
  <2>2. Flagged(svc')
    BY <1>4, <1>7, Zenon DEF Flagged
  <2>3. Contract!Run
    BY <1>1, <1>2, <1>4, <1>7, <2>1, ZenonT(30) DEF Contract!Run, Contract!Quiet, Active, Performing
  <2> QED BY <1>3, <1>4, <1>7, <2>2, <2>3, ZenonT(30) DEF Obeys, Contract!Next
<1>8. ASSUME NEW S, Tells(svc', w, S), \A s \in S : Goal(w, s) PROVE Obeys
  <2>1. /\ Contract!Notify(Job(w)) /\ svc'.perform = FALSE /\ svc'.notified # <<>>
        /\ \E s \in S : Head(svc'.notified) = service_active_state(s)
    BY <1>1, <1>8, TellsNotify, ZenonT(30)
  <2>2. Head(svc'.notified) \in Contract!MethodTargets(svc.job, Active)
    BY <1>1, <1>8, <2>1, SameJobTypes, ZenonT(30) DEF Goal, Active
  <2>3. Job(w) = <<svc.job, TRUE>>
    BY <1>1, Zenon DEF Job
  <2>4. Contract!Perform
    BY <1>2, <2>1, <2>2, <2>3, ZenonT(30) DEF Contract!Perform, Active
  <2>5. Flagged(w)
    BY <1>1, Zenon DEF Flagged
  <2>6. Flagged(svc')
    BY <1>8, <2>5, TellsRun, ZenonT(30)
  <2> QED BY <1>3, <2>1, <2>4, <2>6, ZenonT(30) DEF Obeys, Contract!Next, Performs
<1>9. CASE svc'.next # NoCall /\ Hush(svc', w) /\ Aims(svc')
  <2>1. /\ Job(svc') = Job(w) /\ svc'.notified = <<>> /\ svc'.state = svc.state /\ svc'.perform = TRUE
    BY <1>1, <1>9, ZenonT(30) DEF Hush
  <2>2. svc'.job = svc.job /\ svc'.run = TRUE
    BY <1>1, <2>1, Zenon DEF Job
  <2>3. Active' = Active /\ Performing' = TRUE
    BY <1>9, <2>1, ActiveNext, ZenonT(30) DEF Active, Performing
  <2>4. Contract!Run
    BY <1>2, <2>1, <2>2, <2>3, ZenonT(30) DEF Contract!Run, Active, Performing
  <2>5. Flagged(svc') /\ Performs(svc')
    BY <1>9, <2>1, <2>2, ZenonT(30) DEF Flagged, Performs
  <2> QED BY <1>3, <2>4, <2>5, ZenonT(30) DEF Obeys, Contract!Next
<1>10. CASE svc'.aborted
  BY <1>3, <1>10, Zenon DEF Obeys
<1> QED BY <1>5, <1>6, <1>7, <1>8, <1>9, <1>10, Zenon DEF Outcome, w

\* A service whose job changes rests as before.
LEMMA JobOnly ==
  ASSUME NEW w, Awaits(w), NEW j \in MergingTypes \cup {"none"}, NEW x, x = [w EXCEPT !.job = j, !.run = FALSE]
  PROVE  Calm(x) /\ Rests(x)
<1>1. Object(w) /\ w = [k \in Fields |-> w[k]]
  BY Zenon DEF Awaits, Calm, Typed, Object
<1>2. x = [k \in Fields |-> x[k]] /\ (\A k \in Fields \ {"job", "run"} : x[k] = w[k]) /\ x.job = j
  BY <1>1, ZenonT(30) DEF Fields
<1>3. /\ x.state = w.state /\ x.result = w.result /\ x.reload_result = w.reload_result
      /\ x.main = w.main /\ x.main_known = w.main_known /\ x.main_command = w.main_command
      /\ x.control = w.control /\ x.control_command = w.control_command /\ x.timer = w.timer
      /\ x.watchdog = w.watchdog /\ x.exec_fd = w.exec_fd /\ x.pid_watch = w.pid_watch
      /\ x.notify_state = w.notify_state /\ x.live = w.live /\ x.zombie = w.zombie
      /\ x.foreign = w.foreign /\ x.next = w.next /\ x.aborted = w.aborted
  BY <1>2, ZenonT(30) DEF Fields
<1>4. Object(x)
  BY <1>1, <1>2, <1>3, ZenonT(30) DEF Object
<1>5. Typed(x)
  BY <1>2, <1>3, <1>4, ZenonT(30) DEF Awaits, Calm, Typed
<1>6. Calm(x)
  BY <1>3, <1>5, ZenonT(30) DEF Awaits, Calm
<1>7. Rests(x)
  BY <1>3, ZenonT(30) DEF Awaits, Rests
<1> QED BY <1>6, <1>7, ZenonT(30)

\* The job is over.
LEMMA FinishOutcome ==
  ASSUME NEW w, Awaits(w), w.job = "restart" => IsInactiveOrFailed(service_active_state(w.state)), NEW x, x = job_finish(w)
  PROVE  Outcome(x, w)
<1> DEFINE j == IF w.job = "restart" THEN "start" ELSE "none"
<1>1. x = [w EXCEPT !.job = j, !.run = FALSE]
  BY Zenon DEF job_finish
<1>2. j \in MergingTypes \cup {"none"}
  BY Zenon DEF MergingTypes
<1> HIDE DEF j
<1>3. x.job = j /\ x.run = FALSE /\ x.state = w.state /\ x.notified = w.notified
  BY <1>1, ZenonT(30) DEF Awaits, Calm, Typed, Object, Fields
<1>4. Calm(x) /\ Rests(x)
  BY <1>1, <1>2, JobOnly, ZenonT(30)
<1>5. Sound(x) /\ Rest(x, w, j, FALSE)
  BY <1>3, <1>4, ZenonT(30) DEF Sound, Calm, Rest
<1> QED BY <1>5, Zenon DEF Outcome, j

\* It is put off.
LEMMA TryAgainOutcome ==
  ASSUME NEW w, Awaits(w), NotYet(w.job, service_active_state(w.state)), NEW x, x = TryAgain(w)
  PROVE  Outcome(x, w)
<1>1. x = [w EXCEPT !.run = FALSE]
  BY Zenon DEF TryAgain
<1>2. x.job = w.job /\ x.run = FALSE /\ x.state = w.state /\ x.notified = w.notified
  BY <1>1, ZenonT(30) DEF Awaits, Calm, Typed, Object, Fields
<1>3. Calm(x) /\ Rests(x)
  <2>1. w.job \in MergingTypes \cup {"none"} /\ w = [k \in Fields |-> w[k]]
    BY Zenon DEF Awaits, Calm, Typed, Object
  <2>2. x = [w EXCEPT !.job = w.job, !.run = FALSE]
    BY <1>1, <2>1, ZenonT(30) DEF Fields
  <2> QED BY <2>1, <2>2, JobOnly, ZenonT(30)
<1>4. Sound(x) /\ Rest(x, w, w.job, FALSE)
  BY <1>2, <1>3, ZenonT(30) DEF Sound, Calm, Rest
<1> QED BY <1>4, Zenon DEF Outcome

\* The service is on its way.
LEMMA WayOutcome ==
  ASSUME NEW w, w.run = TRUE, OnItsWay(w.job, service_active_state(w.state)), NEW x, Awaits(x), Hush(x, w)
  PROVE  Outcome(x, w)
<1>1. x.job = w.job /\ x.run = TRUE
  BY Zenon DEF Hush, Job
<1>2. Sound(x) /\ Rest(x, w, w.job, TRUE)
  BY <1>1, Zenon DEF Awaits, Sound, Calm, Rest, Hush
<1> QED BY <1>2, Zenon DEF Outcome

\* It acts.
LEMMA GoodOutcome ==
  ASSUME NEW w, NEW v, Hush(v, w), NEW S, \A s \in S : Goal(w, s), NEW O, NEW x, Good(x, v, S, O),
         Same(x, v) /\ x.next[1] \in O => Aims(x)
  PROVE  Outcome(x, w)
<1>1. CASE Same(x, v) /\ x.next # NoCall /\ x.next[1] \in O
  <2>1. Hush(x, v)
    BY <1>1, SameHush, Zenon
  <2>2. Hush(x, w)
    BY <2>1, Zenon DEF Hush
  <2> QED BY <1>1, <2>2, Zenon DEF Good, Outcome
<1>2. CASE Tells(x, v, S)
  <2>1. \A z, s : Reports(z, v, s) => Reports(z, w, s)
    BY Zenon DEF Hush, Reports
  <2>2. Tells(x, w, S)
    BY <1>2, <2>1, Zenon DEF Tells
  <2> QED BY <2>2, Zenon DEF Good, Outcome
<1> QED BY <1>1, <1>2, Zenon DEF Good, Leads, Outcome

\* systemctl start.
LEMMA ConditionOutcome ==
  ASSUME NEW w, Awaits(w), w.job = "start", w.state \in {"dead", "failed", "auto-restart-queued"}, NEW x,
         x \in service_enter_condition(
                 [w EXCEPT !.result = "success", !.reload_result = "success", !.main_known = FALSE,
                           !.main_alien = FALSE, !.forbid_restart = FALSE, !.notify_state = "unknown",
                           !.stopped = FALSE])
  PROVE  Outcome(x, w)
<1> DEFINE v == [w EXCEPT !.result = "success", !.reload_result = "success", !.main_known = FALSE,
                          !.main_alien = FALSE, !.forbid_restart = FALSE, !.notify_state = "unknown",
                          !.stopped = FALSE]
<1>1. x \in EnterControlStep(v, "condition", "start-pre")
  BY Zenon DEF service_enter_condition
<1>2. w.main = NoPid /\ w.exec_fd = "none"
  BY Zenon DEF Awaits, Rests, WithMain, Reloading, Stopping, StopSignal, FinalSignal
<1>3. "success" \in ServiceResult
  BY Zenon DEF ServiceResult
<1>4. Object(w)
  BY Zenon DEF Awaits, Calm, Typed
<1>5. /\ v.result = "success" /\ v.reload_result = "success" /\ v.main_known = FALSE /\ v.forbid_restart = FALSE
      /\ v.notify_state = "unknown"
  BY <1>4, ZenonT(30) DEF Object, Fields
<1>6. /\ v = [k \in Fields |-> v[k]]
      /\ \A k \in Fields \ {"result", "reload_result", "main_known", "main_alien", "forbid_restart", "notify_state", "stopped"}
           : v[k] = w[k]
  <2>1. w = [k \in Fields |-> w[k]]
    BY <1>4, Zenon DEF Object
  <2> QED BY <2>1, ZenonT(30) DEF Fields
<1> HIDE DEF v
<1>7. /\ v.state = w.state /\ v.notified = w.notified /\ v.next = w.next /\ v.aborted = w.aborted
      /\ v.main = w.main /\ v.control = w.control /\ v.exec_fd = w.exec_fd
      /\ v.job = w.job /\ v.run = w.run /\ v.perform = w.perform
  BY <1>6, Zenon DEF Fields
<1>8. /\ v.foreign = w.foreign /\ v.live = w.live /\ v.zombie = w.zombie
      /\ v.main_command = w.main_command /\ v.control_command = w.control_command
  BY <1>6, Zenon DEF Fields
<1>9. Object(v)
  BY <1>4, <1>6, <1>8, Zenon DEF Object
<1>10. v.notify_state \in {"unknown", "ready", "reloading", "stopping"}
  BY <1>5, Zenon
<1>11. Calm(v)
  BY <1>2, <1>3, <1>5, <1>7, <1>8, <1>9, <1>10, ZenonT(30) DEF Awaits, Calm, Typed
<1>12. Hush(v, w)
  BY <1>7, Zenon DEF Hush, Job
<1>13. Good(x, v, {"condition"}, {"start-pre", "dead"})
  BY <1>1, <1>2, <1>7, <1>11, ControlStepGood, ZenonT(30)
<1>14. \A s \in {"condition"} : Goal(w, s)
  BY Zenon DEF Goal, MethodTargets, service_active_state, Starting, AutoRestart
<1>15. Same(x, v) => Aims(x)
  BY <1>5, <1>7, ZenonT(30) DEF Same, Aims
<1> QED BY <1>12, <1>13, <1>14, <1>15, GoodOutcome, ZenonT(30)

LEMMA StartOutcome == ASSUME NEW w, Awaits(w), w.job = "start", w.run = TRUE, NEW x \in unit_start(w) PROVE Outcome(x, w)
<1> DEFINE active == service_active_state(w.state)
           v == [w EXCEPT !.result = "success", !.reload_result = "success", !.main_known = FALSE,
                          !.main_alien = FALSE, !.forbid_restart = FALSE, !.notify_state = "unknown",
                          !.stopped = FALSE]
<1>1. w.state \in ServiceState \ BeforeRestart
  BY Zenon DEF Awaits, Calm
<1>2. CASE x = job_finish(w)
  BY <1>2, FinishOutcome, Zenon
<1>3. ASSUME x = TryAgain(w), active \in {"maintenance", "deactivating", "activating"} PROVE Outcome(x, w)
  <2>1. NotYet(w.job, active)
    BY <1>3, Zenon DEF NotYet
  <2> QED BY <1>3, <2>1, TryAgainOutcome, Zenon
<1>4. ASSUME ~ IsActiveOrReloading(active), active # "maintenance", x \in service_enter_dead(w, "start-limit-hit", FALSE)
      PROVE  Outcome(x, w)
  <2>1. "start-limit-hit" \in ServiceResult
    BY Zenon DEF ServiceResult
  <2>2. Calm(w)
    BY Zenon DEF Awaits
  <2>3. Good(x, w, Ends, {})
    BY <1>4, <2>1, <2>2, EnterDeadGood, ZenonT(30)
  <2>4. active \in {"inactive", "failed", "activating", "deactivating"}
    BY <1>4, Zenon DEF service_active_state, IsActiveOrReloading
  <2>5. \A s \in Ends : service_active_state(s) \in {"inactive", "failed"}
    BY Zenon DEF Ends, service_active_state
  <2> HIDE DEF active
  <2>6. \A s \in Ends : Goal(w, s)
    BY <2>4, <2>5, Zenon DEF Goal, MethodTargets, active
  <2>7. Hush(w, w)
    BY Zenon DEF Hush
  <2> QED BY <2>3, <2>6, <2>7, GoodOutcome, ZenonT(30)
<1>5. ASSUME ~ IsActiveOrReloading(active), active # "maintenance", x \in service_start(w) PROVE Outcome(x, w)
  <2>1. CASE w.state \in Stopping \cup {"cleaning", "auto-restart"} \cup BeforeRestart
    <3>1. x = TryAgain(w)
      BY <1>5, <2>1, Zenon DEF service_start
    <3>2. active \in {"maintenance", "deactivating", "activating"}
      BY <1>1, <2>1, Zenon DEF service_active_state, Starting, AutoRestart, Reloading, Stopping, StopSignal, FinalSignal, BeforeRestart
    <3> QED BY <1>3, <3>1, <3>2, ZenonT(30)
  <2>2. CASE w.state \in Starting
    <3>1. x = w
      BY <1>5, <2>2, ZenonT(30) DEF service_start, Starting, Stopping, StopSignal, FinalSignal, BeforeRestart
    <3>2. active = "activating"
      BY <1>5, <2>2, Zenon DEF service_active_state, Starting, IsActiveOrReloading
    <3>3. OnItsWay(w.job, active) /\ Hush(w, w)
      BY <3>2, Zenon DEF OnItsWay, Hush
    <3> QED BY <3>1, <3>3, WayOutcome, ZenonT(30)
  <2>3. CASE w.state \in {"dead", "failed", "auto-restart-queued"}
    <3>1. x \in service_enter_condition(v)
      BY <1>5, <2>3, ZenonT(30) DEF service_start, Starting, Stopping, StopSignal, FinalSignal, BeforeRestart
    <3> QED BY <2>3, <3>1, ConditionOutcome, ZenonT(30)
  <2>4. w.state \notin {"running", "exited"} \cup Reloading
    BY <1>5, Zenon DEF service_active_state, Starting, AutoRestart, Reloading, Stopping, StopSignal, FinalSignal, BeforeRestart,
                IsActiveOrReloading
  <2> QED BY <1>1, <2>1, <2>2, <2>3, <2>4, ZenonT(30) DEF ServiceState, AutoRestart
<1> HIDE DEF v
<1> QED BY <1>2, <1>3, <1>4, <1>5, ZenonT(30) DEF unit_start

\* systemctl stop and restart.
LEMMA StopOutcome ==
  ASSUME NEW w, Awaits(w), w.job \in {"stop", "restart"}, w.run = TRUE, NEW x \in unit_stop(w) PROVE Outcome(x, w)
<1> DEFINE active == service_active_state(w.state)
           v == [w EXCEPT !.forbid_restart = TRUE, !.stopped = TRUE]
<1>1. CASE IsInactiveOrFailed(active)
  <2>1. x = job_finish(w)
    BY <1>1, Zenon DEF unit_stop
  <2> QED BY <1>1, <2>1, FinishOutcome, ZenonT(30)
<1>2. CASE ~ IsInactiveOrFailed(active)
  <2>1. x \in service_stop(w)
    BY <1>2, Zenon DEF unit_stop
  <2>2. w.state \in ServiceState \ (Ends \cup BeforeRestart)
    <3>1. w.state \in ServiceState \ BeforeRestart
      BY Zenon DEF Awaits, Calm
    <3>2. w.state \notin Ends
      BY <1>2, ZenonT(30) DEF service_active_state, IsInactiveOrFailed, Ends
    <3> QED BY <3>1, <3>2, ZenonT(30)
  <2>3. /\ Calm(v) /\ v.state = w.state /\ v.job = w.job /\ v.run = w.run /\ v.notified = w.notified
        /\ v.perform = w.perform /\ v.forbid_restart = TRUE /\ v.exec_fd = w.exec_fd /\ v.aborted = w.aborted
    BY ZenonT(30) DEF Awaits, Calm, Typed, Object, Fields
  <2>4. Rests(v)
    <3>1. /\ v.main = w.main /\ v.control = w.control /\ v.timer = w.timer /\ v.pid_watch = w.pid_watch
          /\ v.watchdog = w.watchdog
      BY Zenon DEF Awaits, Calm, Typed, Object, Fields
    <3> HIDE DEF v
    <3> QED BY <2>3, <3>1, Zenon DEF Awaits, Rests
  <2>5. Hush(v, w) /\ Awaits(v)
    BY <2>3, <2>4, Zenon DEF Hush, Job, Awaits
  <2>6. \/ w.state \in Stopping /\ x = v
        \/ x = service_set_state(v, "dead")
        \/ x \in service_enter_signal(v, "stop-sigterm", "success")
        \/ x \in service_enter_signal(v, "final-sigkill", "success")
        \/ w.state \in {"running", "exited"} /\ x \in service_enter_stop(v, "success")
    <3> HIDE DEF v
    <3>1. /\ \/ w.state \in Stopping \ {"stop-watchdog"} \/ w.state \in AutoRestart
             \/ w.state \in Starting \cup Reloading \cup {"stop-watchdog"} \/ w.state = "cleaning"
             \/ w.state \in {"running", "exited"}
      BY <2>2, Zenon DEF ServiceState, Ends
    <3>2. service_stop(w) =
             IF w.state \in Stopping \ {"stop-watchdog"} THEN {v}
             ELSE IF w.state \in AutoRestart THEN {service_set_state(v, "dead")}
             ELSE IF w.state \in Starting \cup Reloading \cup {"stop-watchdog"}
             THEN service_enter_signal(v, "stop-sigterm", "success")
             ELSE IF w.state = "cleaning" THEN service_enter_signal(v, "final-sigkill", "success")
             ELSE IF w.state \in {"running", "exited"} THEN service_enter_stop(v, "success")
             ELSE Abort(v)
      BY Zenon DEF service_stop, v
    <3> QED BY <2>1, <3>1, <3>2, Zenon DEF Stopping
  <2>7. ASSUME NEW S \in SUBSET (Ends \cup Stopping), NEW O \in SUBSET Takedown, Good(x, v, S, O) PROVE Outcome(x, w)
    <3>1. \A s \in Ends \cup Stopping : service_active_state(s) \in {"inactive", "failed", "deactivating"}
      BY Zenon DEF Ends, Stopping, StopSignal, FinalSignal, service_active_state, Starting, AutoRestart, Reloading
    <3>2. {"inactive", "failed", "deactivating"} \subseteq MethodTargets(w.job, active)
      BY <1>2, Zenon DEF MethodTargets
    <3>3. \A s \in S : Goal(w, s)
      BY <2>7, <3>1, <3>2, ZenonT(30) DEF Goal
    <3>4. Same(x, v) /\ x.next[1] \in O => Aims(x)
      BY <2>2, <2>3, <2>7, ZenonT(30) DEF Same, Aims
    <3> HIDE DEF v
    <3> QED BY <2>5, <2>7, <3>3, <3>4, GoodOutcome, ZenonT(30)
  <2> HIDE DEF v
  <2>8. "success" \in ServiceResult /\ Calm(v)
    BY <2>3, Zenon DEF ServiceResult
  <2>9. /\ {"stop-sigterm", "final-sigkill"} \subseteq Signals
        /\ {"dead"} \in SUBSET (Ends \cup Stopping) /\ {"stop"} \in SUBSET (Ends \cup Stopping)
        /\ {"stop-sigterm"} \in SUBSET (Ends \cup Stopping) /\ {"final-sigkill"} \in SUBSET (Ends \cup Stopping)
        /\ {} \in SUBSET Takedown /\ Takedown \in SUBSET Takedown /\ {"signal"} \in SUBSET Takedown
    BY Zenon DEF Signals, Ends, Stopping, StopSignal, FinalSignal, Takedown
  <2>10. CASE w.state \in Stopping /\ x = v
    <3>1. active = "deactivating"
      BY <2>10, Zenon DEF Stopping, StopSignal, FinalSignal, service_active_state, Starting, AutoRestart, Reloading
    <3>2. OnItsWay(w.job, active)
      BY <3>1, Zenon DEF OnItsWay
    <3> QED BY <2>5, <2>10, <3>2, WayOutcome, ZenonT(30)
  <2>11. CASE x = service_set_state(v, "dead")
    <3>1. "dead" \in {"dead"} /\ "dead" \in ServiceState \ BeforeRestart /\ "dead" \notin Watched
      BY Zenon DEF ServiceState, BeforeRestart, Watched, Reloading
    <3>2. Good(x, v, {"dead"}, {})
      BY <2>8, <2>11, <3>1, SetStateGood, ZenonT(30) DEF Same
    <3> QED BY <2>7, <2>9, <3>2, ZenonT(30)
  <2>12. CASE x \in service_enter_signal(v, "stop-sigterm", "success")
    BY <2>7, <2>8, <2>9, <2>12, EnterSignalGood, ZenonT(30)
  <2>13. CASE x \in service_enter_signal(v, "final-sigkill", "success")
    BY <2>7, <2>8, <2>9, <2>13, EnterSignalGood, ZenonT(30)
  <2>14. CASE w.state \in {"running", "exited"} /\ x \in service_enter_stop(v, "success")
    <3>1. v.exec_fd = "none"
      BY <2>3, <2>4, <2>14, ZenonT(30) DEF Rests
    <3> QED BY <2>7, <2>8, <2>9, <2>14, <3>1, EnterStopGood, ZenonT(30)
  <2> QED BY <2>6, <2>10, <2>11, <2>12, <2>13, <2>14, ZenonT(30)
<1> QED BY <1>1, <1>2, Zenon

\* systemctl reload.  A Type=idle service is active before it runs.
LEMMA ReloadOutcome == ASSUME NEW w, Awaits(w), w.job = "reload", NEW x \in unit_reload(w) PROVE Outcome(x, w)
<1> DEFINE active == service_active_state(w.state)
<1>1. CASE x = job_finish(w)
  BY <1>1, FinishOutcome, Zenon
<1>2. CASE active = "reloading" /\ x = TryAgain(w)
  <2>1. NotYet(w.job, active)
    BY <1>2, Zenon DEF NotYet
  <2> QED BY <1>2, <2>1, TryAgainOutcome, ZenonT(30)
<1>3. CASE active = "active" /\ w.state \in {"running", "exited"} /\ x \in service_enter_reload(w)
  <2>1. Calm(w)
    BY Zenon DEF Awaits
  <2>2. w.exec_fd = "none" /\ (Watchable => w.watchdog)
    BY <1>3, Zenon DEF Awaits, Rests, Watchable, Watched
  <2>3. Good(x, w, {"reload", "reload-signal"}, {"running"})
    BY <1>3, <2>1, <2>2, EnterReloadGood, ZenonT(30)
  <2>4. \A s \in {"reload", "reload-signal"} : service_active_state(s) = "reloading"
    BY Zenon DEF service_active_state, Starting, AutoRestart, Reloading
  <2>5. \A s \in {"reload", "reload-signal"} : Goal(w, s)
    BY <1>3, <2>4, Zenon DEF Goal, MethodTargets, UnitActiveState
  <2>6. Hush(w, w)
    BY Zenon DEF Hush
  <2>7. Same(x, w) => Aims(x)
    BY <1>3, Zenon DEF Same, Aims
  <2> QED BY <2>3, <2>5, <2>6, <2>7, GoodOutcome, ZenonT(30)
<1>4. ASSUME service_can_reload, active = "active", w.state \notin {"running", "exited"}, x \in Abort(w) PROVE Outcome(x, w)
  <2>1. conf.type = "idle"
    BY <1>4, Zenon DEF service_active_state
  <2>2. ~ Supported
    BY <1>4, <2>1, SMTT(30) DEF Supported, service_can_reload
  <2>3. Calm(w)
    BY Zenon DEF Awaits
  <2>4. Calm(x) /\ x.aborted
    BY <1>4, <2>2, <2>3, AbortCalm, ZenonT(30)
  <2> QED BY <2>2, <2>4, ZenonT(30) DEF Outcome, Sound, Calm
<1> QED BY <1>1, <1>2, <1>3, <1>4, ZenonT(30) DEF unit_reload, service_reload

\* Verify-active jobs.
LEMMA VerifyOutcome ==
  ASSUME NEW w, Awaits(w), w.job = "verify", NEW x \in verify_active(w, service_active_state(w.state)) PROVE Outcome(x, w)
<1>1. CASE service_active_state(w.state) = "activating" /\ x = TryAgain(w)
  <2>1. NotYet(w.job, service_active_state(w.state))
    BY <1>1, Zenon DEF NotYet
  <2> QED BY <1>1, <2>1, TryAgainOutcome, ZenonT(30)
<1>2. CASE x = job_finish(w)
  BY <1>2, FinishOutcome, ZenonT(30)
<1> QED BY <1>1, <1>2, ZenonT(30) DEF verify_active

LEMMA RunJobObeys == ASSUME Waiting, Flagged(svc), conf' = conf, RunJob PROVE Obeys
<1> DEFINE w == Ran
<1>1. Awaits(w) /\ w.run = TRUE /\ w.job = svc.job
  BY RanAwaits, Zenon
<1>2. svc.job # "none" /\ ~ svc.run
  BY Zenon DEF RunJob
<1>3. svc' \in IF w.job = "start" THEN unit_start(w)
               ELSE IF w.job = "verify" THEN verify_active(w, service_active_state(w.state))
               ELSE IF w.job = "reload" THEN unit_reload(w) ELSE unit_stop(w)
  BY Zenon DEF RunJob, Step, Ran
<1> HIDE DEF w
<1>4. w.job \in {"start", "verify", "stop", "reload", "restart"}
  BY <1>1, <1>2, ZenonT(30) DEF Awaits, Calm, Typed, MergingTypes
<1>5. CASE w.job = "start"
  BY <1>1, <1>3, <1>5, StartOutcome, OutcomeObeys, <1>2, ZenonT(30) DEF w
<1>6. CASE w.job = "verify"
  BY <1>1, <1>3, <1>6, VerifyOutcome, OutcomeObeys, <1>2, ZenonT(30) DEF w
<1>7. CASE w.job = "reload"
  BY <1>1, <1>3, <1>7, ReloadOutcome, OutcomeObeys, <1>2, ZenonT(30) DEF w
<1>8. CASE w.job \in {"stop", "restart"}
  <2>1. svc' \in unit_stop(w)
    BY <1>3, <1>8, Zenon
  <2>2. Outcome(svc', w)
    BY <1>1, <1>8, <2>1, StopOutcome, ZenonT(30)
  <2> QED BY <1>2, <2>2, OutcomeObeys, ZenonT(30) DEF w
<1> QED BY <1>4, <1>5, <1>6, <1>7, <1>8, ZenonT(30)

-----------------------------------------------------------------------------
(* The next function a handler calls.                                      *)

\* The states the functions report, as the job engine sees them.
LEMMA ActiveStates ==
  /\ \A s \in All : service_active_state(s) \in UnitActiveState \ {"maintenance"}
  /\ \A s \in All \ Reloading : service_active_state(s) \in {"activating", "active", "deactivating", "inactive", "failed"}
  /\ \A s \in Ends \cup Stopping : service_active_state(s) \in {"deactivating", "inactive", "failed"}
<1>1. \A s \in All : service_active_state(s) \in UnitActiveState \ {"maintenance"}
  BY ZenonT(30) DEF All, ServiceState, service_active_state, Starting, AutoRestart, Reloading, Stopping, StopSignal, FinalSignal,
         BeforeRestart, UnitActiveState
<1>2. \A s \in All \ Reloading : service_active_state(s) # "reloading"
  BY Zenon DEF service_active_state
<1>3. \A s \in Ends \cup Stopping : service_active_state(s) \in {"deactivating", "inactive", "failed"}
  BY Zenon DEF Ends, Stopping, StopSignal, FinalSignal, service_active_state, Starting, AutoRestart, Reloading
<1> QED BY <1>1, <1>2, <1>3, ZenonT(30) DEF UnitActiveState

\* What is left of the job has still the same aim, or the aim is reached.
LEMMA AimsCall ==
  ASSUME NEW u, Sound(u), u.next # NoCall, ~ u.aborted, Aims(u), NEW x \in Call(u)
  PROVE  /\ Sound(x)
         /\ \/ x.aborted
            \/ Same(x, u) /\ x.next # NoCall /\ Aims(x)
            \/ \E S : Tells(x, u, S) /\ \A s \in S : Goal(u, s)
<1>1. /\ Good(x, u, All, Onward)
      /\ u.notify_state # "reloading" => Good(x, u, All \ Reloading, Onward)
      /\ u.next[1] \in Takedown /\ u.forbid_restart => Good(x, u, Ends \cup Stopping, Takedown)
  BY CallGood, Zenon
<1>2. CASE u.job = "start" /\ u.state \in {"dead", "failed", "auto-restart-queued"} /\ u.notify_state = "unknown"
  <2>1. Good(x, u, All \ Reloading, Onward)
    BY <1>1, <1>2, Zenon
  <2>2. service_active_state(u.state) \in {"inactive", "failed", "activating"}
    BY <1>2, Zenon DEF service_active_state, Starting, AutoRestart
  <2>3. \A s \in All \ Reloading : Goal(u, s)
    BY <1>2, <2>2, ActiveStates, ZenonT(30) DEF Goal, MethodTargets
  <2>4. Same(x, u) => Aims(x)
    BY <1>2, Zenon DEF Same, Aims
  <2> QED BY <2>1, <2>3, <2>4, ZenonT(30) DEF Good, Leads
<1>3. CASE /\ u.job \in {"stop", "restart"} /\ u.state \in ServiceState \ (Ends \cup BeforeRestart)
           /\ u.forbid_restart /\ u.next[1] \in Takedown
  <2>1. Good(x, u, Ends \cup Stopping, Takedown)
    BY <1>1, <1>3, Zenon
  <2>2. service_active_state(u.state) \notin {"inactive", "failed"}
    BY <1>3, Zenon DEF service_active_state, Starting, AutoRestart, Ends, BeforeRestart
  <2>3. {"deactivating", "inactive", "failed"} \subseteq MethodTargets(u.job, service_active_state(u.state))
    BY <1>3, <2>2, Zenon DEF MethodTargets, IsInactiveOrFailed
  <2>4. \A s \in Ends \cup Stopping : Goal(u, s)
    BY <2>3, ActiveStates, Zenon DEF Goal
  <2>5. Same(x, u) /\ x.next[1] \in Takedown => Aims(x)
    BY <1>3, Zenon DEF Same, Aims
  <2> QED BY <2>1, <2>4, <2>5, ZenonT(30) DEF Good, Leads
<1>4. CASE u.job = "reload" /\ u.state \in {"running", "exited"}
  <2>1. service_active_state(u.state) = "active"
    BY <1>4, Zenon DEF service_active_state, Starting, AutoRestart
  <2>2. \A s \in All : Goal(u, s)
    BY <1>4, <2>1, ActiveStates, ZenonT(30) DEF Goal, MethodTargets
  <2>3. Same(x, u) => Aims(x)
    BY <1>4, Zenon DEF Same, Aims
  <2> QED BY <1>1, <2>2, <2>3, ZenonT(30) DEF Good, Leads
<1> QED BY <1>2, <1>3, <1>4, Zenon DEF Aims

LEMMA ContinueObeys == ASSUME Sound(svc), Flagged(svc), Performs(svc), conf' = conf, Continue PROVE Obeys
<1> DEFINE u == [svc EXCEPT !.notified = <<>>, !.tick = FALSE, !.armed = FALSE]
<1>1. ~ svc.aborted /\ svc.next # NoCall /\ svc' \in Call(u)
  BY Zenon DEF Continue
<1>2. Object(svc)
  BY Zenon DEF Sound, Typed
<1>3. u = [k \in Fields |-> u[k]] /\ \A k \in Fields \ {"notified", "tick", "armed"} : u[k] = svc[k]
  BY <1>2, ZenonT(30) DEF Object, Fields
<1>4. u.notified = <<>>
  BY <1>2, Zenon DEF Object, Fields
<1> HIDE DEF u
<1>5. /\ u.state = svc.state /\ u.next = svc.next /\ u.aborted = svc.aborted /\ u.exec_fd = svc.exec_fd
      /\ u.watchdog = svc.watchdog /\ u.job = svc.job /\ u.run = svc.run /\ u.perform = svc.perform
      /\ u.notify_state = svc.notify_state /\ u.forbid_restart = svc.forbid_restart
  BY <1>3, Zenon DEF Fields
<1>6. /\ u.result = svc.result /\ u.reload_result = svc.reload_result /\ u.main = svc.main /\ u.control = svc.control
      /\ u.foreign = svc.foreign /\ u.live = svc.live /\ u.zombie = svc.zombie /\ u.main_known = svc.main_known
      /\ u.main_command = svc.main_command /\ u.control_command = svc.control_command
  BY <1>3, Zenon DEF Fields
<1>7. Object(u)
  BY <1>2, <1>3, <1>6, ZenonT(30) DEF Object
<1>8. Typed(u)
  BY <1>5, <1>6, <1>7, ZenonT(30) DEF Sound, Typed
<1>9. Sound(u)
  BY <1>1, <1>5, <1>8, ZenonT(30) DEF Sound, Goes
<1>10. u.next # NoCall /\ ~ u.aborted
  BY <1>1, <1>5, Zenon
<1>11. Good(svc', u, All, Onward)
  BY <1>1, <1>9, <1>10, CallGood, ZenonT(30)
<1>12. CASE Same(svc', u) /\ svc'.next # NoCall /\ ~ svc.perform
  <2>1. /\ svc'.notified = <<>> /\ Job(svc') = <<svc.job, svc.run>> /\ svc'.state = svc.state /\ ~ svc'.perform
        /\ svc'.run = svc.run
    BY <1>4, <1>5, <1>12, ZenonT(30) DEF Same, Job
  <2>2. Active' = Active /\ ~ Performing' /\ ~ Performing
    BY <1>12, <2>1, ActiveNext, ZenonT(30) DEF Active, Performing
  <2>3. Contract!Change
    BY <2>1, <2>2, NotifyNone, ZenonT(30) DEF Contract!Change, Performing
  <2>4. Flagged(svc') /\ Performs(svc')
    BY <2>1, Zenon DEF Flagged, Performs
  <2> QED BY <1>11, <2>3, <2>4, ZenonT(30) DEF Obeys, Good, Contract!Next
<1>13. CASE ~ svc.perform /\ Tells(svc', u, All)
  <2>1. Contract!Notify(Job(u)) /\ svc'.perform = FALSE
    BY <1>4, <1>13, TellsNotify, ZenonT(30)
  <2>2. Flagged(u) /\ Job(u) = <<svc.job, svc.run>>
    BY <1>5, Zenon DEF Flagged, Job
  <2>3. Flagged(svc') /\ Performs(svc')
    BY <1>13, <2>1, <2>2, TellsRun, ZenonT(30) DEF Performs
  <2>4. Contract!Change
    BY <1>13, <2>1, <2>2, ZenonT(30) DEF Contract!Change, Performing
  <2> QED BY <1>11, <2>3, <2>4, ZenonT(30) DEF Obeys, Good, Contract!Next
<1>14. CASE svc.perform
  <2>1. svc.run = TRUE /\ svc.notified = <<>> /\ Aims(svc) /\ Performing
    BY <1>1, <1>14, Zenon DEF Performs, Performing
  <2>2. Aims(u)
    BY <1>5, <2>1, ZenonT(30) DEF Aims
  <2>3. \/ svc'.aborted
        \/ Same(svc', u) /\ svc'.next # NoCall /\ Aims(svc')
        \/ \E S : Tells(svc', u, S) /\ \A s \in S : Goal(u, s)
    BY <1>1, <1>9, <1>10, <2>2, AimsCall, ZenonT(30)
  <2>4. CASE Same(svc', u) /\ svc'.next # NoCall /\ Aims(svc')
    <3>1. /\ svc'.notified = svc.notified /\ svc'.job = svc.job /\ svc'.run = svc.run /\ svc'.state = svc.state
          /\ svc'.perform
      BY <1>4, <1>5, <1>14, <2>1, <2>4, ZenonT(30) DEF Same
    <3>2. Active' = Active /\ Performing' = Performing
      BY <1>1, <1>14, <2>4, <3>1, ActiveNext, ZenonT(30) DEF Active, Performing
    <3>3. UNCHANGED Contract!vars
      BY <3>1, <3>2, Zenon DEF Contract!vars, Active, Performing
    <3>4. Flagged(svc') /\ Performs(svc')
      BY <2>1, <2>4, <3>1, ZenonT(30) DEF Flagged, Performs
    <3> QED BY <1>11, <3>3, <3>4, ZenonT(30) DEF Obeys, Good
  <2>5. ASSUME NEW S, Tells(svc', u, S), \A s \in S : Goal(u, s) PROVE Obeys
    <3>1. /\ Contract!Notify(Job(u)) /\ svc'.perform = FALSE /\ svc'.notified # <<>>
          /\ \E s \in S : Head(svc'.notified) = service_active_state(s)
      BY <1>4, <2>5, TellsNotify, ZenonT(30)
    <3>2. Head(svc'.notified) \in Contract!MethodTargets(svc.job, Active)
      BY <1>5, <2>5, <3>1, SameJobTypes, ZenonT(30) DEF Goal, Active
    <3>3. Flagged(u) /\ Job(u) = <<svc.job, TRUE>>
      BY <1>5, <2>1, ZenonT(30) DEF Flagged, Job
    <3>4. Contract!Perform
      BY <2>1, <3>1, <3>2, <3>3, ZenonT(30) DEF Contract!Perform, Active, Performing
    <3>5. Flagged(svc') /\ Performs(svc')
      BY <2>5, <3>1, <3>3, TellsRun, ZenonT(30) DEF Performs
    <3> QED BY <1>11, <3>4, <3>5, ZenonT(30) DEF Obeys, Good, Contract!Next
  <2> QED BY <1>11, <2>3, <2>4, <2>5, ZenonT(30) DEF Obeys, Good
<1> QED BY <1>11, <1>12, <1>13, <1>14, ZenonT(30) DEF Good, Leads, Obeys

-----------------------------------------------------------------------------
\* The invariant of the proofs.
SoundInv == Sound(svc) /\ (svc.aborted \/ (Flagged(svc) /\ Performs(svc)))

\* It holds of a unit that was just loaded.
LEMMA InitSound == Init => SoundInv
<1> SUFFICES ASSUME Init PROVE SoundInv
  BY Zenon
<1>1. svc = [k \in Fields |-> svc[k]]
  BY Zenon DEF Init, Fields
<1>2. /\ svc.live = {} /\ svc.zombie = {} /\ svc.foreign = {} /\ svc.main = NoPid /\ svc.control = NoPid
      /\ svc.main_command = 0 /\ svc.control_command = 0 /\ svc.result = "success" /\ svc.reload_result = "success"
      /\ svc.job = "none" /\ svc.exec_fd = "none" /\ svc.notify_state = "unknown"
  BY Zenon DEF Init
<1>3. /\ svc.state = "dead" /\ svc.next = NoCall /\ svc.aborted = FALSE /\ svc.timer = FALSE /\ svc.pid_watch = FALSE
      /\ svc.run = FALSE
  BY Zenon DEF Init
<1>4. \A k \in Commands : conf.commands[k] \in Nat
  BY ConfigsAssumption, Zenon DEF Init
<1>5. "success" \in ServiceResult /\ "dead" \in ServiceState \ BeforeRestart /\ "dead" \notin Watched
  BY Zenon DEF ServiceResult, ServiceState, BeforeRestart, Watched, Reloading
<1>6. Object(svc)
  BY <1>1, <1>2, <1>4, SMTT(30) DEF Object, Commands
<1>7. Typed(svc)
  BY <1>2, <1>4, <1>5, <1>6, SMTT(30) DEF Typed
<1>8. Rests(svc)
  BY <1>2, <1>3, <1>5, ZenonT(30) DEF Rests
<1>9. Flagged(svc) /\ Performs(svc)
  BY <1>3, Zenon DEF Flagged, Performs
<1> QED BY <1>2, <1>3, <1>5, <1>7, <1>8, <1>9, ZenonT(30) DEF SoundInv, Sound

\* Every handler keeps it, and is a step of the contract unless an assertion fails.
LEMMA NextObeys == ASSUME SoundInv, Next PROVE conf' = conf /\ Obeys
<1>1. conf' = conf
  BY Zenon DEF Next, Dispatch, Continue, Step, RunJob, service_sigchld_event, service_notify_cgroup_empty_event,
         service_dispatch_timer, Cancel, Request, Fork, Exit, service_dispatch_inotify_io,
         service_dispatch_exec_io, service_dispatch_watchdog, service_notify_message,
         service_bus_name_owner_change, service_notify_cgroup_oom_event, service_reset_failed,
         service_clean, Reload
<1>2. Continue \/ (~ svc.aborted /\ svc.next = NoCall)
  BY Zenon DEF Next, Dispatch, Step, RunJob, service_sigchld_event, service_notify_cgroup_empty_event,
         service_dispatch_timer, Cancel, Request, Fork, Exit, service_dispatch_inotify_io,
         service_dispatch_exec_io, service_dispatch_watchdog, service_notify_message,
         service_bus_name_owner_change, service_notify_cgroup_oom_event, service_reset_failed,
         service_clean, Reload
<1>3. CASE Continue
  <2>1. ~ svc.aborted
    BY <1>3, Zenon DEF Continue
  <2>2. Obeys
    BY <1>1, <1>3, <2>1, ContinueObeys, ZenonT(30) DEF SoundInv
  <2> QED BY <1>1, <2>2, Zenon
<1>4. CASE ~ svc.aborted /\ svc.next = NoCall
  <2>1. Waiting /\ Flagged(svc)
    BY <1>4, Zenon DEF Waiting, SoundInv
  <2>2. CASE Fares(svc', Called)
    BY <1>1, <2>1, <2>2, FaresObeys, ZenonT(30)
  <2>3. CASE RunJob \/ Cancel \/ service_dispatch_timer
    BY <1>1, <2>1, <2>3, RunJobObeys, CancelObeys, TimerObeys, ZenonT(30)
  <2>4. ASSUME NEW t \in Requests, Request(t) PROVE Obeys
    BY <1>1, <2>1, <2>4, RequestObeys, ZenonT(30)
  <2>5. ASSUME NEW p \in Pids, NEW f \in Exits, service_sigchld_event(p, f) PROVE Obeys
    BY <2>1, <2>2, <2>5, SigchldFares, ZenonT(30)
  <2>6. ASSUME NEW p \in Pids, Exit(p) PROVE Obeys
    BY <2>1, <2>2, <2>6, ExitFares, ZenonT(30)
  <2>7. CASE \/ service_notify_cgroup_empty_event \/ Fork \/ service_dispatch_inotify_io \/ service_dispatch_exec_io
             \/ service_dispatch_watchdog \/ service_notify_message \/ service_bus_name_owner_change
             \/ service_notify_cgroup_oom_event \/ service_reset_failed \/ service_clean \/ Reload
    BY <2>1, <2>2, <2>7, CgroupEventFares, ForkFares, InotifyFares, ExecIoFares, WatchdogFares, MessageFares,
       BusNameFares, OomFares, ResetFailedFares, CleanFares, ReloadFares, ZenonT(30)
  <2>8. CASE Continue
    BY <1>3, <2>8, Zenon
  <2>9. Obeys
    BY <2>3, <2>4, <2>5, <2>6, <2>7, <2>8, ZenonT(30) DEF Next, Dispatch
  <2> QED BY <1>1, <2>9, Zenon
<1> QED BY <1>2, <1>3, <1>4, ZenonT(30)

LEMMA NextSound == SoundInv /\ [Next]_vars => SoundInv'
<1> SUFFICES ASSUME SoundInv, [Next]_vars PROVE SoundInv'
  BY Zenon
<1>1. conf' = conf /\ Sound(svc') /\ (svc'.aborted \/ (Flagged(svc') /\ Performs(svc')))
  <2>1. CASE Next
    BY <2>1, NextObeys, ZenonT(30) DEF Obeys
  <2>2. CASE UNCHANGED vars
    <3>1. svc' = svc /\ conf' = conf
      BY <2>2, Zenon DEF vars
    <3> QED BY <3>1, Zenon DEF SoundInv
  <2> QED BY <2>1, <2>2, Zenon
<1>2. Supported' <=> Supported
  BY <1>1, Zenon DEF Supported
<1>3. Watchable' <=> Watchable
  BY <1>1, Zenon DEF Watchable
<1>4. Typed(svc)'
  BY <1>1, Zenon DEF Sound, Typed, Object
<1>5. svc'.aborted \/ IF svc'.next = NoCall THEN Rests(svc)' ELSE Goes(svc)'
  BY <1>1, <1>3, ZenonT(30) DEF Sound, Rests, Goes
<1>6. Sound(svc)'
  BY <1>1, <1>2, <1>4, <1>5, ZenonT(30) DEF Sound
<1>7. svc'.aborted \/ (Flagged(svc)' /\ Performs(svc)')
  BY <1>1, Zenon DEF Flagged, Performs, Aims
<1> QED BY <1>6, <1>7, Zenon DEF SoundInv

\* The fields of a service hold what the code's types allow (TypeOK), through
\* every handler and failure.
THEOREM TypeOKAlways == Spec => []TypeOK
<1>1. SoundInv => TypeOK
  <2> SUFFICES ASSUME SoundInv PROVE TypeOK
    BY Zenon
  <2>1. Typed(svc) /\ Object(svc) /\ svc.state \in ServiceState
    BY Zenon DEF SoundInv, Sound, Typed
  <2>2. svc.main_command \in 0 .. conf.commands["start"]
    BY <2>1 DEF Typed, Object
  <2>3. {svc.main, svc.control} \subseteq Pids \cup {NoPid}
    BY <2>1, Zenon DEF Typed
  <2> QED BY <2>1, <2>2, <2>3, ZenonT(30) DEF Typed, Object, TypeOK
<1> QED BY InitSound, NextSound, <1>1, PTL DEF Spec

\* No assertion of PID 1 fails (NoAssertion) whatever jobs are run, processes do
\* and calls fail: service_start(), service_stop() and service_reload() are called
\* in the states they expect, and so are the handlers of SIGCHLD, timers and PID
\* files.  It takes a unit file without ExecReload= if Type=idle and without
\* ExecStopPost= if Type=exec.
THEOREM NoAssertionAlways == Spec => [](Supported => NoAssertion)
<1>1. SoundInv => (Supported => NoAssertion)
  BY ZenonT(30) DEF SoundInv, Sound, NoAssertion
<1> QED BY InitSound, NextSound, <1>1, PTL DEF Spec

\* A service with WatchdogSec= that is up is watched (WatchdogArmed): the watchdog
\* that service_enter_start_post() arms survives reloads, failing reloads and
\* daemon-reloads.  It takes a unit file with ExecStartPost= if it has PIDFile=.
THEOREM WatchdogArmedAlways == Spec => [](Watchable => WatchdogArmed)
<1>1. SoundInv => (Watchable => WatchdogArmed)
  BY Zenon DEF SoundInv, Sound, Rests, WatchdogArmed, Idle
<1> QED BY InitSound, NextSound, <1>1, PTL DEF Spec

\* A service is a unit as the job engine takes it to be (ImplementsContract): the
\* states its chains of service_enter_*() calls report end its job as it should
\* end, for any processes, failures and interleaving of them with jobs that are
\* requested, merged, canceled and run, as long as no assertion can fail.
THEOREM ImplementsContractAlways == Spec /\ Supported => ImplementsContract
<1>1. Init => Contract!Init
  BY DEF Init, Contract!Init, service_active_state, NoCall
<1>2. SoundInv /\ Supported /\ [Next]_vars => [Contract!Next]_(Contract!vars)
  <2> SUFFICES ASSUME SoundInv, Supported, [Next]_vars PROVE Contract!Next \/ UNCHANGED Contract!vars
    BY Zenon
  <2>1. CASE Next
    <3>1. Obeys
      BY <2>1, NextObeys, ZenonT(30)
    <3>2. ~ svc'.aborted
      BY <3>1, Zenon DEF Obeys, Sound
    <3> QED BY <3>1, <3>2, Zenon DEF Obeys
  <2>2. CASE UNCHANGED vars
    <3>1. svc' = svc /\ conf' = conf
      BY <2>2, Zenon DEF vars
    <3> QED BY <3>1, Zenon DEF Contract!vars, service_active_state
  <2> QED BY <2>1, <2>2, ZenonT(30)
<1>3. SoundInv /\ Supported /\ [Next]_vars => Supported'
  <2> SUFFICES ASSUME SoundInv, Supported, [Next]_vars PROVE Supported'
    BY Zenon
  <2>1. conf' = conf
    BY NextObeys, Zenon DEF vars
  <2> QED BY <2>1, Zenon DEF Supported
<1> QED BY InitSound, NextSound, <1>1, <1>2, <1>3, PTL DEF Spec, ImplementsContract, Contract!Spec

=============================================================================
