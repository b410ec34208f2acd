---------------------------- MODULE UnitContract ----------------------------
(***************************************************************************)
(* What the job engine relies on in a unit, whatever its type: it reports  *)
(* every change of its active state with unit_notify(), its job ends by    *)
(* those reports alone unless it is canceled or refused, and running a job *)
(* has it do what JobTypes says the methods of unit types do.  The job     *)
(* engine (module JobEngine) is checked against units that do just that;   *)
(* a unit type implements this module.                                     *)
(***************************************************************************)
EXTENDS JobTypes, Sequences

VARIABLES active,      \* unit_active_state()
          job,         \* the type of u->job, "none" without one
          running,     \* ... and whether it is JOB_RUNNING
          performing,  \* it has just been run, and the unit has yet to react
          notified     \* the states unit_notify() was called with in the last step

vars == <<active, job, running, performing, notified>>

\* The jobs that can be left when the unit reports ns: <<type, is it running>>.
Told(j, ns) ==
    {LET outcome == unit_process_job(j[1], j[2], ns, reload_success)
     IN IF outcome = "none" THEN j
        ELSE <<IF outcome = "done" /\ j[1] = "restart" THEN "start" ELSE "none", FALSE>>
     : reload_success \in BOOLEAN}

\* The unit goes through the states notified', its job being j to begin with and
\* h[n] after n of them.
Notify(j) ==
    LET n == Len(notified')
    IN /\ \E h \in [0 .. n -> {j, <<"start", FALSE>>, <<"none", FALSE>>}] :
            /\ h[0] = j /\ \A i \in 1 .. n : h[i] \in Told(h[i - 1], notified'[i])
            /\ <<job', running'>> = h[n]
       /\ active' = IF n = 0 THEN active ELSE notified'[n]
       /\ performing' = FALSE

Quiet == notified' = <<>> /\ performing' = FALSE /\ UNCHANGED active

\* A process exits, a timeout elapses...
Change == ~ performing /\ Notify(<<job, running>>)

\* job_install, on behalf of a client or of the unit itself.
Install ==
    /\ ~ performing
    /\ \E t \in MergingTypes :
         IF job = "none" \/ job_type_is_conflicting(job, t) THEN Notify(<<t, FALSE>>)
         ELSE \E r \in {FALSE, running} : Notify(<<job_type_merge_and_collapse(job, t, active), r>>)

Cancel == job # "none" /\ ~ performing /\ job' = "none" /\ running' = FALSE /\ Quiet

\* job_run_and_invalidate: the job is put off, ends right away, waits for a
\* change that is on its way, or is about to set one off.
Run ==
    /\ job # "none" /\ ~ running
    /\ \/ NotYet(job, active) /\ UNCHANGED <<job, running>> /\ Quiet
       \/ /\ job' = IF job = "restart" /\ IsInactiveOrFailed(active) THEN "start" ELSE "none"
          /\ running' = FALSE /\ Quiet
       \/ OnItsWay(job, active) /\ job' = job /\ running' = TRUE /\ Quiet
       \/ job' = job /\ running' = TRUE /\ performing' = TRUE /\ notified' = <<>> /\ UNCHANGED active

\* The change a job sets off: the unit cannot be in any other state next.
Perform ==
    /\ performing \/ (job # "none" /\ ~ running)
    /\ notified' # <<>> /\ Head(notified') \in MethodTargets(job, active)
    /\ Notify(<<job, TRUE>>)

Init == active = "inactive" /\ job = "none" /\ running = FALSE /\ performing = FALSE /\ notified = <<>>

Next == Change \/ Install \/ Cancel \/ Run \/ Perform

Spec == Init /\ [][Next]_vars

=============================================================================
