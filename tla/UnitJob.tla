------------------------------ MODULE UnitJob -------------------------------
(***************************************************************************)
(* The job of a unit, as the code of a unit type affects it.  w is the     *)
(* unit's object: w.job and w.run are u->job and whether it is RUNNING,    *)
(* w.notified the states unit_notify() has been called with by the handler *)
(* in progress, w.reload_result the outcome of the last reload.            *)
(***************************************************************************)
EXTENDS JobTypes, Sequences

\* The job ends, goes on as a START or stays as it is.
job_finish(w) ==
    [w EXCEPT !.job = IF @ = "restart" THEN "start" ELSE "none", !.run = FALSE]

unit_notify(w, ns) ==
    LET outcome == unit_process_job(w.job, w.run, ns, w.reload_result = "success")
        v == [w EXCEPT !.notified = Append(@, ns)]
    IN IF outcome = "none" THEN v
       ELSE IF outcome = "done" THEN job_finish(v) ELSE [v EXCEPT !.job = "none", !.run = FALSE]

\* A new job on a unit in state active, canceling or joining the one it has.
job_install(w, active, t) ==
    IF w.job = "none" \/ job_type_is_conflicting(w.job, t) THEN [w EXCEPT !.job = t, !.run = FALSE]
    ELSE [w EXCEPT !.job = job_type_merge_and_collapse(@, t, active),
                   !.run = @ /\ t # "reload" /\ job_type_is_superset(w.job, t)]

\* Mutant of TryAgain: the methods return 0 rather than -EAGAIN.
Mut_TryAgain(w) == w
TryAgain(w) == [w EXCEPT !.run = FALSE]

\* A VERIFY_ACTIVE job looks at the state and is over, unless that is to change.
verify_active(w, active) == IF active = "activating" THEN {TryAgain(w)} ELSE {job_finish(w)}

=============================================================================
