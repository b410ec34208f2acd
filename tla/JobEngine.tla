----------------------------- MODULE JobEngine ------------------------------
(***************************************************************************)
(* PID 1's job engine: the jobs installed on units, the run queue, the     *)
(* garbage collection of device jobs, the propagation of unit state        *)
(* changes to jobs and of finished jobs to other units (src/core/job.c,    *)
(* unit.c, manager.c, transaction.c).                                      *)
(*                                                                         *)
(* PID 1 is single threaded, but its handlers call each other: finishing a *)
(* job fails other jobs, notifies triggering units, and starts OnFailure=  *)
(* units, all of it in the middle of the caller's loop.  calls is that C   *)
(* stack, innermost frame first; an event is handled only when it is       *)
(* empty.  Loops over dependency hash maps run in any order.               *)
(***************************************************************************)
EXTENDS JobTypes, Sequences, FiniteSets

CONSTANTS
    Units,
    Dep(_, _),          \* Dep(u, a): the units u depends on with atom a
    Devices,            \* unit types without start and stop, with gc_jobs
    Mounts,             \* held back while the mountinfo monitor is ratelimited
    StopWhenUnneeded,   \* units with StopWhenUnneeded=yes
    IgnoreOnIsolate,    \* units with IgnoreOnIsolate=yes
    JobTimeout,         \* units with a finite JobTimeoutSec=
    JobRunningTimeout,  \* units with a finite JobRunningTimeoutSec=
    Requests,           \* the [type, unit, mode] clients ask for
    TransactionJobs(_, _, _),  \* the job sets a transaction may come down to
    States,             \* bound: the active states units move through
    MaxDepth            \* bound: nesting of handlers reached via Triggers=

ASSUME SetsAssumption ==
    /\ Devices \subseteq Units /\ Mounts \subseteq Units
    /\ StopWhenUnneeded \subseteq Units /\ IgnoreOnIsolate \subseteq Units
    /\ JobTimeout \subseteq Units /\ JobRunningTimeout \subseteq Units
    /\ States \subseteq UnitActiveState /\ "inactive" \in States

\* The dependency atoms (unit-dependency-atom.h) the engine acts on.
Atom == {"After", "Before", "TriggeredBy", "OnFailure", "OnSuccess",
         "PROPAGATE_START_FAILURE", "PROPAGATE_STOP_FAILURE",
         "PROPAGATE_INACTIVE_START_AS_FAILURE", "RETROACTIVE_START_REPLACE",
         "RETROACTIVE_START_FAIL", "RETROACTIVE_STOP_ON_START",
         "RETROACTIVE_STOP_ON_STOP", "CANNOT_BE_ACTIVE_WITHOUT",
         "START_STEADILY", "PINS_STOP_WHEN_UNNEEDED",
         "ADD_STOP_WHEN_UNNEEDED_QUEUE", "ADD_START_WHEN_UPHELD_QUEUE",
         "ADD_CANNOT_BE_ACTIVE_WITHOUT_QUEUE"}

\* unit_add_dependency keeps units from depending on themselves and stores
\* every dependency with its inverse (module DependencyStore).
ASSUME DepAssumption ==
    /\ \A u \in Units, a \in Atom : Dep(u, a) \subseteq Units \ {u}
    /\ \A u, v \in Units : v \in Dep(u, "After") <=> u \in Dep(v, "Before")

JobMode == {"fail", "replace", "replace-irreversibly", "isolate", "flush",
            "ignore-dependencies", "ignore-requirements", "triggering",
            "restart-dependencies"}

\* One job per unit, "none" where the transaction has none.
Jobs == [Units -> TransactionTypes \cup {"none"}]

ASSUME RequestsAssumption ==
    /\ Requests \subseteq [type : JobType, unit : Units, mode : JobMode]
    /\ \A t \in TransactionTypes, u \in Units, m \in JobMode :
           TransactionJobs(t, u, m) \subseteq Jobs

VARIABLES
    active,         \* unit_active_state() of every unit
    job,            \* the type of u->job, "none" without one
    running,        \* units whose job is JOB_RUNNING, not JOB_WAITING
    irreversible,   \* units whose job has the flag
    ignore_order,   \* likewise
    timer,          \* units whose job has its timer_event_source
    nop,            \* units with a nop_job; it is WAITING in the run queue
    runq,           \* units whose job is in the run queue
    gcq,            \* units whose job is in the gc queue
    dbusq,          \* device units whose job is in the D-Bus queue
    tracked,        \* device units whose job a bus client tracks
    autoq,          \* the three queues of units to start or stop on their own
    limited,        \* units whose automatic start or stop waits for a timer
    ratelimited,    \* the mountinfo monitor is ratelimited
    calls           \* what the handlers in progress have left to do

jobVars == <<job, running, irreversible, ignore_order, timer, runq, gcq, dbusq, tracked>>
envVars == <<limited, ratelimited>>
vars == <<active, jobVars, nop, autoq, envVars, calls>>

AutoQueue == {"unneeded", "upheld", "bound"}
JobResult == {"done", "canceled", "timeout", "failed", "dependency", "skipped",
              "invalid", "assert", "unsupported", "collected", "once"}

Installed == {u \in Units : job[u] # "none"}
Waiting == Installed \ running

-----------------------------------------------------------------------------
(* Frames.  A "finish" frame is the rest of job_finish_and_invalidate, a   *)
(* "notify" frame the rest of unit_notify, "perform" the rest of           *)
(* job_run_and_invalidate once the job is RUNNING, "apply" the rest of     *)
(* transaction_apply, "clear" that of manager_clear_jobs.                  *)

\* Why manager_add_job is called by a handler, in the order of the calls.
AddReason == {"start-replace", "start-fail", "stop", "on-failure", "on-success"}
Rank(how) == IF how = "start-replace" THEN 1
             ELSE IF how = "start-fail" THEN 2
             ELSE IF how = "stop" THEN 3 ELSE 4   \* one of the last two only

LoopFrame == [op : {"finish", "notify"}, unit : Units, ns : UnitActiveState,
              fail : SUBSET Units, adds : SUBSET (AddReason \X Units),
              trigger : SUBSET Units]
PerformFrame == [op : {"perform"}, unit : Units]
ApplyFrame == [op : {"apply"}, flush : SUBSET Units, jobs : Jobs,
               irreversible : SUBSET Units, ignore_order : SUBSET Units,
               refuse_late_merge : SUBSET Units, canceled : SUBSET Units]
ClearFrame == [op : {"clear"}]
Frame == LoopFrame \cup PerformFrame \cup ApplyFrame \cup ClearFrame

Top == Head(calls)
InHandler(op) == calls # <<>> /\ Top.op = op

-----------------------------------------------------------------------------
(* Ordering (job.c).                                                       *)

\* The sign of the second comparison is wrong.
Mut_blocks(u, v) ==
    \/ v \in Dep(u, "After") /\ job_compare_after(job[u], job[v]) > 0
    \/ v \in Dep(u, "Before") /\ job_compare_before(job[u], job[v]) < 0

\* The job of v keeps that of u from running, by type and order alone.
Blocks(u, v) ==
    \/ v \in Dep(u, "After") /\ job_compare_after(job[u], job[v]) > 0
    \/ v \in Dep(u, "Before") /\ job_compare_before(job[u], job[v]) > 0

job_is_runnable(u) ==
    \/ u \in ignore_order
    \/ \A v \in Installed \ ignore_order : ~ Blocks(u, v)

\* A job of type t on u, with ignore_order if free, blocks no installed job.
HoldsUpNobody(u, t, free) ==
    free \/ \A v \in Installed \ ignore_order : /\ v \in Dep(u, "Before") => Downwards(job[v])
                                                /\ v \in Dep(u, "After") => ~ Downwards(t)

\* Only device jobs are collected: not those of others, those with a signal
\* to send or a client, or those some job waits for.
job_may_gc(u, dbus, clients) ==
    u \in Devices \ (dbus \cup clients) /\ HoldsUpNobody(u, job[u], u \in ignore_order)

-----------------------------------------------------------------------------
(* The queues that start and stop units on their own (unit.c, manager.c).  *)

\* unit_submit_to_{stop_when_unneeded,start_when_upheld,stop_when_bound}_queue
Submittable(q, u) ==
    \/ q = "unneeded" /\ u \in StopWhenUnneeded /\ IsActiveOrReloading(active[u])
    \/ q = "upheld" /\ IsInactiveOrFailed(active[u]) /\ Dep(u, "START_STEADILY") # {}
    \/ q = "bound" /\ IsActiveOrReloading(active[u]) /\ Dep(u, "CANNOT_BE_ACTIVE_WITHOUT") # {}

\* Submit the units of S[q] to each queue q.
Submit(S) == autoq' = [q \in AutoQueue |-> autoq[q] \cup {u \in S[q] : Submittable(q, u)}]

unit_is_unneeded(u) ==
    /\ u \in StopWhenUnneeded /\ active[u] = "active" /\ job[u] = "none"
    /\ \A v \in Dep(u, "PINS_STOP_WHEN_UNNEEDED") :
           job[v] = "none" /\ IsInactiveOrFailed(active[v])

unit_is_upheld_by_active(u) ==
    /\ IsInactiveOrFailed(active[u]) /\ job[u] = "none"
    /\ \E v \in Dep(u, "START_STEADILY") : job[v] = "none" /\ IsActiveOrReloading(active[v])

unit_is_bound_by_inactive(u) ==
    /\ active[u] = "active" /\ job[u] = "none"
    /\ \E v \in Dep(u, "CANNOT_BE_ACTIVE_WITHOUT") :
           job[v] = "none" /\ IsInactiveOrFailed(active[v])

MustAct(q, u) == \/ q = "unneeded" /\ unit_is_unneeded(u)
                 \/ q = "upheld" /\ unit_is_upheld_by_active(u)
                 \/ q = "bound" /\ unit_is_bound_by_inactive(u)

-----------------------------------------------------------------------------
(* manager_add_job.                                                        *)

\* a runs before b once the transaction tr joins the installed jobs.
RunsBefore(tr, a, b) ==
    LET T(u) == IF tr[u] # "none" THEN tr[u] ELSE job[u]
        Ordered(u) == T(u) \notin {"none", "nop"} /\ (tr[u] # "none" \/ u \notin ignore_order)
    IN /\ Ordered(a) /\ Ordered(b)
       /\ \/ b \in Dep(a, "Before") /\ job_compare_before(T(a), T(b)) < 0
          \/ b \in Dep(a, "After") /\ job_compare_after(T(a), T(b)) < 0

\* No job of the transaction leads into a cycle of the job order.
transaction_verify_order(tr, mode) ==
    mode = "ignore-dependencies" \/
    ~ \E S \in SUBSET Units : /\ \E u \in S : tr[u] # "none"
                              /\ \A a \in S : \E b \in S : RunsBefore(tr, a, b)

transaction_is_destructive(tr, mode) ==
    \E u \in Installed : /\ tr[u] # "none" /\ job_type_is_conflicting(job[u], tr[u])
                         /\ mode = "fail" \/ u \in irreversible

\* The transactions manager_add_job can end up applying.
Transactions(type, u, mode) ==
    {tr \in TransactionJobs(job_type_collapse(type, active[u]), u, mode) :
        transaction_verify_order(tr, mode) /\ ~ transaction_is_destructive(tr, mode)}

Apply(tr, u, mode) ==
    [op |-> "apply", jobs |-> tr,
     flush |-> IF mode \in {"isolate", "flush"}
               THEN {v \in Units \ IgnoreOnIsolate : tr[v] = "none"} ELSE {},
     irreversible |-> IF mode = "replace-irreversibly" THEN Units ELSE {},
     ignore_order |-> IF mode = "ignore-dependencies" THEN Units ELSE {},
     refuse_late_merge |-> IF mode = "restart-dependencies" THEN {u} ELSE {},
     canceled |-> {}]

\* The call as a step: its transaction, or a refusal, then the caller's rest.
manager_add_job(type, u, mode, rest) ==
    \/ \E tr \in Transactions(type, u, mode) : calls' = <<Apply(tr, u, mode)>> \o rest
    \/ Transactions(type, u, mode) = {} /\ calls' = rest

-----------------------------------------------------------------------------
(* Finishing jobs.                                                         *)

\* A canceled job counts as a failure.
Mut_FinishFrame(u, t, result, recursive, s) ==
    [op |-> "finish", unit |-> u, ns |-> s, fail |-> {},
     adds |-> IF result \in {"timeout", "dependency", "canceled"}
              THEN {"on-failure"} \X Dep(u, "OnFailure") ELSE {},
     trigger |-> Dep(u, "TriggeredBy")]

\* What job_finish_and_invalidate does after it has freed a job of type t,
\* the unit being in state s.
FinishFrame(u, t, result, recursive, s) ==
    [op |-> "finish", unit |-> u, ns |-> s,
     fail |-> IF ~ recursive THEN {}
              ELSE IF result # "done"
              THEN IF t \in {"start", "verify"} THEN Dep(u, "PROPAGATE_START_FAILURE")
                   ELSE IF t = "stop" THEN Dep(u, "PROPAGATE_STOP_FAILURE") ELSE {}
              ELSE IF t \in {"start", "reload"} /\ ~ IsActiveOrReloading(s)
              THEN Dep(u, "PROPAGATE_INACTIVE_START_AS_FAILURE") ELSE {},
     adds |-> IF result \in {"timeout", "dependency"}
              THEN {"on-failure"} \X Dep(u, "OnFailure") ELSE {},
     trigger |-> Dep(u, "TriggeredBy")]

\* A finished RESTART goes on as a START: only the "finish" label is left.
RestartFrame(u, s) ==
    [op |-> "finish", unit |-> u, ns |-> s, fail |-> {}, adds |-> {}, trigger |-> {}]

\* The timer of the freed job stays armed.
Mut_job_finish(u, result, recursive, s, rest) ==
    /\ job' = [job EXCEPT ![u] = IF result = "done" /\ @ = "restart" THEN "start" ELSE "none"]
    /\ running' = running \ {u} /\ irreversible' = irreversible \ {u}
    /\ ignore_order' = ignore_order \ {u} /\ timer' = timer
    /\ runq' = runq \ {u} /\ gcq' = gcq \ {u} /\ dbusq' = dbusq \ {u} /\ tracked' = tracked \ {u}
    /\ calls' = <<FinishFrame(u, job[u], result, recursive, s)>> \o rest

job_finish_and_invalidate(u, result, recursive, s, rest) ==
    IF result = "done" /\ job[u] = "restart"
    THEN /\ job' = [job EXCEPT ![u] = "start"]
         /\ running' = running \ {u}
         /\ runq' = runq \cup {u}
         /\ dbusq' = dbusq \cup ({u} \cap Devices)
         /\ calls' = <<RestartFrame(u, s)>> \o rest
         /\ UNCHANGED <<irreversible, ignore_order, timer, gcq, tracked>>
    ELSE /\ job' = [job EXCEPT ![u] = "none"]
         /\ running' = running \ {u}
         /\ irreversible' = irreversible \ {u}
         /\ ignore_order' = ignore_order \ {u}
         /\ timer' = timer \ {u}
         /\ runq' = runq \ {u}
         /\ gcq' = gcq \ {u}
         /\ dbusq' = dbusq \ {u}
         /\ tracked' = tracked \ {u}
         /\ calls' = <<FinishFrame(u, job[u], result, recursive, s)>> \o rest

\* The same for a unit's NOP job.
FinishNop(u, rest) ==
    /\ nop' = nop \ {u}
    /\ calls' = <<FinishFrame(u, "nop", "done", FALSE, active[u])>> \o rest

-----------------------------------------------------------------------------
(* Unit state changes (unit.c).                                            *)

\* A reload that failed does not end the job.
Mut_JobOutcome(u, ns, reload_success) ==
    IF job[u] \in {"start", "verify"} THEN IF IsActiveOrReloading(ns) THEN "done" ELSE "none"
    ELSE IF job[u] = "reload"
    THEN IF u \in running /\ ns = "active" /\ reload_success THEN "done" ELSE "none"
    ELSE IF job[u] \in {"stop", "restart"} /\ IsInactiveOrFailed(ns) THEN "done" ELSE "none"

\* How a change to ns ends the job of u, if it does.
JobOutcome(u, ns, reload_success) == unit_process_job(job[u], u \in running, ns, reload_success)

\* No job asked for this change.
Unexpected(u, ns) ==
    \/ job[u] = "none"
    \/ /\ u \in running
       /\ \/ job[u] \in {"start", "verify"} /\ ns # "activating" /\ ~ IsActiveOrReloading(ns)
          \/ job[u] = "reload" /\ ns \notin {"active", "activating", "reloading"}
          \/ job[u] \in {"stop", "restart"} /\ ns # "deactivating" /\ ~ IsInactiveOrFailed(ns)

\* The jobs retroactively_{start,stop}_dependencies and unit_start_on_failure
\* go on to ask for.
NotifyAdds(u, ns) ==
    LET os == active[u]
        unordered(a) == Dep(u, a) \ Dep(u, "After")
    IN (IF ~ Unexpected(u, ns) THEN {}
        ELSE IF IsInactiveOrFailed(os) /\ IsActiveOrActivating(ns)
        THEN ({"start-replace"} \X unordered("RETROACTIVE_START_REPLACE"))
             \cup ({"start-fail"} \X unordered("RETROACTIVE_START_FAIL"))
             \cup ({"stop"} \X Dep(u, "RETROACTIVE_STOP_ON_START"))
        ELSE IF IsActiveOrActivating(os) /\ IsInactiveOrDeactivating(ns)
        THEN {"stop"} \X Dep(u, "RETROACTIVE_STOP_ON_STOP")
        ELSE {})
       \cup
       (IF ns # os /\ ns = "failed" THEN {"on-failure"} \X Dep(u, "OnFailure")
        ELSE IF ns = "inactive" /\ os \notin {"failed", "inactive", "maintenance"}
        THEN {"on-success"} \X Dep(u, "OnSuccess")
        ELSE {})

NotifyFrame(u, ns) ==
    [op |-> "notify", unit |-> u, ns |-> ns, fail |-> {},
     adds |-> NotifyAdds(u, ns), trigger |-> Dep(u, "TriggeredBy")]

\* Waiting jobs are not woken up by the change.
Mut_unit_notify(u, ns, reload_success, rest) ==
    LET outcome == JobOutcome(u, ns, reload_success)
    IN /\ active' = [active EXCEPT ![u] = ns]
       /\ IF outcome # "none"
          THEN job_finish_and_invalidate(u, outcome, TRUE, ns, <<NotifyFrame(u, ns)>> \o rest)
          ELSE calls' = <<NotifyFrame(u, ns)>> \o rest /\ UNCHANGED jobVars

\* The unit changes to ns (possibly its old state) and calls unit_notify.
unit_notify(u, ns, reload_success, rest) ==
    LET outcome == JobOutcome(u, ns, reload_success)
        more == <<NotifyFrame(u, ns)>> \o rest
    IN /\ active' = [active EXCEPT ![u] = ns]
       /\ IF outcome # "none"
          THEN job_finish_and_invalidate(u, outcome, TRUE, ns, more)
          ELSE /\ runq' = runq \cup ({u} \cap Waiting)
               /\ calls' = more
               /\ UNCHANGED <<job, running, irreversible, ignore_order, timer,
                              gcq, dbusq, tracked>>

-----------------------------------------------------------------------------
(* The steps of handlers in progress.                                      *)

\* The loop starts over whenever it has nothing to do for a unit.
Mut_FailDependency ==
    /\ InHandler("finish")
    /\ \E o \in Top.fail :
         IF job[o] \in {"start", "verify"}
         THEN job_finish_and_invalidate(o, "dependency", TRUE, active[o], calls)
         ELSE calls' = <<[Top EXCEPT !.fail = Dep(Top.unit, "PROPAGATE_START_FAILURE")]>> \o Tail(calls)
              /\ UNCHANGED jobVars
    /\ UNCHANGED <<active, nop, autoq, envVars>>

\* job_fail_dependencies, one unit per step.
FailDependency ==
    /\ InHandler("finish")
    /\ \E o \in Top.fail :
         LET rest == <<[Top EXCEPT !.fail = @ \ {o}]>> \o Tail(calls)
         IN IF job[o] \in {"start", "verify"}
            THEN job_finish_and_invalidate(o, "dependency", TRUE, active[o], rest)
            ELSE calls' = rest /\ UNCHANGED jobVars
    /\ UNCHANGED <<active, nop, autoq, envVars>>

\* manager_add_job on behalf of a handler; the retroactive ones only if the
\* other unit is not on its way already.
AddDependencyJob ==
    /\ InHandler("finish") \/ InHandler("notify")
    /\ Top.fail = {}
    /\ \E a \in Top.adds :
         LET how == a[1]
             o == a[2]
             rest == <<[Top EXCEPT !.adds = @ \ {a}]>> \o Tail(calls)
         IN /\ \A b \in Top.adds : Rank(how) <= Rank(b[1])
            /\ IF \/ how \in {"start-replace", "start-fail"} /\ IsActiveOrActivating(active[o])
                  \/ how = "stop" /\ IsInactiveOrDeactivating(active[o])
               THEN calls' = rest
               ELSE manager_add_job(IF how = "stop" THEN "stop" ELSE "start", o,
                                    IF how \in {"start-fail", "on-success"} THEN "fail" ELSE "replace",
                                    rest)
    /\ UNCHANGED <<active, jobVars, nop, autoq, envVars>>

\* The state a socket, automount or timer unit enters from trigger_notify.
TriggerStates == {"active", "deactivating", "inactive", "failed"} \cap States

\* unit_trigger_notify: a unit that triggers this one may change state itself.
TriggerNotify ==
    /\ InHandler("finish") \/ InHandler("notify")
    /\ Top.fail = {} /\ Top.adds = {}
    /\ \E o \in Top.trigger :
         LET rest == <<[Top EXCEPT !.trigger = @ \ {o}]>> \o Tail(calls)
         IN \/ calls' = rest /\ UNCHANGED <<active, jobVars>>
            \/ /\ active[o] = "active" /\ Len(calls) < MaxDepth
               /\ \E ns \in TriggerStates : unit_notify(o, ns, TRUE, rest)
    /\ UNCHANGED <<nop, autoq, envVars>>

LoopsDone == Top.fail = {} /\ Top.adds = {} /\ Top.trigger = {}

\* The "finish" label: wake up the jobs ordered around the unit.
FinishEnd ==
    /\ InHandler("finish") /\ LoopsDone
    /\ LET u == Top.unit
           around == (Dep(u, "After") \cup Dep(u, "Before")) \cap Installed
       IN /\ runq' = runq \cup around
          /\ gcq' = gcq \cup {v \in around : job_may_gc(v, dbusq, tracked)}
          /\ Submit([q \in AutoQueue |-> {u}])
    /\ calls' = Tail(calls)
    /\ UNCHANGED <<active, job, running, irreversible, ignore_order, timer, dbusq,
                   tracked, nop, envVars>>

\* The end of unit_notify: units that may have to be started or stopped now.
NotifyEnd ==
    /\ InHandler("notify") /\ LoopsDone
    /\ LET u == Top.unit
       IN Submit([q \in AutoQueue |->
            IF IsInactiveOrFailed(Top.ns)
            THEN IF q = "unneeded" THEN Dep(u, "ADD_STOP_WHEN_UNNEEDED_QUEUE")
                 ELSE IF q = "bound" THEN Dep(u, "ADD_CANNOT_BE_ACTIVE_WITHOUT_QUEUE") ELSE {u}
            ELSE IF IsActiveOrReloading(Top.ns)
            THEN IF q = "upheld" THEN Dep(u, "ADD_START_WHEN_UPHELD_QUEUE") ELSE {u}
            ELSE {}])
    /\ calls' = Tail(calls)
    /\ UNCHANGED <<active, jobVars, nop, envVars>>

\* transaction_apply, first loop: isolating and flushing cancel what is left.
ApplyFlush ==
    /\ InHandler("apply")
    /\ \E u \in Top.flush :
         IF job[u] # "none"
         THEN /\ job_finish_and_invalidate(u, "canceled", FALSE, active[u], calls)
              /\ UNCHANGED nop
         ELSE IF u \in nop THEN FinishNop(u, calls) /\ UNCHANGED jobVars
         ELSE /\ calls' = <<[Top EXCEPT !.flush = @ \ {u}]>> \o Tail(calls)
              /\ UNCHANGED <<jobVars, nop>>
    /\ UNCHANGED <<active, autoq, envVars>>

job_type_allows_late_merge(t) == t # "reload"

\* transaction_apply, last loop: job_install one job, make it run.  An
\* installed job that conflicts is canceled first, with all that entails; the
\* assertion that the unit then has no job stops PID 1 if it fails.
ApplyJob ==
    /\ InHandler("apply") /\ Top.flush = {}
    /\ \E u \in Units :
         LET t == Top.jobs[u]
             merged == job_type_merge_and_collapse(job[u], t, active[u])
             late == \/ u \notin running
                     \/ /\ u \notin Top.refuse_late_merge
                        /\ job_type_allows_late_merge(t) /\ job_type_is_superset(job[u], t)
             free == {u} \cap Top.ignore_order
         IN /\ t # "none"
            /\ Top.canceled \subseteq {u}
            /\ IF t = "nop"
               THEN /\ nop' = nop \cup {u}
                    /\ calls' = <<[Top EXCEPT !.jobs[u] = "none"]>> \o Tail(calls)
                    /\ UNCHANGED jobVars
               ELSE IF job[u] # "none" /\ job_type_is_conflicting(job[u], t)
               THEN /\ u \notin Top.canceled
                    /\ job_finish_and_invalidate(u, "canceled", FALSE, active[u],
                           <<[Top EXCEPT !.canceled = {u}]>> \o Tail(calls))
                    /\ UNCHANGED nop
               ELSE /\ u \in Top.canceled => job[u] = "none"
                    /\ IF job[u] = "none"
                       THEN /\ job' = [job EXCEPT ![u] = t]
                            /\ running' = running
                            /\ gcq' = gcq \cup {v \in {u} \cap Devices : HoldsUpNobody(v, t, free # {})}
                       ELSE /\ job' = [job EXCEPT ![u] = merged]
                            /\ running' = IF late THEN running ELSE running \ {u}
                            /\ gcq' = gcq
                    /\ irreversible' = irreversible \cup ({u} \cap Top.irreversible)
                    /\ ignore_order' = ignore_order \cup free
                    /\ runq' = runq \cup {u}
                    /\ dbusq' = dbusq \cup ({u} \cap Devices)
                    /\ timer' = timer \cup ({u} \cap JobTimeout)
                    /\ calls' = <<[Top EXCEPT !.jobs[u] = "none", !.canceled = {}]>> \o Tail(calls)
                    /\ UNCHANGED <<tracked, nop>>
    /\ UNCHANGED <<active, autoq, envVars>>

ApplyEnd ==
    /\ InHandler("apply") /\ Top.flush = {}
    /\ \A u \in Units : Top.jobs[u] = "none"
    /\ calls' = Tail(calls)
    /\ UNCHANGED <<active, jobVars, nop, autoq, envVars>>

\* manager_clear_jobs: cancel jobs for as long as there is one.
ClearStep ==
    /\ InHandler("clear")
    /\ \/ \E u \in Installed :
            /\ job_finish_and_invalidate(u, "canceled", FALSE, active[u], calls)
            /\ UNCHANGED nop
       \/ \E u \in nop : FinishNop(u, calls) /\ UNCHANGED jobVars
       \/ /\ Installed = {} /\ nop = {}
          /\ calls' = Tail(calls) /\ UNCHANGED <<jobVars, nop>>
    /\ UNCHANGED <<active, autoq, envVars>>

-----------------------------------------------------------------------------
(* Running a job (job.c): job_run_and_invalidate.                          *)

\* The part up to the call that does the work.
RunJob(u) ==
    /\ calls = <<>> /\ u \in runq
    /\ runq' = runq \ {u}
    /\ IF u \in Waiting /\ job_is_runnable(u)
       THEN /\ timer' = timer \cup ({u} \cap JobRunningTimeout)
            /\ running' = running \cup {u}
            /\ dbusq' = dbusq \cup ({u} \cap Devices)
            /\ calls' = <<[op |-> "perform", unit |-> u]>>
       ELSE UNCHANGED <<timer, running, dbusq, calls>>
    /\ UNCHANGED <<active, job, irreversible, ignore_order, gcq, tracked, nop, autoq, envVars>>

\* BindsTo= combined with After= is checked again.
unit_verify_deps(u) ==
    \A v \in Dep(u, "CANNOT_BE_ACTIVE_WITHOUT") \cap Dep(u, "After") : IsActiveOrReloading(active[v])

\* The unit is in a state that makes the job wait for the next one.
AwaitsChange(u) ==
    NotYet(job[u], active[u]) \/ (job[u] = "start" /\ u \in Mounts /\ ratelimited)

\* -EAGAIN: the job goes back to WAITING.  A service does that while it stops
\* and while it is about to restart on its own, which counts as activating.
NotReady(u) ==
    /\ AwaitsChange(u)
    /\ job[u] = "start" /\ active[u] # "maintenance" /\ ~ (u \in Mounts /\ ratelimited) => unit_verify_deps(u)

\* The results that end the job at once, without a change of unit state.
ImmediateResults(u) ==
    LET s == active[u]
        t == job[u]
    IN IF t = "verify"
       THEN IF IsActiveOrReloading(s) THEN {"done"}
            ELSE IF s = "activating" THEN {} ELSE {"skipped"}
       ELSE IF t = "start"
       THEN IF u \in Mounts /\ ratelimited THEN {}
            ELSE IF IsActiveOrReloading(s) THEN {"done"}
            ELSE IF s = "maintenance" THEN {}
            ELSE \* not loaded, started once before, type unsupported; the
                 \* condition (-ECOMM) and assertion checks if not activating
                 {"failed", "once", "unsupported"}
                 \cup (IF s = "activating" THEN {} ELSE {"done", "assert"})
                 \cup (IF unit_verify_deps(u) THEN {} ELSE {"dependency"})
       ELSE IF t = "reload"
       THEN {"failed", "skipped"} \cup (IF s \in {"active", "reloading"} THEN {} ELSE {"invalid"})
       ELSE IF IsInactiveOrFailed(s) THEN {"done"}
       ELSE IF u \in Devices THEN {} ELSE {"failed"}

\* A start gets as far as the unit's method.
StartsUnit(u) == ~ (u \in Mounts /\ ratelimited) /\ unit_verify_deps(u)

\* The states the unit type's start, stop or reload method can put it in.
MethodStates(u) ==
    IF (u \in Devices /\ job[u] # "reload") \/ (job[u] = "start" /\ ~ StartsUnit(u)) THEN {}
    ELSE States \cap MethodTargets(job[u], active[u])

\* The method reports that it has nothing to do but wait: devices, units
\* already on their way.
JustWaits(u) ==
    /\ job[u] = "start" => StartsUnit(u)
    /\ \/ OnItsWay(job[u], active[u])
       \/ /\ u \in Devices
          /\ \/ job[u] = "start" /\ active[u] \in {"inactive", "failed", "activating"}
             \/ job[u] \in {"stop", "restart"} /\ ~ IsInactiveOrFailed(active[u])

\* job_perform_on_unit, and what is made of its result.
Perform ==
    /\ InHandler("perform")
    /\ LET u == Top.unit
           rest == Tail(calls)
       IN \/ /\ NotReady(u)
             /\ running' = running \ {u} /\ calls' = rest
             /\ UNCHANGED <<active, job, irreversible, ignore_order, timer, runq, gcq, dbusq, tracked>>
          \/ /\ JustWaits(u)
             /\ calls' = rest /\ UNCHANGED <<active, jobVars>>
          \/ \E r \in ImmediateResults(u) :
                job_finish_and_invalidate(u, r, TRUE, active[u], rest) /\ UNCHANGED active
          \/ \E ns \in MethodStates(u), reload_success \in BOOLEAN :
                unit_notify(u, ns, reload_success, rest)
    /\ UNCHANGED <<nop, autoq, envVars>>

RunNop(u) ==
    /\ calls = <<>> /\ u \in nop
    /\ FinishNop(u, <<>>)
    /\ UNCHANGED <<active, jobVars, autoq, envVars>>

-----------------------------------------------------------------------------
(* Events the event loop handles once no handler is in progress.           *)

Request(r) ==
    /\ calls = <<>>
    /\ \E tr \in Transactions(r.type, r.unit, r.mode) :
           calls' = <<Apply(tr, r.unit, r.mode)>>
    /\ UNCHANGED <<active, jobVars, nop, autoq, envVars>>

\* A unit's process exits, its device shows up, its mount goes away...
UnitChange(u) ==
    /\ calls = <<>>
    /\ \E ns \in States, reload_success \in BOOLEAN : unit_notify(u, ns, reload_success, <<>>)
    /\ UNCHANGED <<nop, autoq, envVars>>

EndJob(u, result, recursive) ==
    /\ calls = <<>>
    /\ job_finish_and_invalidate(u, result, recursive, active[u], <<>>)
    /\ UNCHANGED <<active, nop, autoq, envVars>>

job_dispatch_timer(u) == u \in timer /\ EndJob(u, "timeout", TRUE)

bus_job_method_cancel(u) == u \in Installed /\ EndJob(u, "canceled", TRUE)

manager_clear_jobs ==
    /\ calls = <<>>
    /\ calls' = <<[op |-> "clear"]>>
    /\ UNCHANGED <<active, jobVars, nop, autoq, envVars>>

\* manager_dispatch_gc_job_queue
GcJob(u) ==
    /\ u \in gcq
    /\ IF job_may_gc(u, dbusq, tracked) THEN EndJob(u, "collected", FALSE)
       ELSE /\ calls = <<>>
            /\ gcq' = gcq \ {u}
            /\ UNCHANGED <<active, job, running, irreversible, ignore_order, timer, runq,
                           dbusq, tracked, nop, autoq, envVars, calls>>

\* The job is not considered for collection again.
Mut_SendChangeSignal(u) ==
    /\ calls = <<>> /\ u \in dbusq
    /\ dbusq' = dbusq \ {u}
    /\ UNCHANGED <<active, job, running, irreversible, ignore_order, timer, runq, gcq, tracked,
                   nop, autoq, envVars, calls>>

\* bus_job_send_change_signal: the job leaves the D-Bus queue.
SendChangeSignal(u) ==
    /\ calls = <<>> /\ u \in dbusq
    /\ dbusq' = dbusq \ {u}
    /\ gcq' = gcq \cup {v \in {u} : job_may_gc(v, dbusq \ {v}, tracked)}
    /\ UNCHANGED <<active, job, running, irreversible, ignore_order, timer, runq, tracked,
                   nop, autoq, envVars, calls>>

\* A client asks to be told about a device's job, and leaves the bus.
TrackJob(u) ==
    /\ calls = <<>> /\ u \in (Installed \cap Devices) \ tracked
    /\ tracked' = tracked \cup {u}
    /\ UNCHANGED <<active, job, running, irreversible, ignore_order, timer, runq, gcq, dbusq,
                   nop, autoq, envVars, calls>>

bus_job_track_handler(u) ==
    /\ calls = <<>> /\ u \in tracked
    /\ tracked' = tracked \ {u}
    /\ gcq' = gcq \cup {v \in {u} : job_may_gc(v, dbusq, tracked \ {v})}
    /\ UNCHANGED <<active, job, running, irreversible, ignore_order, timer, runq, dbusq,
                   nop, autoq, envVars, calls>>

\* manager_dispatch_{stop_when_unneeded,start_when_upheld,stop_when_bound}_queue
DispatchAuto(q) ==
    /\ calls = <<>>
    /\ \E u \in autoq[q] :
         /\ autoq' = [autoq EXCEPT ![q] = @ \ {u}]
         /\ IF ~ MustAct(q, u) THEN UNCHANGED <<limited, calls>>
            ELSE \/ limited' = limited \cup {u} /\ UNCHANGED calls
                 \/ /\ manager_add_job(IF q = "upheld" THEN "start" ELSE "stop", u,
                                       IF q = "bound" THEN "replace" ELSE "fail", <<>>)
                    /\ UNCHANGED limited
    /\ UNCHANGED <<active, jobVars, nop, ratelimited>>

manager_ratelimit_requeue(u) ==
    /\ calls = <<>> /\ u \in limited
    /\ limited' = limited \ {u}
    /\ Submit([q \in AutoQueue |-> {u}])
    /\ UNCHANGED <<active, jobVars, nop, ratelimited, calls>>

\* sd-event stops dispatching the mountinfo monitor, and resumes.
MonitorRatelimited ==
    /\ calls = <<>> /\ ~ ratelimited /\ Mounts # {}
    /\ ratelimited' = TRUE
    /\ UNCHANGED <<active, jobVars, nop, autoq, limited, calls>>

Mut_ratelimit_expire ==
    /\ calls = <<>> /\ ratelimited
    /\ ratelimited' = FALSE
    /\ UNCHANGED <<active, jobVars, nop, autoq, limited, calls>>

mount_on_ratelimit_expire ==
    /\ calls = <<>> /\ ratelimited
    /\ ratelimited' = FALSE
    /\ runq' = runq \cup (Mounts \cap Installed)
    /\ UNCHANGED <<active, job, running, irreversible, ignore_order, timer, gcq, dbusq,
                   tracked, nop, autoq, limited, calls>>

\* The timers are not set up again.
Mut_manager_reload ==
    /\ calls = <<>>
    /\ runq' = Waiting /\ dbusq' = {} /\ gcq' = {} /\ timer' = {}
    /\ UNCHANGED <<active, job, running, irreversible, ignore_order, tracked, nop, autoq,
                   envVars, calls>>

\* manager_reload: jobs are serialized and read back; job_coldplug queues the
\* waiting ones again, and the coldplugged units queue themselves.
manager_reload ==
    /\ calls = <<>>
    /\ runq' = Waiting
    /\ dbusq' = {}
    /\ gcq' = {u \in Installed : job_may_gc(u, {}, tracked)}
    /\ timer' = {u \in Installed : u \in JobTimeout \/ u \in timer}
    /\ autoq' = [q \in AutoQueue |->
                   {u \in Units : /\ Submittable(q, u)
                                  /\ q = "upheld" => \E v \in Dep(u, "START_STEADILY") :
                                                         IsActiveOrReloading(active[v])}]
    /\ limited' = {}
    /\ UNCHANGED <<active, job, running, irreversible, ignore_order, tracked, nop,
                   ratelimited, calls>>

-----------------------------------------------------------------------------
Init ==
    /\ active = [u \in Units |-> "inactive"]
    /\ job = [u \in Units |-> "none"]
    /\ running = {} /\ irreversible = {} /\ ignore_order = {} /\ timer = {}
    /\ nop = {} /\ runq = {} /\ gcq = {} /\ dbusq = {} /\ tracked = {}
    /\ autoq = [q \in AutoQueue |-> {}]
    /\ limited = {} /\ ratelimited = FALSE /\ calls = <<>>

HandlerStep == \/ FailDependency \/ AddDependencyJob \/ TriggerNotify
               \/ FinishEnd \/ NotifyEnd
               \/ ApplyFlush \/ ApplyJob \/ ApplyEnd \/ ClearStep \/ Perform

Event == \/ \E r \in Requests : Request(r)
         \/ \E u \in Units : \/ RunJob(u) \/ RunNop(u) \/ UnitChange(u)
                             \/ job_dispatch_timer(u) \/ bus_job_method_cancel(u)
                             \/ GcJob(u) \/ SendChangeSignal(u) \/ TrackJob(u)
                             \/ bus_job_track_handler(u) \/ manager_ratelimit_requeue(u)
         \/ \E q \in AutoQueue : DispatchAuto(q)
         \/ manager_clear_jobs \/ MonitorRatelimited \/ mount_on_ratelimit_expire
         \/ manager_reload

Next == HandlerStep \/ Event

Spec == Init /\ [][Next]_vars

-----------------------------------------------------------------------------
(* Properties.                                                             *)

\* The variables hold what the code's types allow.
TypeOK ==
    /\ active \in [Units -> UnitActiveState]
    /\ job \in [Units -> MergingTypes \cup {"none"}]
    /\ running \subseteq Units /\ irreversible \subseteq Units /\ ignore_order \subseteq Units
    /\ timer \subseteq Units /\ nop \subseteq Units /\ runq \subseteq Units
    /\ gcq \subseteq Units /\ dbusq \subseteq Units /\ tracked \subseteq Units
    /\ autoq \in [AutoQueue -> SUBSET Units] /\ limited \subseteq Units
    /\ ratelimited \in BOOLEAN /\ calls \in Seq(Frame)

\* A freed job is in no queue and has no timer left: whatever path finished it
\* (job_free via job_unlink), the run, gc and D-Bus queues, the timers and the
\* flags only name units that still have a job, and only device jobs are ever
\* queued for collection.
NoDanglingJob ==
    /\ running \cup irreversible \cup ignore_order \cup timer \cup runq \subseteq Installed
    /\ gcq \cup dbusq \cup tracked \subseteq Installed \cap Devices

\* A job is RUNNING only while its unit is still on the way: a running START
\* has not reached active, a running STOP or RESTART has not stopped ("if we
\* see a JOB_RESTART running, it means the unit hasn't stopped yet",
\* job_type_allows_late_merge), a running RELOAD is neither back to active nor
\* down.  Late merges into running jobs rely on this.
RunningConsistent ==
    \A u \in running : calls # <<[op |-> "perform", unit |-> u]>> =>
        /\ job[u] # "verify"
        /\ job[u] = "start" => ~ IsActiveOrReloading(active[u])
        /\ job[u] \in {"stop", "restart"} => ~ IsInactiveOrFailed(active[u])
        /\ job[u] = "reload" => active[u] \notin {"active", "inactive", "failed"}

\* No lost wakeup: when PID 1 is idle, a waiting job that is not in the run
\* queue is held back by the job of a unit ordered around it, or by a unit
\* state whose next change puts it there (unit_process_job), or by the mount
\* ratelimit whose expiry does.
NoLostWakeup ==
    calls = <<>> =>
        \A u \in Waiting \ runq :
            \/ AwaitsChange(u)
            \/ u \notin ignore_order /\ \E v \in Installed : Blocks(u, v)

\* Every job of a unit with a timeout has its timer armed, from its
\* installation, through merges, restarts and daemon-reload, to its end.
TimersArmed ==
    \A u \in Installed :
        u \in JobTimeout \/ (u \in running /\ u \in JobRunningTimeout) => u \in timer

\* No device job is forgotten: when PID 1 is idle, one that nobody tracks and
\* whose neighbours in the order have no jobs is queued for collection, or
\* will be once its pending D-Bus signal is out.
NoLostGc ==
    calls = <<>> =>
        \A u \in (Installed \cap Devices) \ (dbusq \cup tracked) :
            (Dep(u, "After") \cup Dep(u, "Before")) \cap Installed = {} => u \in gcq

\* The assertion of job_install: once the conflicting job is canceled, nothing
\* that its cancellation set off has installed another job on the unit.
InstallAssertion ==
    InHandler("apply") => \A u \in Top.canceled : job[u] = "none"

\* The jobs never all wait for each other: when PID 1 is idle and jobs are
\* installed, one of them is running or may run (job_is_runnable).
NoOrderDeadlock ==
    calls = <<>> /\ Installed # {} => \E u \in Installed : u \in running \/ job_is_runnable(u)

\* Handlers run to their end, whatever order the loops take: the recursion of
\* job_finish_and_invalidate, unit_notify and transaction_apply through failed
\* dependencies, OnFailure= and Triggers= terminates, and with it the loops of
\* transaction_apply and manager_clear_jobs over the remaining jobs.
HandlersReturn == calls # <<>> ~> calls = <<>>

=============================================================================
