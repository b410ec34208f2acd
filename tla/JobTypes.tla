------------------------------ MODULE JobTypes ------------------------------
(***************************************************************************)
(* The algebra of job types of PID 1 (src/core/job.h, job.c): which jobs   *)
(* on one unit merge, conflict or are redundant, and which of two jobs on  *)
(* ordered units goes first.                                               *)
(***************************************************************************)
EXTENDS Integers

\* unit-def.h: the high-level state every unit type maps its states to.
UnitActiveState == {"active", "reloading", "inactive", "failed",
                    "activating", "deactivating", "maintenance"}

IsActiveOrReloading(s) == s \in {"active", "reloading"}
IsActiveOrActivating(s) == s \in {"active", "activating", "reloading"}
IsInactiveOrDeactivating(s) == s \in {"inactive", "failed", "deactivating"}
IsInactiveOrFailed(s) == s \in {"inactive", "failed"}

\* job.h: enum JobType.  Types up to "restart" take part in merging, "nop"
\* may sit in a transaction too, the last three are collapsed beforehand.
MergingTypes == {"start", "verify", "stop", "reload", "restart"}
TransactionTypes == MergingTypes \cup {"nop"}
JobType == TransactionTypes \cup {"try-restart", "try-reload", "reload-or-start"}

-----------------------------------------------------------------------------
\* job_merging_table, -1 written "unmergeable".
job_type_lookup_merge(a, b) ==
    IF a = b THEN a
    ELSE IF "stop" \in {a, b} THEN "unmergeable"
    ELSE IF "restart" \in {a, b} THEN "restart"
    ELSE IF "verify" \in {a, b} THEN (IF a = "verify" THEN b ELSE a)
    ELSE "reload-or-start"

job_type_is_mergeable(a, b) == job_type_lookup_merge(a, b) # "unmergeable"

job_type_is_conflicting(a, b) ==
    a # "nop" /\ b # "nop" /\ ~ job_type_is_mergeable(a, b)

job_type_is_superset(a, b) ==
    b = "nop" \/ (a # "nop" /\ a = job_type_lookup_merge(a, b))

job_type_is_redundant(a, s) ==
    \/ a = "start" /\ IsActiveOrReloading(s)
    \/ a = "stop" /\ IsInactiveOrFailed(s)
    \/ a = "verify" /\ IsActiveOrReloading(s)
    \/ a = "reload" /\ s = "reloading"
    \/ a = "nop"

\* s is the unit's active state when the job enters a transaction.
job_type_collapse(t, s) ==
    IF t = "try-restart"
    THEN IF IsActiveOrActivating(s) THEN "restart" ELSE "nop"
    ELSE IF t = "try-reload"
    THEN IF IsActiveOrReloading(s) THEN "reload" ELSE "nop"
    ELSE IF t = "reload-or-start"
    THEN IF IsActiveOrReloading(s) THEN "reload" ELSE "start"
    ELSE t

Mut_merge_no_collapse(a, b, s) == job_type_lookup_merge(a, b)

\* "unmergeable" stands for the -EEXIST return.
job_type_merge_and_collapse(a, b, s) == job_type_collapse(job_type_lookup_merge(a, b), s)

\* A RESTART is a STOP in disguise until it is patched to START.
Downwards(t) == t \in {"stop", "restart"}

\* job_compare(a, b, UNIT_ATOM_BEFORE) for types other than NOP and no
\* ignore_order, a's unit being ordered before b's: b goes first iff it stops.
job_compare_before(a, b) == IF Downwards(b) THEN 1 ELSE -1

\* ... and with UNIT_ATOM_AFTER, a's unit being ordered after b's.
job_compare_after(a, b) == - job_compare_before(b, a)

-----------------------------------------------------------------------------
\* unit_process_job: the result with which a unit's change to state ns ends its
\* job of type t, "none" if it does not.  run: the job is RUNNING.
unit_process_job(t, run, ns, reload_success) ==
    LET ok == IF ns = "failed" THEN "failed" ELSE "done"
    IN IF t \in {"start", "verify"}
       THEN IF IsActiveOrReloading(ns) THEN "done"
            ELSE IF run /\ IsInactiveOrFailed(ns) THEN ok ELSE "none"
       ELSE IF t = "reload"
       THEN IF run /\ ns = "active" THEN IF reload_success THEN "done" ELSE "failed"
            ELSE IF run /\ IsInactiveOrFailed(ns) THEN ok ELSE "none"
       ELSE IF t \in {"stop", "restart"}
       THEN IF IsInactiveOrFailed(ns) THEN "done"
            ELSE IF run /\ ns # "deactivating" THEN "failed" ELSE "none"
       ELSE "none"

\* What the start, stop and reload methods of the unit types do, run for a job of
\* type t on a unit in state s: -EAGAIN until the state is another one,
NotYet(t, s) ==
    \/ t = "verify" /\ s = "activating"
    \/ t = "start" /\ s \in {"maintenance", "deactivating", "activating"}
    \/ t = "reload" /\ s = "reloading"

\* nothing, because the unit is on its way already,
OnItsWay(t, s) ==
    \/ t = "start" /\ s = "activating"
    \/ t \in {"stop", "restart"} /\ s = "deactivating"

\* or a change to one of these states first.  A start that hits the start limit
\* puts even a stopping unit down.  A stop of a mount may look at the mount table
\* first and report the state once more, and is over if umount cannot be spawned.
MethodTargets(t, s) ==
    IF t = "start"
    THEN IF s \in {"inactive", "failed", "activating"}
         THEN {"activating", "active", "deactivating", "inactive", "failed"}
         ELSE IF s = "deactivating" THEN {"inactive", "failed"} ELSE {}
    ELSE IF t \in {"stop", "restart"}
    THEN IF IsInactiveOrFailed(s) THEN {} ELSE {s, "active", "deactivating", "inactive", "failed"}
    ELSE IF t = "reload" /\ s = "active" THEN UnitActiveState \ {"maintenance"} ELSE {}

-----------------------------------------------------------------------------
\* Merge two jobs of a unit in state s; unmergeable operands stay unmergeable.
MergeStep(a, b, s) ==
    IF "unmergeable" \in {a, b} THEN "unmergeable" ELSE job_type_merge_and_collapse(a, b, s)

\* "Merging is commutative, so imagine the matrix as symmetric" and "Merging is
\* associative!" (above job_merging_table), also with the collapse applied at
\* once: the order in which transaction_merge_jobs folds the jobs of a unit, and
\* in which later transactions merge into an installed one, does not matter.
MergeOrderIrrelevant ==
    \A a, b, c \in MergingTypes, s \in UnitActiveState :
        /\ MergeStep(a, b, s) = MergeStep(b, a, s)
        /\ MergeStep(MergeStep(a, b, s), c, s) = MergeStep(a, MergeStep(b, c, s), s)

\* "Mergeability is transitive!", and if what a and b merge to does not merge
\* with c then one of them does not: this is why delete_one_unmergeable_job, which
\* looks at pairs, finds a culprit whenever the fold over all jobs fails.
MergeabilityTransitive ==
    \A a, b, c \in MergingTypes, s \in UnitActiveState :
        /\ job_type_is_mergeable(a, b) /\ job_type_is_mergeable(b, c) => job_type_is_mergeable(a, c)
        /\ MergeStep(a, b, s) # "unmergeable" /\ MergeStep(MergeStep(a, b, s), c, s) = "unmergeable"
               => ~ job_type_is_mergeable(a, c) \/ ~ job_type_is_mergeable(b, c)

\* A merged job that the state of the unit makes redundant replaces none that
\* had work to do: transaction_drop_redundant, which runs once more after the
\* merge, never loses a request.
MergeKeepsWork ==
    \A a, b \in MergingTypes, s \in UnitActiveState :
        LET m == MergeStep(a, b, s)
        IN m # "unmergeable" /\ job_type_is_redundant(m, s)
               => job_type_is_redundant(a, s) /\ job_type_is_redundant(b, s)

=============================================================================
