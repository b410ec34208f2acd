---------------------------- MODULE Transaction -----------------------------
(***************************************************************************)
(* How PID 1 turns a request into the set of jobs it installs              *)
(* (src/core/transaction.c): the recursive collection of jobs along        *)
(* dependencies, and the steps of transaction_activate that drop, verify   *)
(* and merge them.  The walks over hash maps go in any order.              *)
(*                                                                         *)
(* A transaction has at most one job of each type for a unit, so a job is  *)
(* a pair <<unit, type>>.                                                  *)
(***************************************************************************)
EXTENDS JobTypes, DependencyAtoms, Sequences

CONSTANTS
    Units,
    Graphs,             \* sets of dependencies <<unit, type, unit>>, inverses included
    Following(_),       \* unit_following_set (device units only)
    Unloadable,         \* units masked, missing or broken, even after trying again
    Perpetual,          \* units that may be perpetual (-.slice, init.scope)
    Devices,            \* units that cannot be started or stopped by PID 1
    CanReload,
    IgnoreOnIsolate,
    Requests,           \* the [type, unit, mode] asked for
    States,             \* active states of units
    InstalledJobs,      \* what may be installed already: a type or "none" for each unit
    OrderIgnored        \* units whose installed job may have ignore_order

ASSUME TransactionAssumption ==
    /\ \A G \in Graphs : G \subseteq Units \X UnitDependency \X Units
    /\ \A u \in Units : Following(u) \subseteq Units
    /\ \A r \in Requests : r.type \in JobType /\ r.unit \in Units
    /\ States \subseteq UnitActiveState
    /\ InstalledJobs \subseteq [Units -> TransactionTypes \cup {"none"}]

VARIABLES
    deps, active, perpetual,
    installed, irreversible, ignore_order,  \* the installed jobs and their flags
    request,
    jobs,       \* tr->jobs
    ahead,      \* which job comes before which in the list of its unit
    links,      \* JobDependency objects
    anchor,     \* tr->anchor_job
    stack,      \* the calls of transaction_add_job_and_dependencies
    failing,    \* the topmost call is about to return an error
    matter,     \* jobs with matters_to_anchor
    phase

world == <<deps, active, perpetual, installed, irreversible, ignore_order, request>>
vars == <<world, jobs, ahead, links, anchor, stack, failing, matter, phase>>

\* The units u depends on with an atom.
Dep(u, atom) == {x[3] : x \in {y \in deps : y[1] = u /\ atom \in atom_map[y[2]]}}

Job == Units \X TransactionTypes

Of(u) == {j \in jobs : j[1] = u}
HasJobs(u) == Of(u) # {}

\* The entry of a unit in tr->jobs is the first job of its list.
First(j) == j \in jobs /\ \A k \in jobs : <<k, j>> \notin ahead
FirstType(u) == (CHOOSE j \in Of(u) : First(j))[2]

\* k is the transaction_next of j.
JustAhead(j, k) == <<j, k>> \in ahead /\ \A x \in jobs : ~ (<<j, x>> \in ahead /\ <<x, k>> \in ahead)

-----------------------------------------------------------------------------
(* Deleting jobs.                                                          *)

\* Whether the subject of the link cannot be without its object.
TakesAlong(l) == l.matters

\* j and the jobs that go along with it.
Dependents(j) ==
    LET closed == {S \in SUBSET jobs : \A l \in links : TakesAlong(l) /\ l.object \in S => l.subject \in S}
    IN {k \in jobs : \A S \in closed : j \in S => k \in S}

Drop(gone) ==
    /\ jobs' = jobs \ gone
    /\ ahead' = {p \in ahead : {p[1], p[2]} \cap gone = {}}
    /\ links' = {l \in links : {l.subject, l.object} \cap gone = {}}

\* Links the job is the object of are left behind.
Mut_delete_links(j, delete_dependencies) ==
    LET gone == IF delete_dependencies THEN Dependents(j) ELSE {j}
    IN /\ jobs' = jobs \ gone
       /\ ahead' = {p \in ahead : {p[1], p[2]} \cap gone = {}}
       /\ links' = {l \in links : l.subject \notin gone}

\* The unit's entry in tr->jobs keeps pointing to the job.
Mut_delete_head(j, delete_dependencies) ==
    /\ jobs' = IF First(j) THEN jobs ELSE jobs \ {j}
    /\ ahead' = {p \in ahead : p[2] # j}
    /\ links' = {l \in links : {l.subject, l.object} \cap {j} = {}}

\* transaction_delete_job with transaction_unlink_job.
transaction_delete_job(j, delete_dependencies) ==
    Drop(IF delete_dependencies THEN Dependents(j) ELSE {j})

-----------------------------------------------------------------------------
(* transaction_add_job_and_dependencies.                                   *)

\* Calls for the units in S, made at one place of the function; the places are
\* numbered in the order of the code.
ToDo(rank, type, S) == {[rank |-> rank, type |-> type, unit |-> d] : d \in S}

\* TRANSACTION_MATTERS and TRANSACTION_CONFLICTS are set.
Matters(rank) == rank \in {1, 3, 4, 6, 7, 9}
Conflicts(rank) == rank = 4

\* An error of the call makes the caller fail, too.
Fatal(rank) == rank \in {1, 3, 4, 6, 7}

Mut_BringsUp(t) == t \in {"start", "restart", "reload"}
BringsUp(t) == t \in {"start", "restart"}

\* TransactionAddFlags of the call for the anchor, which handles PropagatesStopTo=, too.
AnchorFlags ==
    (IF request.mode \in {"ignore-dependencies", "ignore-requirements"} THEN {"IGNORE_REQUIREMENTS"} ELSE {})
    \cup (IF request.mode = "restart-dependencies" THEN {"PROPAGATE_START_AS_RESTART"} ELSE {})
    \cup {"PROCESS_PROPAGATE_STOP_GRACEFUL"}

\* The recursive calls to make for a new job, in the order of their ranks;
\* the type of those of rank 7 is settled when their turn comes.
Calls(u, t, flags) ==
    LET down == \/ t \in {"restart", "stop"}
                \/ t = "start" /\ "PROPAGATE_START_AS_RESTART" \in flags
        restarting(S) == {d \in S : job_type_collapse("try-restart", active[d]) # "nop"}
        reloading(S) == {d \in S : job_type_collapse("try-reload", active[d]) # "nop"}
    IN IF "IGNORE_REQUIREMENTS" \in flags \/ t = "nop"
       THEN {}
       ELSE ToDo(0, t, Following(u))
            \cup (IF ~ BringsUp(t) THEN {}
                  ELSE ToDo(1, "start", Dep(u, "PULL_IN_START"))
                       \cup ToDo(2, "start", Dep(u, "PULL_IN_START_IGNORED"))
                       \cup ToDo(3, "verify", Dep(u, "PULL_IN_VERIFY"))
                       \cup ToDo(4, "stop", Dep(u, "PULL_IN_STOP"))
                       \cup ToDo(5, "stop", Dep(u, "PULL_IN_STOP_IGNORED")))
            \cup (IF ~ down THEN {}
                  ELSE (IF t = "stop" THEN ToDo(6, "stop", Dep(u, "PROPAGATE_STOP"))
                        ELSE ToDo(6, "restart", restarting(Dep(u, "PROPAGATE_RESTART"))))
                       \cup (IF "PROCESS_PROPAGATE_STOP_GRACEFUL" \notin flags THEN {}
                             ELSE ToDo(7, "stop", Dep(u, "PROPAGATE_STOP_GRACEFUL"))))
            \cup (IF t # "reload" THEN {}
                  ELSE ToDo(8, "reload", reloading(Dep(u, "PropagatesReloadTo"))))

job_type_propagate_stop_graceful(u) ==
    LET types == {j[2] : j \in Of(u)}
    IN IF types \cap {"stop", "restart"} # {} THEN "nop"
       ELSE IF "start" \in types THEN "restart" ELSE "stop"

shall_stop_on_isolate(u) == u \notin IgnoreOnIsolate /\ ~ HasJobs(u)

\* transaction_add_isolate_jobs, transaction_add_triggering_jobs: u needs no job.
Skip(u) ==
    \/ IsInactiveOrFailed(active[u]) /\ installed[u] = "none"
    \/ HasJobs(u)
    \/ request.mode = "isolate" /\ \/ u \in IgnoreOnIsolate
                                   \/ \E o \in Dep(u, "TriggeredBy") : ~ shall_stop_on_isolate(o)

unit_job_is_applicable(u, t) ==
    /\ t \in {"stop", "restart"} => u \notin perpetual
    /\ t = "restart" => u \notin Devices
    /\ t = "reload" => u \in CanReload

CannotLoad(u, t) == t # "stop" /\ u \in Unloadable

\* A request that is not refused right away; the lowest frame stands for
\* manager_add_job itself, which adds jobs to stop units at the end.
manager_add_job(r) ==
    LET t == job_type_collapse(r.type, active[r.unit])
        j == <<r.unit, t>>
        extra == IF r.mode = "isolate" THEN Units
                 ELSE IF r.mode = "triggering" THEN Dep(r.unit, "TriggeredBy") ELSE {}
    IN /\ phase = "idle"
       /\ r.mode \in {"isolate", "restart-dependencies"} => r.type = "start"  \* and unit->allow_isolate
       /\ r.mode = "triggering" => r.type = "stop"
       /\ ~ CannotLoad(r.unit, t) /\ unit_job_is_applicable(r.unit, t)
       /\ anchor' = j
       /\ jobs' = {j}
       /\ stack' = <<[job |-> j, todo |-> Calls(r.unit, t, AnchorFlags), cur |-> 0],
                     [job |-> j, todo |-> ToDo(9, "stop", extra), cur |-> 6]>>
       /\ phase' = "build"
       /\ UNCHANGED <<world, ahead, links, failing, matter>>

\* transaction_add_one_job: a new job is the first of its unit.
transaction_add_one_job(j) ==
    /\ jobs' = jobs \cup {j}
    /\ ahead' = ahead \cup ({j} \X Of(j[1]))

\* One recursive call of the topmost one.
AddDependency ==
    /\ phase = "build" /\ stack # <<>> /\ ~ failing
    /\ \E item \in Head(stack).todo :
         LET f == Head(stack)
             u == item.unit
             t == IF item.rank = 7 THEN job_type_propagate_stop_graceful(u) ELSE item.type
             caller == [f EXCEPT !.todo = @ \ {item}, !.cur = item.rank]
             flags == IF item.rank = 7 THEN {"PROCESS_PROPAGATE_STOP_GRACEFUL"} ELSE {}
             link == [subject |-> f.job, object |-> <<u, t>>,
                      matters |-> Matters(item.rank), conflicts |-> Conflicts(item.rank)]
         IN /\ \A i \in f.todo : item.rank <= i.rank
            /\ IF \/ item.rank = 7 /\ t = "nop"
                  \/ item.rank = 9 /\ Skip(u)
                  \/ ~ CannotLoad(u, t) /\ ~ unit_job_is_applicable(u, t)
                  \/ CannotLoad(u, t) /\ ~ Fatal(item.rank)
               THEN /\ stack' = [stack EXCEPT ![1] = caller]
                    /\ UNCHANGED <<jobs, ahead, links, failing>>
               ELSE IF CannotLoad(u, t)
               THEN /\ stack' = [stack EXCEPT ![1] = caller] /\ failing' = TRUE
                    /\ UNCHANGED <<jobs, ahead, links>>
               ELSE /\ links' = links \cup {link}
                    /\ IF <<u, t>> \in jobs
                       THEN /\ stack' = [stack EXCEPT ![1] = caller]
                            /\ UNCHANGED <<jobs, ahead>>
                       ELSE /\ transaction_add_one_job(<<u, t>>)
                            /\ stack' = <<[job |-> <<u, t>>, todo |-> Calls(u, t, flags), cur |-> 0]>>
                                         \o [stack EXCEPT ![1] = caller]
                    /\ UNCHANGED failing
    /\ UNCHANGED <<world, anchor, matter, phase>>

Mut_DropsJob(f) == FALSE

\* Whether the failing call goes to its "fail" label.
DropsJob(f) == f.cur \in 1..5

\* The topmost call returns; if it fails it may drop its job.
Return ==
    /\ phase = "build" /\ stack # <<>>
    /\ failing \/ Head(stack).todo = {}
    /\ stack' = Tail(stack)
    /\ IF failing /\ DropsJob(Head(stack))
       THEN transaction_delete_job(Head(stack).job, FALSE)
       ELSE UNCHANGED <<jobs, ahead, links>>
    /\ failing' = (failing /\ (Tail(stack) # <<>> => Fatal(Head(Tail(stack)).cur)))
    /\ phase' = IF Tail(stack) # <<>> THEN phase
                ELSE IF failing THEN "failed" ELSE "mark"
    /\ UNCHANGED <<world, anchor, matter>>

-----------------------------------------------------------------------------
(* transaction_activate.                                                   *)

Go(next) == phase' = next
Keep == UNCHANGED <<jobs, ahead, links>>
Rest == UNCHANGED <<world, stack, failing>>

transaction_find_jobs_that_matter_to_anchor ==
    LET closed == {S \in SUBSET jobs : \A l \in links : l.matters /\ l.subject \in S => l.object \in S}
    IN /\ phase = "mark"
       /\ matter' = {j \in jobs : \A S \in closed : anchor \in S => j \in S}
       /\ Go("minimize") /\ Keep /\ Rest /\ UNCHANGED anchor

ChangesExisting(j) == installed[j[1]] # "none" /\ job_type_is_conflicting(j[2], installed[j[1]])

transaction_minimize_impact ==
    LET impact == {j \in jobs \ matter :
                      \/ j[2] = "stop" /\ IsActiveOrActivating(active[j[1]])
                      \/ ChangesExisting(j)}
    IN /\ phase = "minimize"
       /\ IF request.mode = "fail" /\ impact # {}
          THEN (\E j \in impact : transaction_delete_job(j, TRUE)) /\ Go(phase)
          ELSE Keep /\ Go("redundant")
       /\ Rest /\ UNCHANGED <<anchor, matter>>

\* An installed job that conflicts with one to stop (to start) the unit is not noticed.
Mut_Needed_stop(j) == j = anchor \/ ~ job_type_is_redundant(j[2], active[j[1]]) \/ (j[2] # "stop" /\ ChangesExisting(j))
Mut_Needed_start(j) == j = anchor \/ ~ job_type_is_redundant(j[2], active[j[1]]) \/ (j[2] # "start" /\ ChangesExisting(j))

Needed(j) == j = anchor \/ ~ job_type_is_redundant(j[2], active[j[1]]) \/ ChangesExisting(j)

transaction_drop_redundant(now, next) ==
    LET noops == {u \in Units : HasJobs(u) /\ \A j \in Of(u) : ~ Needed(j)}
    IN /\ phase = now
       /\ IF noops # {}
          THEN (\E u \in noops : \E j \in Of(u) : First(j) /\ transaction_delete_job(j, FALSE)) /\ Go(phase)
          ELSE Keep /\ Go(next)
       /\ Rest /\ UNCHANGED <<anchor, matter>>

\* Only the first job of each unit is looked at.
transaction_collect_garbage(now, next) ==
    LET garbage == {j \in jobs \ {anchor} : First(j) /\ \A l \in links : l.object # j}
    IN /\ phase = now
       /\ IF request.mode # "isolate" /\ garbage # {}
          THEN (\E j \in garbage : transaction_delete_job(j, TRUE)) /\ Go(phase)
          ELSE Keep /\ Go(next)
       /\ Rest /\ UNCHANGED <<anchor, matter>>

\* The job of the unit in the order: the first of the transaction, or the
\* installed one.
OrderType(u) == IF HasJobs(u) THEN FirstType(u) ELSE installed[u]
Ordered(u) == /\ OrderType(u) \notin {"none", "nop"}
              /\ IF HasJobs(u) THEN request.mode # "ignore-dependencies" ELSE u \notin ignore_order

RunsBefore(u, v) ==
    /\ Ordered(u) /\ Ordered(v)
    /\ \/ v \in Dep(u, "Before") /\ job_compare_before(OrderType(u), OrderType(v)) < 0
       \/ v \in Dep(u, "After") /\ job_compare_after(OrderType(u), OrderType(v)) < 0

\* The sets of units some cycle of the order goes through.
CycleSets ==
    {S \in (SUBSET Units) \ {{}} :
        \E succ \in [S -> S] :
            /\ \A u \in S : RunsBefore(u, succ[u])
            /\ \A R \in (SUBSET S) \ {{}, S} : \E u \in R : succ[u] \notin R}

\* u leads into S along the order.
LeadsTo(u, S) ==
    \E R \in SUBSET Units : /\ u \in R /\ R \cap S # {}
                            /\ \A Q \in SUBSET R : u \in Q /\ Q # R => \E x \in Q, y \in R \ Q : RunsBefore(x, y)

Mut_Unbreakable == Keep /\ Go("conflicts")

\* BUS_ERROR_TRANSACTION_ORDER_IS_CYCLIC.
Unbreakable == Keep /\ Go("failed")

\* The walk finds some cycle, if there is one, and drops a unit of it that the
\* anchor can do without.
transaction_verify_order ==
    LET found == {S \in CycleSets : \E u \in Units : HasJobs(u) /\ LeadsTo(u, S)}
        droppable(S) == {u \in S : HasJobs(u) /\ Of(u) \cap matter = {}}
    IN /\ phase = "order"
       /\ \/ found = {} /\ Keep /\ Go("conflicts")
          \/ \E S \in found : \E u \in droppable(S) :
                Drop(UNION {Dependents(j) : j \in Of(u)}) /\ Go("garbage")
          \/ \E S \in found : droppable(S) = {} /\ Unbreakable
       /\ Rest /\ UNCHANGED <<anchor, matter>>

-----------------------------------------------------------------------------
(* Merging (transaction_merge_jobs).                                       *)

\* What the jobs of the unit merge to, up to each of them.
MergedUpTo(u) ==
    CHOOSE f \in [Of(u) -> TransactionTypes \cup {"unmergeable"}] :
        \A k \in Of(u) : IF First(k) THEN f[k] = k[2]
                         ELSE \A j \in Of(u) : JustAhead(j, k) => f[k] = MergeStep(f[j], k[2], active[u])

Torn(u) == \E k \in Of(u) : MergedUpTo(u)[k] = "unmergeable"

job_is_conflicted_by(j) == \E l \in links : l.object = j /\ l.conflicts

\* delete_one_unmergeable_job: which of two jobs that conflict goes, if any.
delete_one_unmergeable_job(j, k) ==
    IF j \notin matter /\ k \notin matter
    THEN IF j[2] = "stop" THEN (IF job_is_conflicted_by(j) THEN {k} ELSE {j})
         ELSE IF k[2] = "stop" THEN (IF job_is_conflicted_by(k) THEN {j} ELSE {k})
         ELSE {j}
    ELSE {j, k} \ matter

\* The first two jobs of the unit, in list order, that do not merge.
FirstConflict(u, j, k) ==
    LET conflicts == {p \in ahead : p[1][1] = u /\ ~ job_type_is_mergeable(p[1][2], p[2][2])}
    IN /\ <<j, k>> \in conflicts
       /\ \A p \in conflicts : <<p[1], j>> \notin ahead /\ (p[1] = j => <<p[2], k>> \notin ahead)

\* First step: drop a job that stands in the way.
DropConflicting ==
    LET torn == {u \in Units : HasJobs(u) /\ Torn(u)}
    IN /\ phase = "conflicts"
       /\ \/ torn = {} /\ Keep /\ Go("merge")
          \/ \E u \in torn : \E j, k \in Of(u) :
                /\ FirstConflict(u, j, k)
                /\ IF delete_one_unmergeable_job(j, k) = {} THEN Keep /\ Go("failed")
                   ELSE /\ \E x \in delete_one_unmergeable_job(j, k) : transaction_delete_job(x, TRUE)
                        /\ Go("garbage again")
       /\ Rest /\ UNCHANGED <<anchor, matter>>

\* The two jobs become one, which takes over the links of both.  It has got its
\* type when this was the last one of the unit.
transaction_merge_and_delete_job(j, k) ==
    LET t == job_type_merge_and_collapse(j[2], k[2], active[j[1]])
        New(x) == IF x \in {j, k} THEN <<j[1], t>> ELSE x
    IN IF t = "unmergeable" THEN Keep /\ Go("aborted") /\ UNCHANGED <<anchor, matter>>
       ELSE /\ jobs' = {New(x) : x \in jobs}
            /\ ahead' = {<<New(p[1]), New(p[2])>> : p \in ahead \ {<<j, k>>}}
            /\ links' = {[l EXCEPT !.subject = New(@), !.object = New(@)] : l \in links}
            /\ anchor' = New(anchor)
            /\ matter' = {New(x) : x \in matter}
            /\ Go(phase)

\* Second step: one job per unit.
MergeJobs ==
    /\ phase = "merge"
    /\ \/ ahead = {} /\ Keep /\ Go("redundant again") /\ UNCHANGED <<anchor, matter>>
       \/ \E j, k \in jobs : First(j) /\ JustAhead(j, k) /\ transaction_merge_and_delete_job(j, k)
    /\ Rest

transaction_is_destructive ==
    /\ phase = "check"
    /\ Go(IF \E j \in jobs : /\ request.mode = "fail" \/ j[1] \in irreversible
                             /\ ChangesExisting(j)
          THEN "failed" ELSE "apply")
    /\ Keep /\ Rest /\ UNCHANGED <<anchor, matter>>

-----------------------------------------------------------------------------
Init ==
    /\ deps \in Graphs
    /\ active \in [Units -> States]
    /\ installed \in InstalledJobs
    /\ perpetual \in SUBSET {u \in Perpetual : active[u] = "active"}
    /\ \A u \in Units : installed[u] # "none" => unit_job_is_applicable(u, installed[u])
    /\ irreversible \in SUBSET {u \in Units : installed[u] = "stop"}
    /\ ignore_order \in SUBSET {u \in OrderIgnored : installed[u] # "none"}
    /\ request \in Requests
    /\ jobs = {} /\ ahead = {} /\ links = {} /\ anchor = <<request.unit, "nop">>
    /\ stack = <<>> /\ failing = FALSE /\ matter = {} /\ phase = "idle"

Next ==
    \/ manager_add_job(request) \/ AddDependency \/ Return
    \/ transaction_find_jobs_that_matter_to_anchor \/ transaction_minimize_impact
    \/ transaction_drop_redundant("redundant", "garbage")
    \/ transaction_collect_garbage("garbage", "order")
    \/ transaction_verify_order
    \/ DropConflicting \/ transaction_collect_garbage("garbage again", "conflicts")
    \/ MergeJobs
    \/ transaction_drop_redundant("redundant again", "check")
    \/ transaction_is_destructive

Spec == Init /\ [][Next]_vars /\ WF_vars(Next)

-----------------------------------------------------------------------------
\* The job the unit gets.
Final(u) == IF HasJobs(u) THEN FirstType(u) ELSE "none"

\* No C pointer outlives its job: both ends of each link, the neighbours in each
\* list, the job of each call under way and, unless the request fails, the anchor
\* are in the transaction, however jobs are dropped in cascades from the middle of it.
NoStalePointer ==
    /\ \A l \in links : {l.subject, l.object} \subseteq jobs
    /\ \A p \in ahead : {p[1], p[2]} \subseteq jobs
    /\ \A i \in 1 .. Len(stack) - 1 : stack[i].job \in jobs
    /\ phase \notin {"idle", "failed"} /\ ~ failing => anchor \in jobs

\* What is about to be applied starts no unit without the units it requires:
\* each of them is up, or gets a job that brings or keeps it up.
RequiredStarted ==
    phase = "apply" /\ request.mode \notin {"ignore-dependencies", "ignore-requirements"} =>
        \A u \in Units : Final(u) \in {"start", "restart"} =>
            \A d \in Dep(u, "PULL_IN_START") :
                \/ Final(d) \in {"start", "restart", "reload"}
                \/ Final(d) = "none" /\ IsActiveOrReloading(active[d]) /\ installed[d] # "stop"

\* Some unit requires another one, whose start leads to a start of the unit.
Starts(u) == IF u \in Unloadable THEN {}
             ELSE Following(u) \cup Dep(u, "PULL_IN_START") \cup Dep(u, "PULL_IN_START_IGNORED")
StartLoop ==
    \E u \in Units \ Unloadable : \E d \in Dep(u, "PULL_IN_START") :
        \A R \in SUBSET Units : d \in R /\ (\A v \in R : Starts(v) \subseteq R) => u \in R

\* Jobs dropped on the way (as redundant, to break a cycle or a conflict, or
\* because they cannot be added) take the jobs that need them along.  Not so a job
\* that transaction_add_job_and_dependencies() drops again: who came to need it in the
\* meantime, in a loop, stays.
RequirementsMet == Unloadable = {} \/ ~ StartLoop => RequiredStarted

\* ... and no unit along with one it conflicts with: that one is down and not
\* about to be started, or gets a stop job.
ConflictsStopped ==
    phase = "apply" /\ request.mode \notin {"ignore-dependencies", "ignore-requirements"} =>
        \A u \in Units : Final(u) \in {"start", "restart"} =>
            \A d \in Dep(u, "PULL_IN_STOP") :
                \/ Final(d) = "stop"
                \/ Final(d) = "none" /\ IsInactiveOrFailed(active[d]) /\ installed[d] \in {"none", "stop", "nop"}
                \/ d \in perpetual

\* The jobs about to be applied can be put in an order together with those
\* installed already: "verify order makes sense and correct cycles if necessary
\* and possible".
OrderVerified == phase = "apply" => \A S \in CycleSets : \A u \in S : ~ HasJobs(u)

\* The loops of transaction_activate come to an end.
Settles == phase = "build" ~> phase \in {"apply", "failed"}

=============================================================================
