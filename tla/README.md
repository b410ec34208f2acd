# The units and jobs of systemd's PID 1 in TLA+

systemd's service manager (`src/core/`) turns requests ("start this unit")
into *transactions*, transactions into *jobs*, and jobs into state changes of
*units*, which in turn end, fail or create other jobs.  It is single threaded,
yet hard to test: handlers call each other recursively in the middle of loops
over hash maps, objects are merged, cancelled and freed from deep inside those
calls, work is handed on through half a dozen queues that somebody must
remember to put things into, and the processes, timers, kernel tables and
clients around it act in any order.  This project models that core, checks it
with TLC and proves its central properties with TLAPS.

Paths are relative to the source tree (`job.c` is `src/core/job.c`).  Which
definition stands for which lines is in the "map" of `PROJECT.json`.

## 1. The system and what is modelled

| Part | State | Operations | Modelled in |
|---|---|---|---|
| Job types (`job.c`, `job.h`) | none | merge, collapse, redundancy, comparison | `JobTypes` |
| Dependency types (`unit-dependency-atom.c`) | tables | decomposition into atoms, inverses | `DependencyAtoms` |
| Dependency hash maps (`unit.c`) | origin and destination masks per pair of units | add, remove by mask, merge units, free unit | `DependencyStore` |
| Transactions (`transaction.c`) | jobs per unit, links between them, anchor | collect recursively, minimize impact, drop redundant, collect garbage, verify order, merge, refuse | `Transaction` |
| Job engine (`job.c`, `manager.c`, `dbus-job.c`) | `u->job`, state, flags, timer, run/gc/D-Bus queues, tracked clients | install, merge late, run, finish, time out, cancel, collect, reload | `JobEngine` |
| Unit state propagation (`unit.c`) | active state of units | `unit_notify`, retroactive jobs, `OnFailure=`, `OnSuccess=`, triggers | `JobEngine` |
| Automatic queues (`unit.c`, `manager.c`) | three queues, rate limits | submit, dispatch, requeue | `JobEngine` |
| Service units (`service.c`) | state, main and control process, timer, watchdog, restart | jobs, SIGCHLD, timeouts, `sd_notify`, PID files, cgroup and OOM events, daemon-reload | `ServiceSteps`, `Service` |
| Mount units (`mount.c`) | state, helper process, table flags | jobs, SIGCHLD, timeouts, mountinfo, daemon-reload | `Mount` |
| What the engine expects of a unit | active state and job | change, be run, be cancelled | `UnitContract` |
| Collector of units (`manager.c`, `unit.c`) | gc queue, cleanup queue, marks | sweep, free, load, merge, release | `UnitGC` |
| Other unit types | | | only as units that trigger others or have no methods |
| sd-event | sources, rate limits | dispatch | from outside: one event at a time |
| Unit file parsing, process execution, cgroups, other daemons, tools | | | not modelled (section 7) |

How they interact.  A client or a handler calls `manager_add_job`;
`Transaction` starts there and ends where `transaction_apply` may begin.
`JobEngine` begins there: it installs the jobs, queues them, runs them in an
order given by `After=`, and lets changes of unit state end them.  Its units
are abstract; `UnitContract` says what it takes them to do, and `Service` and
`Mount` are shown to implement that.  All look at dependencies through atoms
(`DependencyAtoms`) and rely on every dependency being stored at both ends,
which `DependencyStore` is about.  `UnitGC` decides when a unit object may be
freed at all.

What makes it hard, and what the properties are about (the "hazards" of
`PROJECT.json` name the lines):

* *Reentrancy.*  `job_finish_and_invalidate` fails dependent jobs (itself),
  starts `OnFailure=` units (`manager_add_job`, `job_install`, and so itself
  again) and notifies triggering units (`unit_notify`, and so all of it
  again), all in the middle of its caller's loop.
* *Wakeups.*  A waiting job, a garbage unit, a condition over several units is
  only looked at again when somebody queues it.
* *Things that change under way.*  A waiting or running job absorbs others; a
  RESTART turns into a START in place; every `service_enter_*()` that fails
  goes on to the next one.
* *Deletion in cascades*, in transactions (jobs that need the deleted one), in
  hash maps (both ends of each entry) and in the graph of references.
* *Events in any order*: exits of several processes, an empty cgroup, messages,
  timeouts, and the kernel's mount table against the exit of `mount`.
* *daemon-reload* at any time: what is not serialized has to be rebuilt.

## 2. Modules

**`JobTypes`** -- the merging table and the other functions on types, as
operators; also what the methods of unit types may do when a job is run
(`MethodTargets`, `NotYet`, `OnItsWay`), shared by `JobEngine` and
`UnitContract`.

**`DependencyAtoms`** -- `atom_map` and `inverse_table`, for all 31 types.

**`DependencyStore`** -- the two bit masks of an entry are sets of tuples:
`<<u, d, v, m>>` in `owned` is a bit of `origin_mask` in u's map for v, in
`borne` one of `destination_mask`.  An entry without bits does not exist,
as in `unit_update_dependency_mask`.  One action per operation:
`unit_add_dependency` (with its refusals), `unit_remove_dependencies`,
`unit_merge` (with `unit_merge_dependencies` and the NOP test of
`unit_per_dependency_type_hashmap_update` exactly as written), `unit_free`
(which only visits the units it has entries for), `unit_load`.

**`Transaction`** -- a job is a pair of unit and type, because a transaction
has at most one of a type for a unit.  `jobs` is `tr->jobs` with all the lists
hanging off it, `ahead` which job comes before which in the list of its unit
(`transaction_next`), `links` the `JobDependency` objects.  The recursion of
`transaction_add_job_and_dependencies` is an explicit `stack`: a frame holds
the recursive calls still to be made, ranked in the order of the code
(`Calls`), and the rank under way, which says whether an error is passed on
(`Fatal`) and whether the job is deleted again (`DropsJob`, the `fail` label).
Every step of `transaction_activate` is an action, and its loops are actions
that repeat.  Hash maps are walked in any order.  The depth first search for
cycles is modelled by what it finds: some cycle that is reachable from a job of
the transaction (`CycleSets`, `LeadsTo`).  `transaction_merge_and_delete_job`
merges a list from its head, two jobs at a time.

**`JobEngine`** -- the installed jobs and everything that happens to them.
`calls` is the C stack.  A frame is what a function in progress has left to
do:

| Frame | Code | Contents |
|---|---|---|
| finish | `job_finish_and_invalidate` after the job is freed | jobs to fail, jobs to add, units to notify, then the `finish` label |
| notify | `unit_notify` after `unit_process_job` | jobs to add, units to notify, then the queues |
| perform | `job_run_and_invalidate` once the job is RUNNING | the unit |
| apply | `transaction_apply` | jobs to flush, jobs to install |
| clear | `manager_clear_jobs` | |

Handler steps work on the topmost frame; events (requests, state changes,
timers, cancellation, queues, reload) happen only when the stack is empty.
What a transaction may come to is a parameter, `TransactionJobs`; the run
`engine_outcome` ties it to `Transaction`.

**`UnitJob`** -- what `unit_notify`, `job_install` and `-EAGAIN` do to the one
job of a unit, seen from the unit.

**`ServiceSteps`**, **`Service`** -- `service.c`.  The Service object is a
record; each `service_enter_*()` is an operator from an object to the set of
objects it may leave behind, since forking, killing and arming a timer may
fail.  Such a function calls the next one last if at all; that call is
`svc.next`, and `Continue` makes it, so that a chain of calls is a sequence of
steps during which no event is dispatched.  The processes of the control group
(`live`, `zombie`, `foreign`) fork and exit as they like.  `service_spawn()` may
fail before the timer is armed, after it, or after the fork, in which case the
process is there and PID 1 does not know it.  daemon-reload goes by what is
serialized and read back.  A failed assertion sets `aborted`.

**`Mount`** -- `mount.c`: the unit, the helper, and the kernel's table
(`stacked`, how many mounts are on top of each other; `event`, whether the
table changed since it was read).  daemon-reload sets the timer to the last
change of state plus the timeout, which is later than it was if the unit has
been notified since (`moved`).

**`UnitContract`** -- the abstract unit: it reports every change of its active
state with `unit_notify()`, its job ends by those reports alone unless it is
cancelled or refused, and running a job leads where `JobTypes` says.
**`ServiceContract`** and **`MountContract`** hold the refinement mappings.

**`UnitGC`** -- `unit_gc_sweep` as a stack of frames, its labels as distances
of `gc_marker`, the queues in the order `manager_loop` empties them, and what
makes units needed or not: loading, merging, use, release, dropped references,
and jobs, which keep their unit and the units it is the `OnSuccess=` or
`OnFailure=` unit of.

**`Scenarios`** -- the dependencies the instances declare, and the predicate
`Outcome` that both modules' instances share.  **`MC*`** instantiate the
modules for TLC; **`*_proof`** hold the theorems.  `Mut_*` operators are
variants of a definition with a plausible mistake, used to make sure that each
property can fail.

## 3. What the runs check

Passing runs, with two workers on two cores:

| Run | Instance | Properties | States, time |
|---|---|---|---|
| `job_engine` | a mount on a device with timeouts, triggered by an automount unit; requests, cancellations, changes, bus clients, the mountinfo rate limit and reloads at any time | `TypeOK`, `NoDanglingJob`, `TimersArmed`, `RunningConsistent`, `NoLostWakeup`, `NoLostGc`, `NoOrderDeadlock` | 2,883,888, 1.6 min |
| `job_liveness` | a service, its socket, and a unit for its failure and success that conflicts with it, all seven unit states | `InstallAssertion`, `JobsEnd`, `HandlersReturn` | 321,861, 2.2 min |
| `dependency_store` | two services that may be aliases and a device, two reasons, three additions | `Mirror`, `NoDangling`, `OnlyOwnBitsDropped` | 143,324, 1.4 min |
| `transaction` | every choice of up to two dependencies of seven types among three units, one of which cannot be loaded, two device aliases; six requests | `NoStalePointer`, `RequirementsMet`, `Settles` | 613,027, 1 min |
| `engine_outcome` | ten sets of dependencies, those of the `JobEngine` instances included; requests in seven modes, a job installed, a unit that may be perpetual | `EngineOutcome`, `RequirementsMet`, `ConflictsStopped`, `OrderVerified` | 2,907,644, 1.9 min |
| `service` | eight unit files, one for each type and their special features | `TypeOK`, `NoAssertion`, `TimeoutArmed`, `WatchdogArmed`, `StopSticks`, `ImplementsContract`, `StartingEnds`, `StoppingEnds` | 978,550, 3.1 min |
| `mount` | four unit files, up to two mounts on top of each other | `TypeOK`, `NoAssertion`, `MirrorsKernel`, `TimeoutArmed`, `ImplementsContract`, `ExitSeesTable`, `OperationEnds` | 498,506, 2.1 min |
| `unit_gc` | three units, any references, one of them possibly the `OnSuccess=` or `OnFailure=` of another, a marker of five bits about to wrap | `NoUsedCollected`, `NoLeak`, `CollectorReturns` | 1,138,329, 1.9 min |

In words:

* A waiting job is never forgotten (`NoLostWakeup`), nor is a device job that
  should be collected (`NoLostGc`); nothing names a freed job
  (`NoDanglingJob`); timers outlive merges, restarts and reloads
  (`TimersArmed`); a running job's unit has not arrived yet
  (`RunningConsistent`), which is what `job_type_allows_late_merge` builds on.
* Jobs do not all wait for each other (`NoOrderDeadlock`) and all end
  (`JobsEnd`); handlers return (`HandlersReturn`), and none installs a job
  behind the back of `job_install` (`InstallAssertion`).
* What a transaction applies starts no unit without what it requires
  (`RequirementsMet`) nor beside what it conflicts with (`ConflictsStopped`),
  whatever was dropped on the way; it has an order (`OrderVerified`), and
  computing it ends (`Settles`) without touching deleted jobs
  (`NoStalePointer`).  It is among the job sets `JobEngine` starts from
  (`EngineOutcome`).
* Both ends of a dependency agree (`Mirror`) and name living units
  (`NoDangling`); removing what one source declared leaves the rest alone
  (`OnlyOwnBitsDropped`).
* A service that is starting, reloading or stopping has its timer, one that is
  up its watchdog (`TimeoutArmed`, `WatchdogArmed`), so starting and stopping
  end (`StartingEnds`, `StoppingEnds`) whatever its processes do, and whichever
  of forking, watching and killing them fails; what was
  stopped stays down (`StopSticks`); no assertion fails (`NoAssertion`).
* A mount unit ends up as the kernel has it (`MirrorsKernel`,
  `ExitSeesTable`), and its operations end (`OperationEnds`) unless
  daemon-reloads that follow changes of the table put off their deadline
  again and again.
* Services and mounts are units as the job engine takes them to be
  (`ImplementsContract`, a refinement of `UnitContract`).
* The collector frees no unit that is needed (`NoUsedCollected`) and returns
  (`CollectorReturns`).  Whenever PID 1 is idle, a unit is left behind only if
  references lead to it from one that `unit_may_gc()` refuses, or from one that
  a job of its `OnSuccess=` or `OnFailure=` unit was the last to keep
  (`NoLeak`).

### Disagreements between code and documentation

Four runs end in a counterexample on purpose: the property states what a
comment, an assertion or the manual says, and the code does something else.
The quotations are in `PROJECT.json`.

* `install_assertion`: cancelling a service's waiting start job notifies its
  socket, which may stop; with `BindsTo=` on the socket this installs a stop
  job on the service, and `assert(!*pj)` in `job_install` fails.  `path.c`
  describes this hazard and avoids it.  `job_liveness` shows the complement:
  with `Requires=` instead of `BindsTo=` the assertion is safe.
* `merge_masks`: the test for "nothing to add" in
  `unit_per_dependency_type_hashmap_update` is the wrong way round, so merging
  units loses reasons for dependencies.  `Mirror` holds nevertheless: the loss
  is the same at both ends, see section 5.
* `stop_timeout`: a oneshot service that is being stopped runs its next
  `ExecStart=` command when the current one exits cleanly, and that arms the
  start timeout, which is infinite by default.
* `requirement_loop`: a job that cannot get its requirements is dropped by the
  call that added it, but jobs below it that came to require it in a loop stay,
  and are applied without it.

### Other things met while modelling

These follow from the code that was modelled.  None of them is a run of its
own; where a property has a hypothesis, they are why.

* The order is verified before jobs merge and while a RESTART still counts as a
  stop; two services ordered after each other can be restarted into a deadlock
  that lasts until a job timeout or a cancellation.  Hence the hypotheses of
  `NoOrderDeadlockIfAcyclic` and `OrderVerifiedIfOneWay`.
* A job that ends without a state change queues its own unit for the automatic
  queues, but not the units whose conditions it was part of (`BindsTo=` on a
  skipped unit, `Upholds=`).
* A unit that is only kept because its `OnSuccess=`/`OnFailure=` unit has a job
  is not queued for collection when that job ends (`job.c:178` queues the unit
  of the job), and stays with what it refers to until something else queues it.
  The manual has an inactive unit "unloaded if it is in the inactive state and
  is not referenced by clients, jobs or other units" (`man/systemd.unit.xml`,
  `CollectMode=`).  `overlooked` in `UnitGC` is the exact set, and `NoLeak`
  excludes it.
* `service_serialize()` writes `exec-fd-hot`, and nothing reads it back: after a
  daemon-reload at that moment the `execve()` of a `Type=exec` process goes
  unnoticed, and the start lasts until its timeout or the end of the process.
* A daemon-reload while a mount is in progress counts the timeout from the last
  `unit_notify()` (`mount.c:807`), and every change of the table that concerns
  the unit is one.  `OperationEnds` has the exception.
* `Restart=always` restarts a stopped service if cleaning it takes longer than
  `TimeoutCleanSec=` (`service.c:4262`).  A service asking for its watchdog to
  bite (`WATCHDOG=trigger`) is handled in any state, dead ones included, and
  may so be restarted as well.  `KeepsDown` in `Service_proof` excludes both.
* `Type=forking` with `PIDFile=` and without `ExecStartPost=` comes up, when the
  file is late, without passing `service_enter_start_post()`, and has no
  watchdog.  `Watchable` in `ServiceSteps_proof` excludes it.
* `Type=idle` is active while it starts, so that a reload job meets
  `service_reload()` in a state its assertion excludes (`service.c:2828`).
  `Type=exec` with its pipe still open may reach `service_spawn_internal()`
  again, and its `assert(!s->exec_fd_event_source)`, for `ExecStopPost=`, by way
  of a failing kill or of a process that cannot be watched once it is forked
  (`service.c:1813`).  `Supported` in `ServiceSteps_proof`
  excludes both, and neither is among the unit files of the `service` run.
* When the restart timer fires while a stop job waits, the restart is lost
  (`service.c:2720`); the stop then ends it anyway.
* `ExecStop=` with several commands that cannot be spawned starts stopping
  over; a service that keeps sending `WATCHDOG=` messages, and clients that
  stop it anew after each SIGABRT, prolong it.  `StoppingEnds` excludes them.
* `service_run_next_control()` arms `TimeoutStopSec=` also in `stop-watchdog` and
  `final-watchdog`, where `TimeoutAbortSec=` was armed before.  `OneTimeout` in
  `Service_proof` therefore asks for the former if the latter is set.
* Cleaning, the start limit and `KillMode=none` put a mount unit in a state
  without looking at the table.  `Mirroring` excludes them.
* After 2^30 rounds `gc_marker` restarts from 1 rather than 0 modulo 4, so that
  an old GOOD label may be read as UNSURE.  `MarkerAssumption` excludes it.

## 4. Bounds and fairness

*Units.*  Two or three; wakeups, merging, ordering and the maps relate pairs of
units; cycles, cascades and the position of a unit in a chain need a third.
*Dependencies.*  The engine's instances have fixed dependencies chosen for a
hazard each; the transaction's range over all choices of two, or over ten sets
of up to seven.
*States.*  All seven active states in `job_liveness`, the four that starting and
stopping go through in `job_engine`.  A transaction tells apart up, down and,
for late merges, on the way up.
*`MaxDepth`* = 4 bounds nested handlers that a triggering unit's state change
opens, the only recursion without a bound of its own: a request, the cancelled
job, the socket's notification and what follows from it.
*`MaxAdds`* = 3 is what it takes to have two entries that a merge joins and a
third on the other end.
*`MaxRequests`* = 2, *`MaxChanges`* = 1 end the disturbances in the liveness run
only; all other runs but `unit_gc` are unbounded in time.
*`Pids`*: two processes besides those that do not matter, so that a main and a
control process, or either and a child, exist together.
*`RETRY_UMOUNT_MAX`* = 2 (32 in the code) and *`MaxStack`* = 2 let umount run
out of tries with something still mounted and let one umount uncover another.
*`Modulus`* = 32 (2^32 in the code) with *`Start`* = 20 and *`MaxRuns`* = 3: the
marker is 24 in the first round, wraps around to 1 in the second, which looks
at the labels of the first, and is 5 in the third.
*`OnResult`* lets one of the three units have another for its `OnSuccess=` or
`OnFailure=`, and jobs for that one only.
*Symmetry* is used in `dependency_store` only, for interchangeable units and
reasons and without liveness.

`CHECK_DEADLOCK FALSE` is set where the model may stop: a transaction that is
done, a liveness run whose requests are used up, a store whose units are freed,
a collector whose rounds are used up.

Fairness.  A handler in progress goes on (C functions do not stop in the
middle): weak fairness of the steps of `Transaction`, of `HandlerStep` and of
the collector's dispatching; `[]<>(svc.next = NoCall)` for services.
`LiveSpec` adds that a job in the run queue is dispatched (a defer source
empties it) and that a unit which is on its way arrives (timeouts see to that;
`StartingEnds`, `StoppingEnds` and `OperationEnds` are where this is shown).
`FairSpec` of services and mounts says that a timer is dispatched in the end
unless it is disabled or put off again and again; nothing is assumed of the
processes, clients or the kernel.

## 5. What is proved

For any units, dependencies, unit files and requests that satisfy the named
assumptions of the modules; TLC evaluates those in the runs.

* **`JobEngine_proof`** -- `TypeCorrect`, `NoDanglingJobAlways`,
  `TimersArmedAlways`.  The inductive invariant `Inv` is the types together
  with `NoDanglingJob` and `TimersArmed`: a step that frees a job must clear
  all that names it, a step that merges must keep the timer.  Types and
  `TimersArmed` depend on each other through the run queue (only a unit with a
  job is run).  `NoOrderDeadlockIfAcyclic` then needs no further induction: if
  `After=` is acyclic, the last unit among those that go down, or else the
  first of those that come up, has a runnable job. `RunningConsistentAlways`,
  `NoLostWakeupAlways`, `NoLostGcAlways`: the last two hold when PID 1 is idle;
  in the middle of handlers they do not, because the job that blocked others is
  freed first and the others are queued at the `finish` label.  The
  strengthening `OrderInv` therefore says that a waiting job is queued, held,
  *or around the unit of a finish frame somewhere on the stack* (`Woken`), and
  likewise for collection.  That merging does not unblock others silently rests
  on a lemma about types: a merged job goes down if the installed one did.
  `InstallAssertionUntriggered`: the assertion of `job_install()` can fail only
  on a unit that another one triggers, which is the case `install_assertion`
  shows.  `CancelInv` says why: while such a job is canceled, the frame on top
  of `job_install()`'s has nothing left but to wake the jobs ordered around it.
* **`DependencyStore_proof`** -- `MirrorAlways`, `NoDanglingAlways`,
  `OnlyOwnBitsDroppedAlways`, `EntriesPairedAlways`.  The invariant is the
  conjunction of types, `Mirror` and `NoDangling`; each needs the others.
  Freeing visits only the units the freed unit has entries for, and `Mirror` is
  why those are all.  The lossy merge keeps `Mirror` because the NOP test gives
  the same answer at both ends (`NopSymmetric`).  `EntriesPairedAlways` is what
  `JobEngine` assumes as `DepAssumption`: the two modules are composed through
  it.
* **`Transaction_proof`** -- the laws stated above the merging table of `job.c`
  with the collapse by unit state included (`MergeOrder`,
  `MergeabilityIsTransitive`, `MergingKeepsWork`), and `NoStalePointerAlways`,
  `RequirementsMetAlways`, `ConflictsStoppedAlways` for any dependencies,
  states, installed jobs and request.  The invariant follows the phases.  While
  jobs are collected, each job that brings its unit up has a link to a job for
  everything it requires or conflicts with, or its call is still on the stack
  with that item to do (`BuildInv`).  From then on each has the link or the
  unit is as it should be already (`CollectedInv`), since dropping a job either
  takes along what needs it, or happens to a job that is not needed.  The jobs
  that matter to the anchor are closed under links (`MatterInv`), so the anchor
  is never taken along; lists are linear (`ListInv`), so that merging from the
  head ends with one job.  Merging keeps what a requirement is about by the
  laws above.  A job that its own failing call drops is the exception: who
  needs it is then below it in the recursion, which is a loop of requirements
  (`ChainInv`).  Hence the hypothesis of `RequirementsMet`, and
  `requirement_loop` shows that it cannot be dropped. `OrderVerifiedIfOneWay`:
  jobs are dropped and merged after the order was verified, and no cycle comes
  of it unless a unit had jobs then, the installed one included, that go both
  ways (`OneWay`).  The order has an edge only by which way two units go, and
  after that point jobs only go away; what is left to show is that the head of
  each list is one of the unit's jobs, for which the lists are in order
  (`AheadInv`).  Without `OneWay` it fails, by the first of the things in
  section 3 that have no run of their own.
* **`Service_proof`** -- `TimeoutArmedAlways` for any unit file in `OneTimeout`
  (several `ExecStart=` and `TimeoutStopSec=` only with `TimeoutStartSec=`, which
  `stop_timeout` is about, and `TimeoutAbortSec=` only with `TimeoutStopSec=`,
  see section 3) and `StopSticksAlways` for
  those in `KeepsDown` (section 3).  The invariant describes what each
  `service_enter_*()` may be called with and what it leaves behind, and is
  proved per function, then per event.
* **`ServiceSteps_proof`**, **`ServiceContract_proof`** -- `TypeOKAlways` for
  any unit file; `NoAssertionAlways` and `ImplementsContractAlways`, the
  refinement of `UnitContract`, for those in `Supported` (no `Type=idle` with
  `ExecReload=`, no `Type=exec` with `ExecStopPost=`); `WatchdogArmedAlways`
  for those in `Watchable` (no `Type=forking` with `PIDFile=` and without
  `ExecStartPost=`).  TLC finds counterexamples on instances with the excluded
  unit files; section 3 describes them.  One invariant carries all four: which
  processes, timers and pipes each state may have (`Sound`).
  `ServiceSteps_proof` shows for each `service_enter_*()` which callers it can
  have and what it tells the job, then for each handler that one event tells
  the job of nothing, one state or two (`Fares`); `ServiceContract_proof` turns
  that into steps of `UnitContract`.  `ServiceObject` has the fields both use.
* **`Mount_proof`** -- `TypeOKAlways`, `MirrorsKernelAlways`,
  `ExitSeesTableAlways`, `TimeoutArmedAlways`, `NoAssertionAlways`, and
  `ImplementsContractAlways`, the refinement of `UnitContract`.  The invariant
  ties the state to the helper and to the flags read from the table: a unit is
  mounted or dead only as the last reading of the table had it.  The refinement
  goes event by event; a lemma for sequences of one or two notifications (a
  handler may read the table in the middle of a job) turns the records into the
  history `UnitContract` asks for.
* **`UnitGC_proof`** -- `NoUsedCollectedAlways`, `NoLeakAlways`, for any number
  of units and rounds that do not bring the marker round (`MarkerAssumption`,
  fewer than 2^30 - 3 of them in the code).  A unit labelled BAD has only BAD
  referrers; one labelled UNSURE has referrers that are UNSURE, BAD or on the
  path below it; one labelled GOOD is needed; and a label of an earlier round
  is not within four of the marker.  So when a search started from the queue is
  over, the units labelled UNSURE and BAD are closed under referrers and none
  is kept.  For `NoLeak`: every unit that nothing needs is reachable from a
  queued one or from one in `overlooked`, the units a job of their `OnSuccess=`
  or `OnFailure=` unit was the last to keep.

*Only model-checked.*  Liveness (`JobsEnd`, `HandlersReturn`, `Settles`,
`StartingEnds`, `StoppingEnds`, `OperationEnds`, `CollectorReturns`) is out of
the prover's reach.  `EngineOutcome` is about the instances: it compares the
transactions under the dependencies of `Scenarios` with the sets of jobs that
`MCJobEngine` gives the engine, and is a finite statement.  What a theorem says
under a hypothesis is checked without it on the instances of the runs:
`OrderVerified`, `NoOrderDeadlock`, `NoAssertion`, `ImplementsContract`,
`WatchdogArmed`, `StopSticks`, `TimeoutArmed`.

The laws of finite induction cannot be instantiated by the provers installed,
so reachability is defined by closed sets rather than by recursion, and lists by
an order relation.  Many leaves name Zenon: tlapm's SMT translation slows down
with the number of obligations of a module, and what Zenon can prove is kept
away from it.

## 6. Running

`tlc -workers 2 -config X.cfg M` for the pairs in `PROJECT.json`, `tlapm M.tla`
for the proof modules (between half a minute and ten minutes each).

## 7. What is left out

Of the modelled parts: logging, audit and plymouth messages, cgroup side
effects of `unit_notify`, the emergency action of a job timeout, running out of
memory, job ids, and the expiry times of timers.  Clients on private buses
count as clients that track a job.  *Transactions*: `JobEngine` verifies the
order on merged types, `Transaction` on the first job of each unit before
merging, as the code does; `engine_outcome` checks that this makes no difference
under the engine's dependencies.  *Services*: the file descriptor store,
`EXTEND_TIMEOUT_USEC=`, `WATCHDOG_USEC=` and `NOTIFYACCESS=` messages, main
processes found by a bus name or outside of the control group,
`RestartPreventExitStatus=` and its like, command flags (`-`, `+`), `service_watchdogs=off`.
A daemon-reload finds the processes it wrote down, also those that are gone (with
pidfds), and `service_coldplug()` and `mount_coldplug()` do not fail to watch
them or to set a timer.
*Mounts*: the root mount, device dependencies and their regeneration, a
mountinfo that cannot be parsed, leftover processes.  *Collector*: of what
`unit_may_gc()` looks at, jobs and the jobs of `OnSuccess=` and `OnFailure=`
units are told apart, the rest is one set of kept units; `UnitRef`s count as
references; merging a unit while nobody is subscribed to the manager.

Not at all: sockets, swaps, automounts, paths, timers, scopes, slices, targets
and devices beyond the traits the engine depends on; the parsing of unit files
and the execution of processes, which are long but sequential; control groups;
sd-event and sd-bus, which are seen from outside; and the other daemons and
tools of the tree.  Those are separate programs; PID 1's core of units and jobs
is about one percent of the tree's lines, and what is mapped is most of
`transaction.c`, and about half of `job.c`, `service.c` and `mount.c`.
