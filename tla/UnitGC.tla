------------------------------- MODULE UnitGC -------------------------------
(***************************************************************************)
(* The collector of units (src/core/manager.c): which units are unloaded.  *)
(* A unit is needed if unit_may_gc() says no, or if one that is needed     *)
(* refers to it.  The sweep is a depth first search against the            *)
(* references that labels units by the distance of their gc_marker from    *)
(* the manager's, which moves on with every run instead of the labels      *)
(* being removed.  stack is the C stack, path of the search first; a frame *)
(* is a call of unit_gc_sweep() in its loop.  References are looked at in  *)
(* any order, as hash maps have none.  A UnitRef counts as the reference   *)
(* the socket that holds it has declared as well, or as what keeps a       *)
(* socket with connections.  Jobs and OnSuccess=, OnFailure= are told      *)
(* apart from what else keeps a unit, because a job keeps the units it is  *)
(* a handler of as well.                                                   *)
(***************************************************************************)
EXTENDS Integers, FiniteSets, Sequences, Functions

CONSTANTS Units, NoUnit,
          OnResult,       \* bound: the OnSuccess= and OnFailure= unit files may have; what these
                          \* name gets jobs
          Modulus,        \* of gc_marker, an unsigned: 2^32
          Start,          \* what gc_marker may be to begin with
          MaxRuns         \* bound: rounds of manager_loop(), not enough to go round gc_marker twice

ASSUME UnitsAssumption == IsFiniteSet(Units) /\ NoUnit \notin Units /\ OnResult \subseteq Units \X Units
ASSUME MarkerAssumption ==
    /\ Modulus \in Nat /\ MaxRuns \in Nat /\ 4 * (MaxRuns + 3) <= Modulus
    /\ Start \subseteq 0 .. Modulus - 1

VARIABLES units,      \* m->units
          keep,       \* those unit_may_gc() refuses for their state, clients or processes, or as
                      \* they have to be announced
          jobs,       \* those that have a job
          refs,       \* <<u, v>>: UNIT_REFERENCES
          handlers,   \* those among refs that are OnSuccess= or OnFailure=
          overlooked, \* history: those a job of a handler was the last to keep, until their turn comes
          gc_queue,   \* m->gc_unit_queue
          cleanup,    \* m->cleanup_queue
          marker,     \* m->gc_marker
          mark,       \* u->gc_marker
          popped,     \* the unit whose turn it is, in_gc_queue still being set
          stack,
          phase,      \* "idle" (events come in), "loop" (manager_loop() begins again), or the
                      \* queue it is at: "gc", "cleanup"
          runs

graph == <<units, keep, jobs, refs, handlers>>
vars == <<graph, overlooked, gc_queue, cleanup, marker, mark, popped, stack, phase, runs>>

IN_PATH == 0
UNSURE == 1
GOOD == 2
BAD == 3
_GC_OFFSET_MAX == 4

\* The sum of two numbers below Modulus.
wrap(n) == IF n < Modulus THEN n ELSE n - Modulus
Label(u, offset) == mark[u] = wrap(marker + offset)

unit_success_failure_handler_has_jobs(u) == \E e \in handlers : e[1] = u /\ e[2] \in jobs

unit_may_gc(u) == u \notin keep \cup jobs /\ ~ unit_success_failure_handler_has_jobs(u)

in_gc_queue(u) == u = popped \/ u \in Range(gc_queue)

\* Those of S that may join the queue, as they are now, do so in front, in any order.
unit_add_to_gc_queue(S) ==
    LET new == {u \in S : ~ in_gc_queue(u) /\ u \notin cleanup /\ unit_may_gc(u)'}
    IN \E order \in Surjection(1 .. Cardinality(new), new) : gc_queue' = order \o gc_queue

Closed(S, E) == \A e \in E : e[1] \in S => e[2] \in S

\* What is reached from the units S along the pairs of E.
Reachable(S, E) == {u \in Units : \A C \in SUBSET Units : S \subseteq C /\ Closed(C, E) => u \in C}

-----------------------------------------------------------------------------
(* The sweep.                                                              *)

\* u, and what unit_gc_mark_good() reaches from it by way of units labelled UNSURE.
Referenced(u) == Reachable({u}, {e \in refs : Label(e[2], UNSURE)})

unit_gc_mark_good(u) ==
    LET good == Referenced(u)
    IN mark' = [v \in Units |-> IF v \in good THEN wrap(marker + GOOD) ELSE mark[v]]

SetLabel(u, offset) == mark' = [mark EXCEPT ![u] = wrap(marker + offset)]

Referrers(u) == {v \in units : <<v, u>> \in refs}

Frame(u) == [unit |-> u, todo |-> Referrers(u), at |-> NoUnit, is_bad |-> TRUE]

\* unit_gc_sweep() up to its loop: it returns at once, or pushes a frame on top of s.
unit_gc_sweep(u, s) ==
    IF \E offset \in {GOOD, BAD, UNSURE, IN_PATH} : Label(u, offset) THEN stack' = s /\ UNCHANGED mark
    ELSE IF u \in cleanup THEN stack' = s /\ SetLabel(u, BAD)
    ELSE IF ~ unit_may_gc(u) THEN stack' = s /\ unit_gc_mark_good(u)
    ELSE stack' = <<Frame(u)>> \o s /\ SetLabel(u, IN_PATH)

\* The loop goes on to another referring unit.
Visit ==
    /\ stack # <<>> /\ Head(stack).at = NoUnit
    /\ \E other \in Head(stack).todo :
         unit_gc_sweep(other, <<[Head(stack) EXCEPT !.at = other, !.todo = @ \ {other}]>> \o Tail(stack))
    /\ UNCHANGED <<graph, overlooked, gc_queue, cleanup, marker, popped, phase, runs>>

\* ... and looks at what the sweep found there.
Look ==
    /\ stack # <<>> /\ Head(stack).at # NoUnit
    /\ LET f == Head(stack)
       IN IF Label(f.at, GOOD)
          THEN unit_gc_mark_good(f.unit) /\ stack' = Tail(stack)
          ELSE /\ stack' = <<[f EXCEPT !.at = NoUnit, !.is_bad = @ /\ Label(f.at, BAD)]>> \o Tail(stack)
               /\ UNCHANGED mark
    /\ UNCHANGED <<graph, overlooked, gc_queue, cleanup, marker, popped, phase, runs>>

\* No referring unit is left.
Verdict ==
    /\ stack # <<>> /\ Head(stack).at = NoUnit /\ Head(stack).todo = {}
    /\ UNCHANGED <<graph, overlooked, marker, popped, phase, runs>>
    /\ LET u == Head(stack).unit
       IN IF Head(stack).is_bad
          THEN SetLabel(u, BAD) /\ cleanup' = cleanup \cup {u} /\ UNCHANGED gc_queue
          ELSE SetLabel(u, UNSURE) /\ unit_add_to_gc_queue({u}) /\ UNCHANGED cleanup
    /\ stack' = Tail(stack)

-----------------------------------------------------------------------------
(* manager_loop() dispatches the queues one after the other, begins again  *)
(* after one that was not empty, and waits for events after all were.      *)

\* Mutant of NextMarker: it wraps around to the label of units never looked at.
Mut_NextMarker == wrap(marker + _GC_OFFSET_MAX)

NextMarker ==
    LET next == wrap(marker + _GC_OFFSET_MAX)
    IN IF wrap(next + _GC_OFFSET_MAX) <= _GC_OFFSET_MAX THEN 1 ELSE next

manager_dispatch_gc_unit_queue ==
    /\ phase \in {"idle", "loop"} /\ runs < MaxRuns
    /\ marker' = NextMarker /\ runs' = runs + 1
    /\ phase' = IF gc_queue # <<>> THEN "gc" ELSE IF cleanup # {} THEN "cleanup" ELSE "idle"
    /\ UNCHANGED <<graph, overlooked, gc_queue, cleanup, mark, popped, stack>>

Pop ==
    /\ phase = "gc" /\ popped = NoUnit /\ gc_queue # <<>>
    /\ popped' = Head(gc_queue) /\ gc_queue' = Tail(gc_queue)
    /\ overlooked' = overlooked \ {popped'}
    /\ unit_gc_sweep(popped', <<>>)
    /\ UNCHANGED <<graph, cleanup, marker, phase, runs>>

\* Mutant of Collects: what is not known to be bad stays.
Mut_Collects(u) == Label(u, BAD)

\* Nothing that is needed was found behind it.
Collects(u) == Label(u, BAD) \/ Label(u, UNSURE)

\* Mutant of Collect: what is not known to be bad is looked at again.
Mut_Collect ==
    /\ popped # NoUnit /\ stack = <<>>
    /\ IF Label(popped, BAD) THEN cleanup' = cleanup \cup {popped} ELSE UNCHANGED cleanup
    /\ gc_queue' = IF Label(popped, UNSURE) THEN <<popped>> \o gc_queue ELSE gc_queue
    /\ popped' = NoUnit
    /\ UNCHANGED <<graph, overlooked, mark, marker, stack, phase, runs>>

Collect ==
    /\ popped # NoUnit /\ stack = <<>>
    /\ IF Collects(popped)
       THEN SetLabel(popped, BAD) /\ cleanup' = cleanup \cup {popped}
       ELSE UNCHANGED <<mark, cleanup>>
    /\ popped' = NoUnit
    /\ UNCHANGED <<graph, overlooked, gc_queue, marker, stack, phase, runs>>

Collected ==
    /\ phase = "gc" /\ popped = NoUnit /\ gc_queue = <<>>
    /\ phase' = "loop"
    /\ UNCHANGED <<graph, overlooked, gc_queue, cleanup, marker, mark, popped, stack, runs>>

Neighbours(u) == {v \in units \ {u} : {<<u, v>>, <<v, u>>} \cap refs # {}}

\* manager_dispatch_cleanup_queue() and unit_free(): what it had dependencies with is
\* looked at again.
unit_free(u) ==
    /\ phase = "cleanup" /\ u \in cleanup
    /\ units' = units \ {u} /\ cleanup' = cleanup \ {u}
    /\ refs' = {e \in refs : u \notin {e[1], e[2]}}
    /\ handlers' = {e \in handlers : u \notin {e[1], e[2]}}
    /\ overlooked' = overlooked \ {u}
    /\ phase' = IF cleanup' = {} THEN "loop" ELSE phase
    /\ UNCHANGED <<keep, jobs, marker, mark, popped, stack, runs>>
    /\ unit_add_to_gc_queue(Neighbours(u))

-----------------------------------------------------------------------------
(* What changes the need for units.                                        *)

\* A unit comes into being, and is queued before it or others refer to anything.
unit_load(u) ==
    /\ phase = "idle" /\ u \notin units
    /\ units' = units \cup {u} /\ mark' = [mark EXCEPT ![u] = 0]
    /\ \E new \in SUBSET (({u} \X (units \ cleanup)) \cup ((units \ cleanup) \X {u})) :
         /\ refs' = refs \cup new
         /\ \E on \in SUBSET (new \cap OnResult) : handlers' = handlers \cup on
    /\ gc_queue' = <<u>> \o gc_queue
    /\ UNCHANGED <<keep, jobs, overlooked, cleanup, marker, popped, stack, phase, runs>>

\* A name that was not loaded, so that it refers to nothing, turns out to be an alias of u.
unit_merge(u, other) ==
    LET moved(v) == IF v = other THEN u ELSE v
        redirected(E) == {e \in (units \ {other}) \X (units \ {other}) :
                           e[1] # e[2] /\ \E d \in E : e = <<moved(d[1]), moved(d[2])>>}
    IN /\ phase = "idle" /\ u \in units \ cleanup /\ other \in units \ (cleanup \cup jobs \cup {u})
       /\ \A e \in refs : e[1] # other
       /\ refs' = redirected(refs) /\ handlers' = redirected(handlers)
       /\ keep' = keep \ {other} /\ cleanup' = cleanup \cup {other}
       /\ UNCHANGED <<units, jobs, overlooked, gc_queue, marker, mark, popped, stack, phase, runs>>

\* It is started, a client wants to know about it, a change has to be announced...
Use(u) ==
    /\ phase = "idle" /\ u \in units \ (keep \cup cleanup)
    /\ keep' = keep \cup {u}
    /\ UNCHANGED <<units, jobs, refs, handlers, overlooked, gc_queue, cleanup, marker, mark, popped, stack,
                   phase, runs>>

\* ... and that is over.
Release(u) ==
    /\ phase = "idle" /\ u \in keep
    /\ keep' = keep \ {u}
    /\ UNCHANGED <<units, jobs, refs, handlers, overlooked, cleanup, marker, mark, popped, stack, phase, runs>>
    /\ unit_add_to_gc_queue({u})

job_install(u) ==
    /\ phase = "idle" /\ u \in {e[2] : e \in OnResult} \cap (units \ (jobs \cup cleanup))
    /\ jobs' = jobs \cup {u}
    /\ UNCHANGED <<units, keep, refs, handlers, overlooked, gc_queue, cleanup, marker, mark, popped, stack,
                   phase, runs>>

\* The unit of the job is queued, and none of those it is a handler of.
job_uninstall(u) ==
    /\ phase = "idle" /\ u \in jobs
    /\ jobs' = jobs \ {u}
    /\ UNCHANGED <<units, keep, refs, handlers, cleanup, marker, mark, popped, stack, phase, runs>>
    /\ overlooked' = overlooked \cup {v \in units : <<v, u>> \in handlers /\ unit_may_gc(v)'}
    /\ unit_add_to_gc_queue({u})

\* unit_remove_dependencies(), never for what unit files say.
DropReference(e) ==
    /\ phase = "idle" /\ e \in refs \ handlers
    /\ refs' = refs \ {e}
    /\ UNCHANGED <<units, keep, jobs, handlers, overlooked, cleanup, marker, mark, popped, stack, phase, runs>>
    /\ unit_add_to_gc_queue({e[2]})

Init ==
    /\ units = {} /\ keep = {} /\ jobs = {} /\ refs = {} /\ handlers = {} /\ overlooked = {}
    /\ gc_queue = <<>> /\ cleanup = {} /\ popped = NoUnit /\ stack = <<>> /\ phase = "idle" /\ runs = 0
    /\ mark = [u \in Units |-> 0]
    /\ marker \in Start

Dispatch == \/ manager_dispatch_gc_unit_queue \/ Pop \/ Visit \/ Look \/ Verdict \/ Collect \/ Collected
            \/ \E u \in Units : unit_free(u)

Next == \/ Dispatch
        \/ \E u \in Units : unit_load(u) \/ Use(u) \/ Release(u) \/ job_install(u) \/ job_uninstall(u)
        \/ \E u, other \in Units : unit_merge(u, other)
        \/ \E e \in refs : DropReference(e)

Spec == Init /\ [][Next]_vars /\ WF_vars(Dispatch)

-----------------------------------------------------------------------------
(* Properties.                                                             *)

\* The units unit_may_gc() refuses.
Kept == {u \in Units : ~ unit_may_gc(u)}

\* The units something needs, directly or through references.
NeededUnits == Reachable(Kept, refs)

\* No unit that is needed is collected, in whatever order the search comes upon
\* loops of references, and also when gc_marker wraps around.
NoUsedCollected == cleanup \cap NeededUnits = {}

\* Once the queues are empty no unit is left that nothing needs, units that refer
\* to each other included, but for what a job of an OnSuccess= or OnFailure= handler
\* was the last to keep: job_uninstall() leaves that behind, with what it refers to.
NoLeak ==
    phase = "idle" /\ gc_queue = <<>> /\ cleanup = {} => units \subseteq Reachable(Kept \cup overlooked, refs)

\* The collector returns, although it puts units back in the queue it empties.
CollectorReturns == phase = "gc" ~> phase # "gc"

=============================================================================
