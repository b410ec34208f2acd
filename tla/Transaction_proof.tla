------------------------- MODULE Transaction_proof --------------------------
(***************************************************************************)
(* What holds of every transaction, whatever the units and their           *)
(* dependencies: no pointer outlives its job, and what is about to be      *)
(* applied neither starts a unit without those it requires nor along with  *)
(* those it conflicts with, and can be put in an order if the order was    *)
(* verified for jobs that go one way on each unit.                         *)
(***************************************************************************)
EXTENDS Transaction, TLAPS

-----------------------------------------------------------------------------
(* The laws of merging that transactions and the job engine rely on.       *)

\* What two types of a unit's jobs merge to is again such a type, or nothing.
LEMMA MergeStepClosed ==
    \A a, b \in MergingTypes \cup {"unmergeable"}, s \in UnitActiveState :
        MergeStep(a, b, s) \in MergingTypes \cup {"unmergeable"}
BY DEF MergeStep, job_type_merge_and_collapse, job_type_lookup_merge, job_type_collapse,
       MergingTypes, UnitActiveState, IsActiveOrActivating, IsActiveOrReloading

\* What a merge comes to, for a unit that is up or not.
LEMMA MergeStepTable ==
    ASSUME NEW a \in MergingTypes \cup {"unmergeable"}, NEW b \in MergingTypes \cup {"unmergeable"}, NEW s
    PROVE  MergeStep(a, b, s) =
               IF a = b THEN a
               ELSE IF a \in {"stop", "unmergeable"} \/ b \in {"stop", "unmergeable"} THEN "unmergeable"
               ELSE IF a = "restart" \/ b = "restart" THEN "restart"
               ELSE IF a = "verify" THEN b
               ELSE IF b = "verify" THEN a
               ELSE IF IsActiveOrReloading(s) THEN "reload" ELSE "start"
BY Zenon DEF MergeStep, job_type_merge_and_collapse, job_type_lookup_merge, job_type_collapse, MergingTypes

\* The order of merging does not matter.
THEOREM MergeOrder == MergeOrderIrrelevant
<1> SUFFICES ASSUME NEW a \in MergingTypes, NEW b \in MergingTypes, NEW c \in MergingTypes,
                    NEW s \in UnitActiveState
             PROVE  /\ MergeStep(a, b, s) = MergeStep(b, a, s)
                    /\ MergeStep(MergeStep(a, b, s), c, s) = MergeStep(a, MergeStep(b, c, s), s)
  BY Zenon DEF MergeOrderIrrelevant
<1> DEFINE ab == MergeStep(a, b, s)
           bc == MergeStep(b, c, s)
<1>1. MergeStep(a, b, s) = MergeStep(b, a, s)
  BY MergeStepTable
<1>2. /\ ab \in MergingTypes \cup {"unmergeable"} /\ bc \in MergingTypes \cup {"unmergeable"}
      /\ MergeStep(ab, c, s) = MergeStep(c, ab, s)
  BY MergeStepClosed, MergeStepTable
<1>3. CASE IsActiveOrReloading(s)
  BY <1>2, <1>3, MergeStepTable DEF MergingTypes
<1>4. CASE ~ IsActiveOrReloading(s)
  BY <1>2, <1>4, MergeStepTable DEF MergingTypes
<1> QED BY <1>1, <1>3, <1>4, Zenon

\* Jobs that do not merge can be found by looking at pairs.
THEOREM MergeabilityIsTransitive == MergeabilityTransitive
<1> SUFFICES ASSUME NEW a \in MergingTypes, NEW b \in MergingTypes, NEW c \in MergingTypes,
                    NEW s \in UnitActiveState
             PROVE  /\ job_type_is_mergeable(a, b) /\ job_type_is_mergeable(b, c)
                           => job_type_is_mergeable(a, c)
                    /\ MergeStep(a, b, s) # "unmergeable"
                       /\ MergeStep(MergeStep(a, b, s), c, s) = "unmergeable"
                           => ~ job_type_is_mergeable(a, c) \/ ~ job_type_is_mergeable(b, c)
  BY Zenon DEF MergeabilityTransitive
<1> DEFINE ab == MergeStep(a, b, s)
<1>1. /\ ab \in MergingTypes \cup {"unmergeable"}
      /\ \A x, y \in MergingTypes : job_type_is_mergeable(x, y) <=> (x = "stop" <=> y = "stop")
  BY MergeStepClosed, Zenon DEF job_type_is_mergeable, job_type_lookup_merge, MergingTypes
<1>2. ab # "unmergeable" => (ab = "stop" <=> a = "stop") /\ (a = "stop" <=> b = "stop")
  BY MergeStepTable DEF MergingTypes
<1>3. ab # "unmergeable" /\ MergeStep(ab, c, s) = "unmergeable" => ~ (ab = "stop" <=> c = "stop")
  BY <1>1, MergeStepTable DEF MergingTypes
<1> QED BY <1>1, <1>2, <1>3, Zenon

\* A merged job is redundant only if both of its parts are.
THEOREM MergingKeepsWork == MergeKeepsWork
BY DEF MergeKeepsWork, MergeStep, job_type_is_redundant, job_type_merge_and_collapse,
       job_type_lookup_merge, job_type_collapse, MergingTypes, IsActiveOrActivating,
       IsActiveOrReloading, IsInactiveOrFailed

-----------------------------------------------------------------------------
(* The inductive invariant.                                                *)

BringUp == {"start", "restart"}
KeepUp == {"start", "restart", "reload"}

\* The request is to be carried out along with what it depends on.
Heeding == request.mode \notin {"ignore-dependencies", "ignore-requirements"}

Item == [rank : 0..9, type : MergingTypes, unit : Units]
Frame == [job : Job, todo : SUBSET Item, cur : 0..9]

Dropping == {"minimize", "redundant", "garbage", "order", "conflicts", "garbage again"}
Merged == {"redundant again", "check", "apply"}
Collected == {"mark", "merge"} \cup Dropping \cup Merged
Phase == {"idle", "build", "failed", "aborted"} \cup Collected

TypeInv ==
    /\ deps \subseteq Units \X UnitDependency \X Units
    /\ active \in [Units -> UnitActiveState]
    /\ installed \in [Units -> TransactionTypes \cup {"none"}]
    /\ request.type \in JobType /\ request.unit \in Units
    /\ jobs \subseteq Job /\ anchor \in Job /\ matter \subseteq Job
    /\ ahead \subseteq jobs \X jobs
    /\ links \subseteq [subject : jobs, object : jobs, matters : BOOLEAN, conflicts : BOOLEAN]
    /\ stack \in Seq(Frame)
    /\ failing \in BOOLEAN
    /\ phase \in Phase

\* The jobs of a unit are in one list.
ListInv ==
    /\ \A p \in ahead : p[1][1] = p[2][1] /\ p[1] # p[2]
    /\ \A j, k \in jobs : j[1] = k[1] /\ j # k => <<j, k>> \in ahead \/ <<k, j>> \in ahead
    /\ phase \in Merged => ahead = {}

\* A job that does nothing is alone in its transaction.
NopInv ==
    /\ \A j \in jobs : j[2] = "nop" => j = anchor
    /\ phase # "idle" /\ anchor[2] = "nop" => /\ jobs \subseteq {anchor}
                                             /\ \A i \in 1 .. Len(stack) : stack[i].todo = {}

\* The flags a call was made with, at most.
Flags(j) == IF j = anchor THEN AnchorFlags ELSE {"PROCESS_PROPAGATE_STOP_GRACEFUL"}

AllCalls(j) == Calls(j[1], j[2], Flags(j))

\* The calls under way.  The last frame is that of manager_add_job.
StackInv ==
    /\ stack # <<>> <=> phase = "build"
    /\ phase \notin {"idle", "failed"} => anchor \in jobs \/ (phase = "build" /\ failing /\ Len(stack) = 1)
    /\ \A i \in 1 .. Len(stack) - 1 :
          /\ stack[i].job \in jobs
          /\ stack[i].todo \subseteq AllCalls(stack[i].job)
          /\ \A item \in stack[i].todo : stack[i].cur <= item.rank
          /\ stack[i].cur \in 1..5 => stack[i].job[2] \in BringUp
          /\ \A k \in 1 .. Len(stack) - 1 : stack[i].job = stack[k].job => i = k
    /\ stack # <<>> =>
          LET n == Len(stack)
          IN /\ stack[n].job = anchor /\ stack[n].cur \in {6, 9}
             /\ \A item \in stack[n].todo : item.rank = 9 /\ item.type = "stop"
             /\ stack[n].cur = 6 /\ n > 1 => stack[n - 1].job = anchor
             /\ stack[n].cur = 9 => \A i \in 1 .. n - 1 : stack[i].job # anchor
             /\ failing => Fatal(stack[1].cur)
    /\ failing => Unloadable # {}
    /\ phase = "idle" => jobs = {} /\ ~ failing

\* v can be loaded, and no subset of the units that a start keeps within, and that
\* has u, is without it.
LeadsToStart(u, v) ==
    /\ v \notin Unloadable
    /\ \A R \in SUBSET Units : u \in R /\ (\A x \in R : Starts(x) \subseteq R) => v \in R

\* What is under way because of a start, other than the request itself.
ChainInv ==
    \A m \in 1 .. Len(stack) - 1 : \A i \in 1 .. m :
        stack[m].job[2] = "start" /\ stack[m].job # anchor =>
            /\ stack[i].job[2] \in {"start", "stop", "verify"}
            /\ \A item \in stack[i].todo : item.rank # 7
            /\ stack[i].job[2] = "start" => LeadsToStart(stack[m].job[1], stack[i].job[1])

\* Nobody but its caller requires a start that is under way.
NewInv ==
    ~ StartLoop =>
        \A i \in 1 .. Len(stack) - 1 : \A l \in links :
            stack[i].job[2] = "start" /\ stack[i].job # anchor /\ l.object = stack[i].job /\ l.matters
                => l.subject = stack[i + 1].job /\ stack[i + 1].cur = 1

Hypothesis == Unloadable = {} \/ ~ StartLoop

Linked(j, k) == \E l \in links : l.subject = j /\ l.object = k /\ l.matters

\* One of the calls to make, at this rank, is for d.
CallsFor(todo, rank, d) == \E item \in todo : item.rank = rank /\ item.unit = d

\* The call for j is still to come to d, or fails.
Pending(j, d, rank) ==
    \E i \in 1 .. Len(stack) - 1 :
        /\ stack[i].job = j
        /\ \/ CallsFor(stack[i].todo, rank, d)
           \/ i = 1 /\ failing /\ stack[i].cur \in 1..5

\* While jobs are collected, a job to bring up a unit is linked to the jobs it
\* depends on, or will be.
BuildInv ==
    phase = "build" /\ anchor \in jobs /\ Heeding =>
        \A j \in jobs : j[2] \in BringUp =>
            /\ Hypothesis => \A d \in Dep(j[1], "PULL_IN_START") : Linked(j, <<d, "start">>) \/ Pending(j, d, 1)
            /\ \A d \in Dep(j[1], "PULL_IN_STOP") :
                  d \in perpetual \/ Linked(j, <<d, "stop">>) \/ Pending(j, d, 4)

\* The unit needs no job.
Idle(d) ==
    Of(d) = {} \/ (phase \in {"redundant", "redundant again"} /\ \A j \in Of(d) : ~ Needed(j))

IsUp(d) == IsActiveOrReloading(active[d]) /\ installed[d] # "stop" /\ Idle(d)
IsDown(d) == IsInactiveOrFailed(active[d]) /\ installed[d] \in {"none", "stop", "nop"} /\ Idle(d)

\* Later on, the link is there or it is not needed any more.
CollectedInv ==
    phase \in Collected /\ Heeding =>
        \A j \in jobs : j[2] \in BringUp =>
            /\ Hypothesis => \A d \in Dep(j[1], "PULL_IN_START") :
                                 IsUp(d) \/ \E t \in KeepUp : Linked(j, <<d, t>>)
            /\ \A d \in Dep(j[1], "PULL_IN_STOP") :
                   d \in perpetual \/ IsDown(d) \/ Linked(j, <<d, "stop">>)

\* What matters to a job that matters to the anchor matters to the anchor.
MatterInv ==
    phase \in Dropping =>
        /\ anchor \in matter
        /\ \A l \in links : l.matters /\ l.subject \in matter => l.object \in matter

Inv == /\ TypeInv /\ ListInv /\ NopInv /\ StackInv /\ ChainInv /\ NewInv
       /\ BuildInv /\ CollectedInv /\ MatterInv

-----------------------------------------------------------------------------
(* Dependencies and calls.                                                 *)

\* The units a unit depends on.
LEMMA DepUnits == ASSUME TypeInv, NEW u, NEW atom PROVE Dep(u, atom) \subseteq Units
  BY DEF TypeInv, Dep

\* The calls that a set of units stands for.
LEMMA ToDoItems ==
  ASSUME NEW rank, NEW type, NEW S
  PROVE  /\ \A item \in ToDo(rank, type, S) :
                /\ item.rank = rank /\ item.type = type /\ item.unit \in S
                /\ item = [rank |-> item.rank, type |-> item.type, unit |-> item.unit]
         /\ \A d \in S : \E item \in ToDo(rank, type, S) : item.rank = rank /\ item.unit = d
<1>1. ASSUME NEW item \in ToDo(rank, type, S)
      PROVE  /\ item.rank = rank /\ item.type = type /\ item.unit \in S
             /\ item = [rank |-> item.rank, type |-> item.type, unit |-> item.unit]
  <2>1. PICK d \in S : item = [rank |-> rank, type |-> type, unit |-> d]
    BY Zenon DEF ToDo
  <2> QED BY <2>1, Zenon
<1>2. ASSUME NEW d \in S PROVE \E item \in ToDo(rank, type, S) : item.rank = rank /\ item.unit = d
  <2>1. [rank |-> rank, type |-> type, unit |-> d] \in ToDo(rank, type, S)
    BY Zenon DEF ToDo
  <2> QED BY <2>1, Zenon
<1> QED BY <1>1, <1>2, Zenon

\* Where a call of a job comes from.
LEMMA CallsFrom ==
  ASSUME NEW u, NEW t, NEW flags, NEW item \in Calls(u, t, flags)
  PROVE  /\ t # "nop"
         /\ \/ item \in ToDo(0, t, Following(u))
            \/ /\ t \in BringUp
               /\ \/ item \in ToDo(1, "start", Dep(u, "PULL_IN_START"))
                  \/ item \in ToDo(2, "start", Dep(u, "PULL_IN_START_IGNORED"))
                  \/ item \in ToDo(3, "verify", Dep(u, "PULL_IN_VERIFY"))
                  \/ item \in ToDo(4, "stop", Dep(u, "PULL_IN_STOP"))
                  \/ item \in ToDo(5, "stop", Dep(u, "PULL_IN_STOP_IGNORED"))
            \/ t = "stop" /\ item \in ToDo(6, "stop", Dep(u, "PROPAGATE_STOP"))
            \/ (t = "restart" \/ "PROPAGATE_START_AS_RESTART" \in flags)
               /\ \E S \in SUBSET Dep(u, "PROPAGATE_RESTART") : item \in ToDo(6, "restart", S)
            \/ "PROCESS_PROPAGATE_STOP_GRACEFUL" \in flags /\ item \in ToDo(7, "stop", Dep(u, "PROPAGATE_STOP_GRACEFUL"))
            \/ t = "reload"
               /\ \E S \in SUBSET Dep(u, "PropagatesReloadTo") : item \in ToDo(8, "reload", S)
  BY Zenon DEF Calls, BringsUp, BringUp

\* ... in terms of its fields.
LEMMA CallsItem ==
  ASSUME NEW u, NEW t, NEW flags, NEW item \in Calls(u, t, flags)
  PROVE  /\ t # "nop"
         /\ \/ item.rank = 0 /\ item.type = t /\ item.unit \in Following(u)
            \/ item.rank = 1 /\ t \in BringUp /\ item.type = "start" /\ item.unit \in Dep(u, "PULL_IN_START")
            \/ item.rank = 2 /\ t \in BringUp /\ item.type = "start"
               /\ item.unit \in Dep(u, "PULL_IN_START_IGNORED")
            \/ item.rank = 3 /\ t \in BringUp /\ item.type = "verify"
            \/ item.rank = 4 /\ t \in BringUp /\ item.type = "stop"
            \/ item.rank = 5 /\ t \in BringUp /\ item.type = "stop"
            \/ item.rank = 6 /\ t = "stop" /\ item.type = "stop"
            \/ item.rank = 6 /\ (t = "restart" \/ "PROPAGATE_START_AS_RESTART" \in flags) /\ item.type = "restart"
            \/ item.rank = 7 /\ "PROCESS_PROPAGATE_STOP_GRACEFUL" \in flags /\ item.type = "stop"
            \/ item.rank = 8 /\ t = "reload" /\ item.type = "reload"
  BY CallsFrom, ToDoItems

\* The calls have the form of calls.
LEMMA CallsTyped ==
  ASSUME TypeInv, NEW u \in Units, NEW t \in TransactionTypes, NEW flags
  PROVE  Calls(u, t, flags) \subseteq Item
<1> SUFFICES ASSUME NEW item \in Calls(u, t, flags) PROVE item \in Item
  BY Zenon
<1>1. Following(u) \subseteq Units
  BY TransactionAssumption, Zenon
<1>2. item.unit \in Units
  BY <1>1, CallsFrom, ToDoItems, DepUnits
<1>3. item.rank \in 0..9 /\ item.type \in MergingTypes
  BY CallsItem DEF TransactionTypes, MergingTypes
<1>4. item = [rank |-> item.rank, type |-> item.type, unit |-> item.unit]
  BY CallsFrom, ToDoItems
<1> QED BY <1>2, <1>3, <1>4, Zenon DEF Item

\* A call that is to be graceful makes more calls.
LEMMA CallsMore ==
  ASSUME NEW u, NEW t PROVE Calls(u, t, {}) \subseteq Calls(u, t, {"PROCESS_PROPAGATE_STOP_GRACEFUL"})
  BY Zenon DEF Calls

\* A job to bring up a unit calls for what it depends on.
LEMMA CallsNeeded ==
  ASSUME NEW u, NEW t, t \in BringUp, NEW flags, "IGNORE_REQUIREMENTS" \notin flags
  PROVE  /\ \A d \in Dep(u, "PULL_IN_START") : CallsFor(Calls(u, t, flags), 1, d)
         /\ \A d \in Dep(u, "PULL_IN_STOP") : CallsFor(Calls(u, t, flags), 4, d)
<1>1. t # "nop" /\ BringsUp(t)
  BY Zenon DEF BringUp, BringsUp
<1>2. /\ ToDo(1, "start", Dep(u, "PULL_IN_START")) \subseteq Calls(u, t, flags)
      /\ ToDo(4, "stop", Dep(u, "PULL_IN_STOP")) \subseteq Calls(u, t, flags)
  BY <1>1, ZenonT(30) DEF Calls
<1> QED BY <1>2, ToDoItems DEF CallsFor

\* The world stays as it is while PID 1 makes up a transaction.
LEMMA WorldSame ==
  ASSUME UNCHANGED world
  PROVE  /\ \A u, atom : Dep(u, atom)' = Dep(u, atom)
         /\ \A u, t, flags : Calls(u, t, flags)' = Calls(u, t, flags)
         /\ AnchorFlags' = AnchorFlags
         /\ StartLoop' = StartLoop /\ Hypothesis' = Hypothesis /\ Heeding' = Heeding
         /\ \A u : Starts(u)' = Starts(u)
         /\ \A u, v : LeadsToStart(u, v)' = LeadsToStart(u, v)
<1>1. \A u, atom : Dep(u, atom)' = Dep(u, atom)
  BY Zenon DEF world, Dep
<1>2. \A u, t, flags : Calls(u, t, flags)' = Calls(u, t, flags)
  <2>1. request' = request /\ active' = active
    BY Zenon DEF world
  <2> QED BY <1>1, <2>1 DEF Calls, ToDo
<1>3. \A u : Starts(u)' = Starts(u)
  BY <1>1, Zenon DEF Starts
<1>4. StartLoop' = StartLoop
  BY <1>1, <1>3 DEF StartLoop
<1>5. \A u, v : LeadsToStart(u, v)' = LeadsToStart(u, v)
  BY <1>3, Zenon DEF LeadsToStart
<1>6. Heeding' = Heeding
  BY Zenon DEF Heeding, world
<1>7. Hypothesis' = Hypothesis
  BY <1>4, Zenon DEF Hypothesis
<1>8. AnchorFlags' = AnchorFlags
  BY Zenon DEF AnchorFlags, world
<1> QED BY <1>1, <1>2, <1>3, <1>4, <1>5, <1>6, <1>7, <1>8, Zenon

\* ... and so do the calls of each job.
LEMMA AllCallsSame == ASSUME UNCHANGED <<world, anchor>> PROVE \A j : AllCalls(j)' = AllCalls(j)
<1>1. \A j : Flags(j)' = Flags(j)
  BY WorldSame, Zenon DEF Flags
<1> QED BY <1>1, WorldSame, Zenon DEF AllCalls

-----------------------------------------------------------------------------
(* transaction_activate: dropping jobs.                                    *)

\* Nothing is said of calls when there are none.
LEMMA NoCalls ==
  ASSUME stack' = <<>>, phase' # "build", phase' # "idle", phase' = "failed" \/ anchor' \in jobs',
         failing' => Unloadable # {}
  PROVE  StackInv' /\ ChainInv' /\ NewInv' /\ BuildInv'
<1>1. Len(stack') = 0 /\ 1 .. (Len(stack') - 1) = {}
  OBVIOUS
<1>2. StackInv'
  BY <1>1, Zenon DEF StackInv
<1>3. ChainInv' /\ NewInv' /\ BuildInv'
  BY <1>1, Zenon DEF ChainInv, NewInv, BuildInv
<1> QED BY <1>2, <1>3, Zenon

\* A step of transaction_activate that drops jobs, but not the anchor.
Dropped(gone) ==
    /\ phase \in Collected /\ anchor \notin gone /\ Drop(gone)
    /\ Rest /\ UNCHANGED anchor /\ matter' \subseteq matter \cup jobs
    /\ phase' \in Collected \cup {"failed", "aborted"}
    /\ phase' \in Merged => ahead' = {}

\* It leaves the transaction sound.
LEMMA DroppedSound ==
  ASSUME Inv, NEW gone, Dropped(gone)
  PROVE  TypeInv' /\ ListInv' /\ NopInv' /\ StackInv' /\ ChainInv' /\ NewInv' /\ BuildInv'
<1>1. /\ phase # "build" /\ phase # "idle" /\ phase # "failed"
      /\ phase' # "build" /\ phase' # "idle" /\ phase' \in Phase
  BY Zenon DEF Dropped, Collected, Dropping, Merged, Phase
<1>2. /\ jobs' = jobs \ gone /\ ahead' = {p \in ahead : {p[1], p[2]} \cap gone = {}}
      /\ links' = {l \in links : {l.subject, l.object} \cap gone = {}}
      /\ UNCHANGED <<world, stack, failing, anchor>> /\ matter' \subseteq matter \cup jobs
  BY Zenon DEF Dropped, Drop, Rest
<1>3. stack = <<>> /\ stack' = <<>> /\ anchor \in jobs /\ anchor' \in jobs'
  BY <1>1, <1>2, Zenon DEF Inv, StackInv, Dropped
<1>4. StackInv' /\ ChainInv' /\ NewInv' /\ BuildInv'
  BY <1>1, <1>2, <1>3, NoCalls, Zenon DEF Inv, StackInv
<1>5. ahead' \subseteq jobs' \X jobs'
  BY <1>2, Zenon DEF Inv, TypeInv
<1>6. links' \subseteq [subject : jobs', object : jobs', matters : BOOLEAN, conflicts : BOOLEAN]
  <2> SUFFICES ASSUME NEW l \in links'
               PROVE  l \in [subject : jobs', object : jobs', matters : BOOLEAN, conflicts : BOOLEAN]
    BY Zenon
  <2>1. l \in [subject : jobs, object : jobs, matters : BOOLEAN, conflicts : BOOLEAN]
    BY <1>2, Zenon DEF Inv, TypeInv
  <2>2. l.subject \in jobs' /\ l.object \in jobs'
    BY <1>2, <2>1, Zenon
  <2> QED BY <2>1, <2>2, Zenon
<1>7. TypeInv'
  BY <1>1, <1>2, <1>5, <1>6, Zenon DEF Inv, TypeInv, world
<1>8. ListInv'
  BY <1>2 DEF Inv, ListInv, Dropped
<1>9. NopInv'
  BY <1>1, <1>2, <1>3, Zenon DEF Inv, NopInv
<1> QED BY <1>4, <1>7, <1>8, <1>9, Zenon

\* It keeps what matters to the anchor.
LEMMA DroppedMatter ==
  ASSUME Inv, NEW gone, Dropped(gone), matter' = matter, phase \in Dropping \/ phase' \notin Dropping
  PROVE  MatterInv'
  BY Zenon DEF Inv, MatterInv, Dropped, Drop, Rest

\* A job goes along with those that cannot be without it.
LEMMA DependentsClosed ==
  ASSUME TypeInv, NEW j \in jobs
  PROVE  /\ j \in Dependents(j) /\ Dependents(j) \subseteq jobs
         /\ \A l \in links : l.matters /\ l.object \in Dependents(j) => l.subject \in Dependents(j)
         /\ \A S \in SUBSET jobs :
               j \in S /\ (\A l \in links : l.matters /\ l.object \in S => l.subject \in S) => Dependents(j) \subseteq S
<1> DEFINE closed == {S \in SUBSET jobs : \A l \in links : l.matters /\ l.object \in S => l.subject \in S}
<1>1. Dependents(j) = {k \in jobs : \A S \in closed : j \in S => k \in S}
  BY Zenon DEF Dependents, TakesAlong
<1>2. j \in Dependents(j) /\ Dependents(j) \subseteq jobs
  BY <1>1, Zenon
<1>3. ASSUME NEW l \in links, l.matters, l.object \in Dependents(j) PROVE l.subject \in Dependents(j)
  <2>1. l.subject \in jobs
    BY Zenon DEF TypeInv
  <2>2. ASSUME NEW S \in closed, j \in S PROVE l.subject \in S
    BY <1>1, <1>3, <2>2, Zenon
  <2> QED BY <1>1, <2>1, <2>2, Zenon
<1>4. ASSUME NEW S \in SUBSET jobs, j \in S, \A l \in links : l.matters /\ l.object \in S => l.subject \in S
      PROVE  Dependents(j) \subseteq S
  BY <1>1, <1>4, Zenon
<1> QED BY <1>2, <1>3, <1>4, Zenon

\* Jobs that do not matter to the anchor go without one that does.
LEMMA DependentsMatter ==
  ASSUME Inv, phase \in Dropping, NEW j \in jobs \ matter
  PROVE  Dependents(j) \cap matter = {} /\ anchor \notin Dependents(j)
<1> DEFINE S == jobs \ matter
<1>1. S \in SUBSET jobs /\ j \in S /\ \A l \in links : l.matters /\ l.object \in S => l.subject \in S
  BY Zenon DEF Inv, TypeInv, MatterInv
<1>2. Dependents(j) \subseteq S
  BY <1>1, DependentsClosed, Zenon DEF Inv
<1> QED BY <1>2, Zenon DEF Inv, MatterInv

\* A unit that needs no job needs none later, unless redundant jobs are left behind.
LEMMA IdleKept ==
  ASSUME NEW gone, Dropped(gone), NEW d, Idle(d),
         phase' = phase \/ phase \notin {"redundant", "redundant again"} \/ Of(d) = {}
  PROVE  Idle(d)'
<1>1. jobs' \subseteq jobs /\ anchor' = anchor /\ active' = active /\ installed' = installed
  BY Zenon DEF Dropped, Drop, Rest, world
<1>2. Of(d)' \subseteq Of(d)
  BY <1>1, Zenon DEF Of
<1>3. \A j : Needed(j)' = Needed(j)
  BY <1>1, Zenon DEF Needed, ChangesExisting
<1>4. CASE Of(d) = {}
  BY <1>2, <1>4, Zenon DEF Idle
<1>5. CASE phase' = phase /\ Of(d) # {}
  BY <1>2, <1>3, <1>5, Zenon DEF Idle
<1> QED BY <1>4, <1>5, Zenon DEF Idle

\* The links of the jobs that stay are there as before if those that cannot be
\* without a dropped job are dropped, too.
LEMMA DroppedCollected ==
  ASSUME Inv, NEW gone, Dropped(gone),
         \A l \in links : l.matters /\ l.object \in gone => l.subject \in gone,
         \A d : Idle(d) => Idle(d)'
  PROVE  CollectedInv'
<1>1. /\ UNCHANGED world /\ jobs' = jobs \ gone
      /\ links' = {l \in links : {l.subject, l.object} \cap gone = {}}
      /\ phase \in Collected
  BY Zenon DEF Dropped, Drop, Rest
<1>2. ASSUME NEW j \in jobs', NEW k, Linked(j, k) PROVE Linked(j, k)'
  BY <1>1, <1>2, Zenon DEF Linked
<1>3. \A d : (IsUp(d) => IsUp(d)') /\ (IsDown(d) => IsDown(d)')
  BY <1>1, Zenon DEF IsUp, IsDown, world
<1>4. perpetual' = perpetual
  BY <1>1, Zenon DEF world
<1> SUFFICES ASSUME Heeding', NEW j \in jobs', j[2] \in BringUp
             PROVE  /\ Hypothesis' => \A d \in Dep(j[1], "PULL_IN_START")' :
                                          IsUp(d)' \/ \E t \in KeepUp : Linked(j, <<d, t>>)'
                    /\ \A d \in Dep(j[1], "PULL_IN_STOP")' :
                           d \in perpetual' \/ IsDown(d)' \/ Linked(j, <<d, "stop">>)'
  BY Zenon DEF CollectedInv
<1>5. /\ Hypothesis => \A d \in Dep(j[1], "PULL_IN_START") : IsUp(d) \/ \E t \in KeepUp : Linked(j, <<d, t>>)
      /\ \A d \in Dep(j[1], "PULL_IN_STOP") : d \in perpetual \/ IsDown(d) \/ Linked(j, <<d, "stop">>)
  BY <1>1, WorldSame, Zenon DEF Inv, CollectedInv
<1>6. ASSUME Hypothesis', NEW d \in Dep(j[1], "PULL_IN_START")'
      PROVE  IsUp(d)' \/ \E t \in KeepUp : Linked(j, <<d, t>>)'
  BY <1>1, <1>2, <1>3, <1>5, <1>6, WorldSame, Zenon
<1>7. ASSUME NEW d \in Dep(j[1], "PULL_IN_STOP")'
      PROVE  d \in perpetual' \/ IsDown(d)' \/ Linked(j, <<d, "stop">>)'
  BY <1>1, <1>2, <1>3, <1>4, <1>5, WorldSame, Zenon
<1> QED BY <1>6, <1>7, Zenon

\* So they are if the dropped job is one of a unit that needs no job.
LEMMA RedundantCollected ==
  ASSUME Inv, NEW gone, Dropped(gone), NEW x, gone = {x}, x \in jobs,
         phase \in {"redundant", "redundant again"}, phase' = phase,
         \A j \in Of(x[1]) : ~ Needed(j)
  PROVE  CollectedInv'
<1>1. /\ UNCHANGED world /\ jobs' = jobs \ gone
      /\ links' = {l \in links : {l.subject, l.object} \cap gone = {}}
      /\ phase \in Collected
  BY Zenon DEF Dropped, Drop, Rest
<1>2. \A d : Idle(d) => Idle(d)'
  BY IdleKept, Zenon
<1>3. \A d : (IsUp(d) => IsUp(d)') /\ (IsDown(d) => IsDown(d)')
  BY <1>1, <1>2, Zenon DEF IsUp, IsDown, world
<1>4. Idle(x[1]) /\ ~ Needed(x) /\ x \in Job
  BY Zenon DEF Idle, Of, Inv, TypeInv
<1>5. ASSUME NEW d, NEW t \in KeepUp, x = <<d, t>> PROVE IsUp(d)
  <2>1. d \in Units /\ active[d] \in UnitActiveState /\ installed[d] \in TransactionTypes \cup {"none"}
    BY <1>4, <1>5, Zenon DEF Inv, TypeInv, Job
  <2>2. job_type_is_redundant(t, active[d]) /\ ~ ChangesExisting(x)
    BY <1>4, <1>5, Zenon DEF Needed
  <2>3. IsActiveOrReloading(active[d])
    BY <2>2, Zenon DEF job_type_is_redundant, KeepUp, IsActiveOrReloading, IsInactiveOrFailed
  <2>4. installed[d] # "stop"
    BY <1>5, <2>2, Zenon DEF ChangesExisting, job_type_is_conflicting, job_type_is_mergeable, job_type_lookup_merge, KeepUp
  <2> QED BY <1>4, <1>5, <2>3, <2>4, Zenon DEF IsUp
<1>6. ASSUME NEW d, x = <<d, "stop">> PROVE IsDown(d)
  <2>1. d \in Units /\ installed[d] \in TransactionTypes \cup {"none"}
    BY <1>4, <1>6, Zenon DEF Inv, TypeInv, Job
  <2>2. job_type_is_redundant("stop", active[d]) /\ ~ ChangesExisting(x)
    BY <1>4, <1>6, Zenon DEF Needed
  <2>3. IsInactiveOrFailed(active[d])
    BY <2>2, Zenon DEF job_type_is_redundant
  <2>4. installed[d] \in {"none", "stop", "nop"}
    BY <1>6, <2>1, <2>2, Zenon
    DEF ChangesExisting, job_type_is_conflicting, job_type_is_mergeable, job_type_lookup_merge,
        TransactionTypes, MergingTypes
  <2> QED BY <1>4, <1>6, <2>3, <2>4, Zenon DEF IsDown
<1>7. ASSUME NEW j \in jobs', NEW k, Linked(j, k) PROVE Linked(j, k)' \/ k = x
  BY <1>1, <1>7, Zenon DEF Linked
<1>8. perpetual' = perpetual
  BY <1>1, Zenon DEF world
<1> SUFFICES ASSUME Heeding', NEW j \in jobs', j[2] \in BringUp
             PROVE  /\ Hypothesis' => \A d \in Dep(j[1], "PULL_IN_START")' :
                                          IsUp(d)' \/ \E t \in KeepUp : Linked(j, <<d, t>>)'
                    /\ \A d \in Dep(j[1], "PULL_IN_STOP")' :
                           d \in perpetual' \/ IsDown(d)' \/ Linked(j, <<d, "stop">>)'
  BY Zenon DEF CollectedInv
<1>9. /\ Hypothesis => \A d \in Dep(j[1], "PULL_IN_START") : IsUp(d) \/ \E t \in KeepUp : Linked(j, <<d, t>>)
      /\ \A d \in Dep(j[1], "PULL_IN_STOP") : d \in perpetual \/ IsDown(d) \/ Linked(j, <<d, "stop">>)
  BY <1>1, WorldSame, Zenon DEF Inv, CollectedInv
<1>10. ASSUME Hypothesis', NEW d \in Dep(j[1], "PULL_IN_START")'
       PROVE  IsUp(d)' \/ \E t \in KeepUp : Linked(j, <<d, t>>)'
  <2>1. IsUp(d) \/ \E t \in KeepUp : Linked(j, <<d, t>>)
    BY <1>1, <1>9, <1>10, WorldSame, Zenon
  <2> QED BY <1>3, <1>5, <1>7, <2>1, Zenon
<1>11. ASSUME NEW d \in Dep(j[1], "PULL_IN_STOP")'
       PROVE  d \in perpetual' \/ IsDown(d)' \/ Linked(j, <<d, "stop">>)'
  <2>1. d \in perpetual \/ IsDown(d) \/ Linked(j, <<d, "stop">>)
    BY <1>1, <1>9, WorldSame, Zenon
  <2> QED BY <1>3, <1>6, <1>7, <1>8, <2>1, Zenon
<1> QED BY <1>10, <1>11, Zenon

\* Dropping nothing.
LEMMA KeepDrops == ASSUME Keep PROVE Drop({})
  BY Zenon DEF Keep, Drop

\* A step that keeps all jobs.
LEMMA KeepInv ==
  ASSUME Inv, phase \in Collected, Keep, Rest, UNCHANGED anchor, matter' \subseteq matter \cup jobs,
         phase' \in Collected \cup {"failed", "aborted"}, phase' \in Merged => ahead = {},
         MatterInv',
         \A d : Idle(d) => Idle(d)'
  PROVE  Inv'
<1>1. Dropped({})
  BY KeepDrops, Zenon DEF Dropped, Keep
<1>2. CollectedInv'
  BY <1>1, DroppedCollected, Zenon
<1> QED BY <1>1, <1>2, DroppedSound, Zenon DEF Inv

\* A step that drops a job along with those that cannot be without it.
LEMMA ClosedDropInv ==
  ASSUME Inv, phase \in Dropping, NEW gone, Drop(gone), Rest, UNCHANGED <<anchor, matter>>,
         phase' \in Dropping, phase' = phase \/ phase # "redundant", anchor \notin gone,
         \A l \in links : l.matters /\ l.object \in gone => l.subject \in gone
  PROVE  Inv'
<1>1. Dropped(gone)
  BY Zenon DEF Dropped, Dropping, Collected, Merged
<1>2. MatterInv'
  BY <1>1, DroppedMatter, Zenon
<1>3. \A d : Idle(d) => Idle(d)'
  BY <1>1, IdleKept, Zenon DEF Dropping
<1>4. CollectedInv'
  BY <1>1, <1>3, DroppedCollected, Zenon
<1> QED BY <1>1, <1>2, <1>4, DroppedSound, Zenon DEF Inv

\* Finding out what matters to the anchor.
LEMMA FindInv == ASSUME Inv, transaction_find_jobs_that_matter_to_anchor PROVE Inv'
<1> DEFINE closed == {S \in SUBSET jobs : \A l \in links : l.matters /\ l.subject \in S => l.object \in S}
<1>1. /\ phase = "mark" /\ phase' = "minimize" /\ Keep /\ Rest /\ UNCHANGED anchor
      /\ matter' = {j \in jobs : \A S \in closed : anchor \in S => j \in S}
  BY Zenon DEF transaction_find_jobs_that_matter_to_anchor, Go
<1>2. anchor \in jobs
  BY <1>1, Zenon DEF Inv, StackInv
<1>3. anchor' \in matter'
  BY <1>1, <1>2, Zenon
<1>4. ASSUME NEW l \in links, l.matters, l.subject \in matter' PROVE l.object \in matter'
  <2>1. l.object \in jobs
    BY Zenon DEF Inv, TypeInv
  <2>2. ASSUME NEW S \in closed, anchor \in S PROVE l.object \in S
    BY <1>1, <1>4, <2>2, Zenon
  <2> QED BY <1>1, <2>1, <2>2, Zenon
<1>5. MatterInv'
  BY <1>1, <1>3, <1>4, Zenon DEF MatterInv, Keep
<1>6. \A d : Idle(d) => Idle(d)'
  BY <1>1, Zenon DEF Idle, Of, Keep
<1> QED BY <1>1, <1>5, <1>6, KeepInv, Zenon DEF Collected, Dropping, Merged

\* Dropping what stops a running service or changes an installed job.
LEMMA MinimizeInv == ASSUME Inv, transaction_minimize_impact PROVE Inv'
<1>1. /\ phase = "minimize" /\ Rest /\ UNCHANGED <<anchor, matter>>
      /\ \/ \E j \in jobs \ matter : transaction_delete_job(j, TRUE) /\ phase' = phase
         \/ Keep /\ phase' = "redundant"
  BY Zenon DEF transaction_minimize_impact, Go
<1>2. CASE Keep /\ phase' = "redundant"
  <2>1. MatterInv'
    BY <1>1, <1>2, Zenon DEF Inv, MatterInv, Keep, Dropping
  <2>2. \A d : Idle(d) => Idle(d)'
    BY <1>1, <1>2, Zenon DEF Idle, Of, Keep
  <2> QED BY <1>1, <1>2, <2>1, <2>2, KeepInv, Zenon DEF Collected, Dropping, Merged
<1>3. CASE \E j \in jobs \ matter : transaction_delete_job(j, TRUE) /\ phase' = phase
  <2>1. PICK j \in jobs \ matter : transaction_delete_job(j, TRUE) /\ phase' = phase
    BY <1>3, Zenon
  <2>2. Drop(Dependents(j))
    BY <2>1, Zenon DEF transaction_delete_job
  <2> QED BY <1>1, <2>1, <2>2, DependentsMatter, DependentsClosed, ClosedDropInv, Zenon DEF Inv, Dropping
<1> QED BY <1>1, <1>2, <1>3, Zenon

\* Dropping what is redundant.
LEMMA RedundantInv ==
  ASSUME Inv, NEW now, NEW next, transaction_drop_redundant(now, next),
         (now = "redundant" /\ next = "garbage") \/ (now = "redundant again" /\ next = "check")
  PROVE  Inv'
<1> DEFINE noops == {u \in Units : HasJobs(u) /\ \A j \in Of(u) : ~ Needed(j)}
<1>1. /\ phase = now /\ Rest /\ UNCHANGED <<anchor, matter>>
      /\ \/ \E u \in noops : \E j \in Of(u) : transaction_delete_job(j, FALSE) /\ phase' = phase
         \/ noops = {} /\ Keep /\ phase' = next
  BY Zenon DEF transaction_drop_redundant, Go
<1>2. now \in Dropping <=> next \in Dropping
  BY Zenon DEF Dropping
<1>3. CASE noops = {} /\ Keep /\ phase' = next
  <2>1. MatterInv'
    BY <1>1, <1>2, <1>3, Zenon DEF Inv, MatterInv, Keep
  <2>2. \A d : Idle(d) => Of(d) = {}
    <3> SUFFICES ASSUME NEW d, Idle(d), Of(d) # {} PROVE FALSE
      BY Zenon
    <3>1. d \in Units
      BY Zenon DEF Of, Inv, TypeInv, Job
    <3>2. d \in noops
      BY <3>1, Zenon DEF HasJobs, Idle
    <3> QED BY <1>3, <3>2, Zenon
  <2>3. \A d : Idle(d) => Idle(d)'
    BY <1>3, <2>2, Zenon DEF Idle, Of, Keep
  <2>4. phase' \in Merged => ahead = {}
    BY <1>1, <1>3, Zenon DEF Inv, ListInv, Merged
  <2> QED BY <1>1, <1>3, <2>1, <2>3, <2>4, KeepInv, Zenon DEF Collected, Dropping, Merged
<1>4. CASE \E u \in noops : \E j \in Of(u) : transaction_delete_job(j, FALSE) /\ phase' = phase
  <2>0. PICK u \in noops : \E j \in Of(u) : transaction_delete_job(j, FALSE) /\ phase' = phase
    BY <1>4, Zenon
  <2>1. PICK j \in Of(u) : transaction_delete_job(j, FALSE) /\ phase' = phase
    BY <2>0, Zenon
  <2>2. Drop({j}) /\ j \in jobs /\ j[1] = u /\ ~ Needed(j) /\ \A k \in Of(j[1]) : ~ Needed(k)
    BY <2>1, Zenon DEF transaction_delete_job, Of
  <2>3. anchor # j
    BY <2>2, Zenon DEF Needed
  <2>4. ahead = {} => ahead' = {}
    BY <2>2, Zenon DEF Drop
  <2>5. Dropped({j})
    BY <1>1, <2>1, <2>2, <2>3, <2>4, Zenon DEF Dropped, Collected, Dropping, Merged, Inv, ListInv
  <2>6. CollectedInv'
    BY <1>1, <2>1, <2>2, <2>5, RedundantCollected, Zenon
  <2>7. MatterInv'
    BY <1>1, <2>1, <2>5, DroppedMatter, Zenon
  <2> QED BY <2>5, <2>6, <2>7, DroppedSound, Zenon DEF Inv
<1> QED BY <1>1, <1>3, <1>4, Zenon

\* Dropping what nobody asks for.
LEMMA GarbageInv ==
  ASSUME Inv, NEW now, NEW next, transaction_collect_garbage(now, next),
         (now = "garbage" /\ next = "order") \/ (now = "garbage again" /\ next = "conflicts")
  PROVE  Inv'
<1>1. /\ phase = now /\ Rest /\ UNCHANGED <<anchor, matter>>
      /\ \/ \E j \in jobs \ {anchor} : /\ \A l \in links : l.object # j
                                       /\ transaction_delete_job(j, TRUE) /\ phase' = phase
         \/ Keep /\ phase' = next
  BY Zenon DEF transaction_collect_garbage, Go
<1>2. now \in Dropping /\ next \in Dropping
  BY Zenon DEF Dropping
<1>3. CASE Keep /\ phase' = next
  <2>1. MatterInv'
    BY <1>1, <1>2, <1>3, Zenon DEF Inv, MatterInv, Keep
  <2>2. \A d : Idle(d) => Idle(d)'
    BY <1>1, <1>3, Zenon DEF Idle, Of, Keep
  <2> QED BY <1>1, <1>2, <1>3, <2>1, <2>2, KeepInv, Zenon DEF Collected, Dropping, Merged
<1>4. CASE \E j \in jobs \ {anchor} : /\ \A l \in links : l.object # j
                                      /\ transaction_delete_job(j, TRUE) /\ phase' = phase
  <2>1. PICK j \in jobs \ {anchor} : /\ \A l \in links : l.object # j
                                     /\ transaction_delete_job(j, TRUE) /\ phase' = phase
    BY <1>4, Zenon
  <2>2. Drop(Dependents(j))
    BY <2>1, Zenon DEF transaction_delete_job
  <2>3. Dependents(j) \subseteq {j}
    <3>1. {j} \in SUBSET jobs /\ j \in {j} /\ \A l \in links : l.matters /\ l.object \in {j} => l.subject \in {j}
      BY <2>1, Zenon
    <3> QED BY <2>1, <3>1, DependentsClosed, Zenon DEF Inv
  <2> QED BY <1>1, <1>2, <2>1, <2>2, <2>3, DependentsClosed, ClosedDropInv, Zenon DEF Inv
<1> QED BY <1>1, <1>3, <1>4, Zenon

\* Breaking cycles of the order.
LEMMA OrderInv == ASSUME Inv, transaction_verify_order PROVE Inv'
<1>1. /\ phase = "order" /\ Rest /\ UNCHANGED <<anchor, matter>>
      /\ \/ Keep /\ phase' \in {"conflicts", "failed"}
         \/ \E u : /\ Of(u) \cap matter = {} /\ phase' = "garbage"
                   /\ Drop(UNION {Dependents(j) : j \in Of(u)})
  BY Zenon DEF transaction_verify_order, Go, Unbreakable
<1>2. CASE Keep /\ phase' \in {"conflicts", "failed"}
  <2>1. MatterInv'
    BY <1>1, <1>2, Zenon DEF Inv, MatterInv, Keep, Dropping
  <2>2. \A d : Idle(d) => Idle(d)'
    BY <1>1, <1>2, Zenon DEF Idle, Of, Keep
  <2> QED BY <1>1, <1>2, <2>1, <2>2, KeepInv, Zenon DEF Collected, Dropping, Merged
<1>3. CASE \E u : /\ Of(u) \cap matter = {} /\ phase' = "garbage"
                  /\ Drop(UNION {Dependents(j) : j \in Of(u)})
  <2>1. PICK u : /\ Of(u) \cap matter = {} /\ phase' = "garbage"
                 /\ Drop(UNION {Dependents(j) : j \in Of(u)})
    BY <1>3, Zenon
  <2> DEFINE gone == UNION {Dependents(j) : j \in Of(u)}
  <2>2. \A j \in Of(u) : j \in jobs \ matter
    BY <2>1, Zenon DEF Of
  <2>3. phase \in Dropping /\ phase' \in Dropping
    BY <1>1, <2>1, Zenon DEF Dropping
  <2>4. anchor \notin gone
    BY <2>2, <2>3, DependentsMatter, Zenon
  <2>5. \A l \in links : l.matters /\ l.object \in gone => l.subject \in gone
    BY <2>2, DependentsClosed DEF Inv
  <2>6. Drop(gone)
    BY <2>1, Zenon
  <2> HIDE DEF gone
  <2> QED BY <1>1, <2>3, <2>4, <2>5, <2>6, ClosedDropInv, Zenon
<1> QED BY <1>1, <1>2, <1>3, Zenon

\* Which of two jobs goes does not matter to the anchor.
LEMMA UnmergeableMatter ==
  ASSUME NEW j, NEW k PROVE delete_one_unmergeable_job(j, k) \subseteq {j, k} \ matter
  BY Zenon DEF delete_one_unmergeable_job

\* Dropping what does not merge.
LEMMA ConflictingInv == ASSUME Inv, DropConflicting PROVE Inv'
<1>1. /\ phase = "conflicts" /\ Rest /\ UNCHANGED <<anchor, matter>>
      /\ \/ Keep /\ phase' \in {"merge", "failed"}
         \/ \E u : \E j, k \in Of(u) : \E x \in delete_one_unmergeable_job(j, k) :
                transaction_delete_job(x, TRUE) /\ phase' = "garbage again"
  BY Zenon DEF DropConflicting, Go
<1>2. CASE Keep /\ phase' \in {"merge", "failed"}
  <2>1. MatterInv'
    BY <1>1, <1>2, Zenon DEF Inv, MatterInv, Keep, Dropping
  <2>2. \A d : Idle(d) => Idle(d)'
    BY <1>1, <1>2, Zenon DEF Idle, Of, Keep
  <2> QED BY <1>1, <1>2, <2>1, <2>2, KeepInv, Zenon DEF Collected, Dropping, Merged
<1>3. CASE \E u : \E j, k \in Of(u) : \E x \in delete_one_unmergeable_job(j, k) :
              transaction_delete_job(x, TRUE) /\ phase' = "garbage again"
  <2>1. PICK x \in jobs \ matter : transaction_delete_job(x, TRUE) /\ phase' = "garbage again"
    BY <1>3, UnmergeableMatter, Zenon DEF Of
  <2>2. Drop(Dependents(x))
    BY <2>1, Zenon DEF transaction_delete_job
  <2>3. phase \in Dropping /\ phase' \in Dropping
    BY <1>1, <2>1, Zenon DEF Dropping
  <2> QED BY <1>1, <2>1, <2>2, <2>3, DependentsMatter, DependentsClosed, ClosedDropInv, Zenon DEF Inv
<1> QED BY <1>1, <1>2, <1>3, Zenon

\* The last check.
LEMMA DestructiveInv == ASSUME Inv, transaction_is_destructive PROVE Inv'
<1>1. /\ phase = "check" /\ phase' \in {"failed", "apply"} /\ Keep /\ Rest /\ UNCHANGED <<anchor, matter>>
  BY Zenon DEF transaction_is_destructive, Go
<1>2. MatterInv'
  BY <1>1, Zenon DEF MatterInv, Dropping
<1>3. \A d : Idle(d) => Idle(d)'
  BY <1>1, Zenon DEF Idle, Of, Keep
<1>4. ahead = {}
  BY <1>1, Zenon DEF Inv, ListInv, Merged
<1> QED BY <1>1, <1>2, <1>3, <1>4, KeepInv, Zenon DEF Collected, Dropping, Merged

-----------------------------------------------------------------------------
(* transaction_activate: merging jobs.                                     *)

\* Two jobs merge to one of them; one that keeps its unit up stays one.
LEMMA MergeResult ==
  ASSUME NEW a \in MergingTypes, NEW b \in MergingTypes, a # b, NEW s,
         job_type_merge_and_collapse(a, b, s) # "unmergeable"
  PROVE  /\ a # "stop" /\ b # "stop"
         /\ job_type_merge_and_collapse(a, b, s) \in {a, b}
         /\ a \in KeepUp \/ b \in KeepUp => job_type_merge_and_collapse(a, b, s) \in KeepUp
<1> DEFINE t == job_type_merge_and_collapse(a, b, s)
<1>1. t = MergeStep(a, b, s)
  BY Zenon DEF MergeStep, MergingTypes
<1>2. /\ a # "stop" /\ b # "stop"
      /\ t = IF a = "restart" \/ b = "restart" THEN "restart"
             ELSE IF a = "verify" THEN b
             ELSE IF b = "verify" THEN a
             ELSE IF IsActiveOrReloading(s) THEN "reload" ELSE "start"
  BY <1>1, MergeStepTable DEF MergingTypes
<1> QED BY <1>2, Zenon DEF MergingTypes, KeepUp

\* What becomes of a job when j and k become one of type t.
Renamed(x, j, k, t) == IF x \in {j, k} THEN <<j[1], t>> ELSE x

RenamedLink(l, j, k, t) == [l EXCEPT !.subject = Renamed(@, j, k, t), !.object = Renamed(@, j, k, t)]

MergesTwo(j, k, t) ==
    /\ jobs' = {Renamed(x, j, k, t) : x \in jobs}
    /\ ahead' = {<<Renamed(p[1], j, k, t), Renamed(p[2], j, k, t)>> : p \in ahead \ {<<j, k>>}}
    /\ links' = {RenamedLink(l, j, k, t) : l \in links}
    /\ anchor' = Renamed(anchor, j, k, t)
    /\ matter' = {Renamed(x, j, k, t) : x \in matter}

\* Pairs.
LEMMA PairOf ==
  ASSUME NEW A, NEW B, NEW p \in A \X B PROVE p = <<p[1], p[2]>> /\ p[1] \in A /\ p[2] \in B
  OBVIOUS

\* What a merge keeps of jobs.
LEMMA RenamedJobs ==
  ASSUME NEW j \in Job, NEW k \in Job, j[1] = k[1], NEW t, t = j[2] \/ t = k[2]
  PROVE  /\ <<j[1], t>> = j \/ <<j[1], t>> = k
         /\ Renamed(j, j, k, t) = <<j[1], t>> /\ Renamed(k, j, k, t) = <<j[1], t>>
         /\ \A x \in Job : Renamed(x, j, k, t) \in Job /\ Renamed(x, j, k, t)[1] = x[1]
         /\ \A x, y \in Job : Renamed(x, j, k, t) = Renamed(y, j, k, t) => x = y \/ {x, y} \subseteq {j, k}
         /\ \A d, a : <<d, a>> \in {j, k} => d = j[1] /\ (a = j[2] \/ a = k[2])
<1>1. j = <<j[1], j[2]>> /\ k = <<k[1], k[2]>>
  BY PairOf DEF Job
<1>2. <<j[1], t>> = j \/ <<j[1], t>> = k
  BY <1>1, Zenon
<1>3. Renamed(j, j, k, t) = <<j[1], t>> /\ Renamed(k, j, k, t) = <<j[1], t>>
  BY Zenon DEF Renamed
<1>4. \A x \in Job : Renamed(x, j, k, t) \in Job /\ Renamed(x, j, k, t)[1] = x[1]
  BY <1>2, Zenon DEF Renamed
<1>5. \A x, y \in Job : Renamed(x, j, k, t) = Renamed(y, j, k, t) => x = y \/ {x, y} \subseteq {j, k}
  BY <1>2, Zenon DEF Renamed
<1>6. \A d, a : <<d, a>> \in {j, k} => d = j[1] /\ (a = j[2] \/ a = k[2])
  BY <1>1
<1> QED BY <1>2, <1>3, <1>4, <1>5, <1>6, Zenon

\* What it keeps of links.
LEMMA RenamedLinks ==
  ASSUME NEW A, NEW B, NEW j, NEW k, NEW t, \A x \in A : Renamed(x, j, k, t) \in B,
         NEW l \in [subject : A, object : A, matters : BOOLEAN, conflicts : BOOLEAN]
  PROVE  /\ RenamedLink(l, j, k, t) \in [subject : B, object : B, matters : BOOLEAN, conflicts : BOOLEAN]
         /\ RenamedLink(l, j, k, t).subject = Renamed(l.subject, j, k, t)
         /\ RenamedLink(l, j, k, t).object = Renamed(l.object, j, k, t)
         /\ RenamedLink(l, j, k, t).matters = l.matters
<1>1. l.subject \in A /\ l.object \in A /\ l.matters \in BOOLEAN /\ l.conflicts \in BOOLEAN
  BY Zenon
<1>2. Renamed(l.subject, j, k, t) \in B /\ Renamed(l.object, j, k, t) \in B
  BY <1>1, Zenon
<1>3. RenamedLink(l, j, k, t).subject = Renamed(l.subject, j, k, t)
  BY Zenon DEF RenamedLink
<1>4. RenamedLink(l, j, k, t).object = Renamed(l.object, j, k, t)
  BY Zenon DEF RenamedLink
<1>5. RenamedLink(l, j, k, t).matters = l.matters
  BY Zenon DEF RenamedLink
<1>6. RenamedLink(l, j, k, t) \in [subject : B, object : B, matters : BOOLEAN, conflicts : BOOLEAN]
  BY <1>1, <1>2, Zenon DEF RenamedLink
<1> QED BY <1>3, <1>4, <1>5, <1>6, Zenon

\* A step that merges two jobs.
LEMMA MergeTwoInv ==
  ASSUME Inv, phase = "merge", phase' = phase, Rest,
         NEW j \in jobs, NEW k \in jobs, First(j), <<j, k>> \in ahead,
         NEW t, t = job_type_merge_and_collapse(j[2], k[2], active[j[1]]), t # "unmergeable",
         MergesTwo(j, k, t)
  PROVE  Inv'
<1>1. /\ j \in Job /\ k \in Job /\ j # k /\ j[1] = k[1] /\ <<k, j>> \notin ahead
      /\ j = <<j[1], j[2]>> /\ k = <<k[1], k[2]>> /\ j[2] # k[2]
  <2>1. j \in Job /\ k \in Job
    BY Zenon DEF Inv, TypeInv
  <2>2. j = <<j[1], j[2]>> /\ k = <<k[1], k[2]>>
    BY <2>1, PairOf DEF Job
  <2>3. j # k /\ j[1] = k[1]
    BY Zenon DEF Inv, ListInv
  <2>4. <<k, j>> \notin ahead
    BY Zenon DEF First
  <2>5. j[2] # k[2]
    BY <2>2, <2>3, Zenon
  <2> QED BY <2>1, <2>2, <2>3, <2>4, <2>5, Zenon
<1>2. j[2] \in MergingTypes /\ k[2] \in MergingTypes
  <2>1. phase # "idle"
    BY Zenon
  <2>2. anchor[2] # "nop"
    BY <1>1, <2>1, Zenon DEF Inv, NopInv
  <2> QED BY <1>1, <2>2, Zenon DEF Inv, NopInv, Job, TransactionTypes
<1>3. t \in {j[2], k[2]} /\ j[2] # "stop" /\ k[2] # "stop" /\ (j[2] \in KeepUp \/ k[2] \in KeepUp => t \in KeepUp)
  BY <1>1, <1>2, MergeResult, Zenon
<1>5. /\ <<j[1], t>> = j \/ <<j[1], t>> = k
      /\ Renamed(j, j, k, t) = <<j[1], t>> /\ Renamed(k, j, k, t) = <<j[1], t>>
      /\ \A x \in Job : Renamed(x, j, k, t) \in Job /\ Renamed(x, j, k, t)[1] = x[1]
      /\ \A x, y \in Job : Renamed(x, j, k, t) = Renamed(y, j, k, t) => x = y \/ {x, y} \subseteq {j, k}
      /\ \A d, a : <<d, a>> \in {j, k} => d = j[1] /\ (a = j[2] \/ a = k[2])
  BY <1>1, <1>3, RenamedJobs
<1>6. \A x \in Job : Renamed(x, j, k, t)[2] = "nop" => Renamed(x, j, k, t) = x
  BY <1>2, <1>3, Zenon DEF Renamed, MergingTypes
<1>7. stack = <<>> /\ stack' = <<>> /\ anchor \in jobs /\ anchor \in Job /\ UNCHANGED <<world, failing>>
  BY Zenon DEF Inv, StackInv, Rest, TypeInv
<1>8. anchor' \in jobs'
  BY <1>7, Zenon DEF MergesTwo
<1>9. StackInv' /\ ChainInv' /\ NewInv' /\ BuildInv'
  BY <1>7, <1>8, NoCalls, Zenon DEF Inv, StackInv
<1>10. jobs' \subseteq Job /\ matter' \subseteq Job /\ anchor' \in Job
  BY <1>5, <1>7 DEF Inv, TypeInv, MergesTwo
<1>a. ASSUME NEW p \in ahead
      PROVE  /\ p = <<p[1], p[2]>> /\ p[1] \in jobs /\ p[2] \in jobs /\ p[1] \in Job /\ p[2] \in Job
             /\ p[1][1] = p[2][1] /\ p[1] # p[2]
  <2>1. p \in jobs \X jobs /\ jobs \subseteq Job
    BY Zenon DEF Inv, TypeInv
  <2>2. p = <<p[1], p[2]>> /\ p[1] \in jobs /\ p[2] \in jobs
    BY <2>1, PairOf, Zenon
  <2>3. p[1][1] = p[2][1] /\ p[1] # p[2]
    BY Zenon DEF Inv, ListInv
  <2> QED BY <2>1, <2>2, <2>3, Zenon
<1>b. \A x \in jobs : Renamed(x, j, k, t) \in jobs'
  BY Zenon DEF MergesTwo
<1>c. \A x \in jobs' : \E y \in jobs : x = Renamed(y, j, k, t)
  BY Zenon DEF MergesTwo
<1>d. \A q \in ahead' : \E p \in ahead \ {<<j, k>>} : q = <<Renamed(p[1], j, k, t), Renamed(p[2], j, k, t)>>
  BY Zenon DEF MergesTwo
<1>11. ahead' \subseteq jobs' \X jobs'
  <2> SUFFICES ASSUME NEW q \in ahead' PROVE q \in jobs' \X jobs'
    BY Zenon
  <2>1. PICK p \in ahead : q = <<Renamed(p[1], j, k, t), Renamed(p[2], j, k, t)>>
    BY <1>d, Zenon
  <2> QED BY <1>a, <1>b, <2>1, Zenon
<1>12. /\ links' \subseteq [subject : jobs', object : jobs', matters : BOOLEAN, conflicts : BOOLEAN]
       /\ \A l \in links : \E m \in links' : /\ m.subject = Renamed(l.subject, j, k, t) /\ m.object = Renamed(l.object, j, k, t)
                                             /\ m.matters = l.matters
  <2>1. ASSUME NEW l \in links
        PROVE  /\ RenamedLink(l, j, k, t) \in [subject : jobs', object : jobs', matters : BOOLEAN, conflicts : BOOLEAN]
               /\ RenamedLink(l, j, k, t).subject = Renamed(l.subject, j, k, t)
               /\ RenamedLink(l, j, k, t).object = Renamed(l.object, j, k, t)
               /\ RenamedLink(l, j, k, t).matters = l.matters
    <3>1. l \in [subject : jobs, object : jobs, matters : BOOLEAN, conflicts : BOOLEAN]
      BY Zenon DEF Inv, TypeInv
    <3> QED BY <1>b, <3>1, RenamedLinks
  <2>2. links' = {RenamedLink(l, j, k, t) : l \in links}
    BY Zenon DEF MergesTwo
  <2> QED BY <2>1, <2>2
<1>13. TypeInv'
  BY <1>7, <1>10, <1>11, <1>12, Zenon DEF Inv, TypeInv, world
<1>14. ListInv'
  <2>1. ASSUME NEW q \in ahead' PROVE q[1][1] = q[2][1] /\ q[1] # q[2]
    <3>1. PICK p \in ahead \ {<<j, k>>} : q = <<Renamed(p[1], j, k, t), Renamed(p[2], j, k, t)>>
      BY <1>d, Zenon
    <3>2. /\ p = <<p[1], p[2]>> /\ p[1] \in Job /\ p[2] \in Job
          /\ p[1][1] = p[2][1] /\ p[1] # p[2]
      BY <1>a, Zenon
    <3>3. ~ ({p[1], p[2]} \subseteq {j, k})
      BY <1>1, <3>2, Zenon
    <3> QED BY <1>5, <3>1, <3>2, <3>3, Zenon
  <2>2. ASSUME NEW x1 \in jobs', NEW y1 \in jobs', x1[1] = y1[1], x1 # y1
        PROVE  <<x1, y1>> \in ahead' \/ <<y1, x1>> \in ahead'
    <3>1. PICK x \in jobs, y \in jobs : x1 = Renamed(x, j, k, t) /\ y1 = Renamed(y, j, k, t)
      BY <1>c, Zenon
    <3>2. x \in Job /\ y \in Job /\ x # y /\ x[1] = y[1] /\ ~ ({x, y} \subseteq {j, k})
      BY <1>5, <2>2, <3>1, Zenon DEF Inv, TypeInv
    <3>3. <<x, y>> \in ahead \ {<<j, k>>} \/ <<y, x>> \in ahead \ {<<j, k>>}
      BY <3>1, <3>2, Zenon DEF Inv, ListInv
    <3>4. ASSUME NEW p \in ahead \ {<<j, k>>}
          PROVE  <<Renamed(p[1], j, k, t), Renamed(p[2], j, k, t)>> \in ahead'
      BY Zenon DEF MergesTwo
    <3>5. CASE <<x, y>> \in ahead \ {<<j, k>>}
      BY <3>1, <3>4, <3>5, Zenon
    <3>6. CASE <<y, x>> \in ahead \ {<<j, k>>}
      BY <3>1, <3>4, <3>6, Zenon
    <3> QED BY <3>3, <3>5, <3>6, Zenon
  <2> QED BY <2>1, <2>2, Zenon DEF ListInv, Merged
<1>15. NopInv'
  <2>1. anchor[2] # "nop"
    BY <1>1, Zenon DEF Inv, NopInv
  <2>2. \A x \in jobs : x[2] # "nop"
    BY <2>1, Zenon DEF Inv, NopInv
  <2>3. \A x \in jobs' : x[2] # "nop"
    BY <1>6, <1>c, <2>2 DEF Inv, TypeInv
  <2> QED BY <1>8, <2>3, Zenon DEF NopInv
<1>16. CollectedInv'
  <2>1. \A d : (IsUp(d) => IsUp(d)') /\ (IsDown(d) => IsDown(d)')
    <3>1. ASSUME NEW d, Idle(d) PROVE Idle(d)'
      <4>1. Of(d) = {}
        BY <3>1, Zenon DEF Idle
      <4>2. Of(d)' = {}
        <5>1. \A y \in jobs : y \in Job /\ y[1] # d
          BY <4>1, Zenon DEF Of, Inv, TypeInv
        <5>2. \A x \in jobs' : x[1] # d
          BY <1>5, <1>c, <5>1
        <5> QED BY <5>2, Zenon DEF Of
      <4> QED BY <4>2, Zenon DEF Idle
    <3> QED BY <1>7, <3>1, Zenon DEF IsUp, IsDown, world
  <2>2. ASSUME NEW x, NEW y, Linked(x, y) PROVE Linked(Renamed(x, j, k, t), Renamed(y, j, k, t))'
    BY <1>12, <2>2, Zenon DEF Linked
  <2> SUFFICES ASSUME Heeding', NEW x1 \in jobs', x1[2] \in BringUp
               PROVE  /\ Hypothesis' => \A d \in Dep(x1[1], "PULL_IN_START")' :
                                            IsUp(d)' \/ \E ty \in KeepUp : Linked(x1, <<d, ty>>)'
                      /\ \A d \in Dep(x1[1], "PULL_IN_STOP")' :
                             d \in perpetual' \/ IsDown(d)' \/ Linked(x1, <<d, "stop">>)'
    BY Zenon DEF CollectedInv
  <2>3. PICK x \in jobs : x1 = Renamed(x, j, k, t) /\ x[2] \in BringUp /\ x[1] = x1[1]
    <3>1. PICK y \in jobs : x1 = Renamed(y, j, k, t)
      BY <1>c, Zenon
    <3>2. CASE y \notin {j, k}
      BY <3>1, <3>2, Zenon DEF Renamed
    <3>3. CASE y \in {j, k}
      <4>1. x1 = Renamed(j, j, k, t) /\ x1 = Renamed(k, j, k, t) /\ x1 = <<j[1], t>>
        BY <1>5, <3>1, <3>3, Zenon
      <4> QED BY <1>1, <1>3, <4>1, Zenon
    <3> QED BY <3>2, <3>3, Zenon
  <2>4. /\ Hypothesis => \A d \in Dep(x[1], "PULL_IN_START") : IsUp(d) \/ \E ty \in KeepUp : Linked(x, <<d, ty>>)
        /\ \A d \in Dep(x[1], "PULL_IN_STOP") : d \in perpetual \/ IsDown(d) \/ Linked(x, <<d, "stop">>)
    BY <1>7, <2>3, WorldSame, Zenon DEF Inv, CollectedInv, Collected
  <2>5. ASSUME Hypothesis', NEW d \in Dep(x1[1], "PULL_IN_START")'
        PROVE  IsUp(d)' \/ \E ty \in KeepUp : Linked(x1, <<d, ty>>)'
    <3>1. IsUp(d) \/ \E ty \in KeepUp : Linked(x, <<d, ty>>)
      BY <1>7, <2>3, <2>4, <2>5, WorldSame, Zenon
    <3>2. ASSUME NEW ty \in KeepUp PROVE \E z \in KeepUp : Renamed(<<d, ty>>, j, k, t) = <<d, z>>
      <4>1. CASE <<d, ty>> \notin {j, k}
        BY <4>1, Zenon DEF Renamed
      <4>2. CASE <<d, ty>> \in {j, k}
        <5>1. d = j[1] /\ (ty = j[2] \/ ty = k[2])
          BY <1>5, <4>2
        <5>2. t \in KeepUp
          BY <1>3, <5>1, Zenon
        <5> QED BY <4>2, <5>1, <5>2, Zenon DEF Renamed
      <4> QED BY <4>1, <4>2, Zenon
    <3>3. ASSUME NEW ty \in KeepUp, Linked(x, <<d, ty>>) PROVE \E z \in KeepUp : Linked(x1, <<d, z>>)'
      <4>1. PICK z \in KeepUp : Renamed(<<d, ty>>, j, k, t) = <<d, z>>
        BY <3>2, Zenon
      <4>2. Linked(Renamed(x, j, k, t), Renamed(<<d, ty>>, j, k, t))'
        BY <2>2, <3>3, Zenon
      <4> QED BY <2>3, <4>1, <4>2, Zenon
    <3> QED BY <2>1, <3>1, <3>3, Zenon
  <2>6. ASSUME NEW d \in Dep(x1[1], "PULL_IN_STOP")'
        PROVE  d \in perpetual' \/ IsDown(d)' \/ Linked(x1, <<d, "stop">>)'
    <3>1. d \in perpetual \/ IsDown(d) \/ Linked(x, <<d, "stop">>)
      BY <1>7, <2>3, <2>4, WorldSame, Zenon
    <3>2. Renamed(<<d, "stop">>, j, k, t) = <<d, "stop">>
      <4>1. <<d, "stop">> # j /\ <<d, "stop">> # k
        BY <1>3, <1>5
      <4> QED BY <4>1, Zenon DEF Renamed
    <3>3. perpetual' = perpetual
      BY <1>7, Zenon DEF world
    <3> QED BY <2>1, <2>2, <2>3, <3>1, <3>2, <3>3, Zenon
  <2> QED BY <2>5, <2>6, Zenon
<1>17. MatterInv'
  BY Zenon DEF MatterInv, Dropping
<1> QED BY <1>9, <1>13, <1>14, <1>15, <1>16, <1>17, Zenon DEF Inv

\* Merging.
LEMMA MergeJobsInv == ASSUME Inv, MergeJobs PROVE Inv'
<1>1. phase = "merge" /\ Rest
  BY Zenon DEF MergeJobs
<1>2. CASE ahead = {} /\ Keep /\ phase' = "redundant again" /\ UNCHANGED <<anchor, matter>>
  <2>1. MatterInv'
    BY <1>2, Zenon DEF MatterInv, Dropping
  <2>2. \A d : Idle(d) => Idle(d)'
    BY <1>1, <1>2, Zenon DEF Idle, Of, Keep
  <2> QED BY <1>1, <1>2, <2>1, <2>2, KeepInv, Zenon DEF Collected, Dropping, Merged
<1>3. ASSUME NEW j \in jobs, NEW k \in jobs, First(j), JustAhead(j, k), transaction_merge_and_delete_job(j, k)
      PROVE  Inv'
  <2> DEFINE t == job_type_merge_and_collapse(j[2], k[2], active[j[1]])
  <2>1. CASE t = "unmergeable"
    <3>1. Keep /\ phase' = "aborted" /\ UNCHANGED <<anchor, matter>>
      BY <1>3, <2>1, Zenon DEF transaction_merge_and_delete_job, Go
    <3>2. MatterInv'
      BY <3>1, Zenon DEF MatterInv, Dropping
    <3>3. \A d : Idle(d) => Idle(d)'
      BY <1>1, <3>1, Zenon DEF Idle, Of, Keep
    <3> QED BY <1>1, <3>1, <3>2, <3>3, KeepInv, Zenon DEF Collected, Dropping, Merged
  <2>2. CASE t # "unmergeable"
    <3>1. MergesTwo(j, k, t) /\ phase' = phase
      BY <1>3, <2>2, Zenon DEF transaction_merge_and_delete_job, Go, Renamed, RenamedLink, MergesTwo
    <3>2. <<j, k>> \in ahead
      BY <1>3, Zenon DEF JustAhead
    <3> HIDE DEF t
    <3>3. t = job_type_merge_and_collapse(j[2], k[2], active[j[1]])
      BY Zenon DEF t
    <3>4. First(j) /\ t # "unmergeable" /\ phase = "merge" /\ Rest
      BY <1>1, <1>3, <2>2, Zenon DEF t
    <3> QED BY <3>1, <3>2, <3>3, <3>4, MergeTwoInv, Zenon
  <2> QED BY <2>1, <2>2, Zenon
<1> QED BY <1>2, <1>3, Zenon DEF MergeJobs, Go

-----------------------------------------------------------------------------
(* Collecting jobs: the request.                                           *)

\* The calls under way as a sequence: the topmost one returns.
LEMMA TailFacts ==
  ASSUME NEW S, NEW s \in Seq(S), s # <<>>
  PROVE  /\ Head(s) = s[1] /\ s[1] \in S /\ Tail(s) \in Seq(S) /\ Len(s) \in Nat /\ Len(s) > 0
         /\ Len(Tail(s)) = Len(s) - 1 /\ (Tail(s) = <<>> <=> Len(s) = 1)
         /\ \A i \in 1 .. Len(s) - 1 : Tail(s)[i] = s[i + 1]
<1>1. /\ Head(s) = s[1] /\ s[1] \in S /\ Tail(s) \in Seq(S) /\ Len(s) \in Nat /\ Len(s) > 0
      /\ Len(Tail(s)) = Len(s) - 1
  OBVIOUS
<1>2. \A i \in 1 .. Len(s) - 1 : Tail(s)[i] = s[i + 1]
  OBVIOUS
<1>3. Tail(s) = <<>> <=> Len(Tail(s)) = 0
  BY <1>1
<1> QED BY <1>1, <1>2, <1>3

\* The topmost one changes.
LEMMA UpdateFacts ==
  ASSUME NEW S, NEW s \in Seq(S), s # <<>>, NEW f \in S
  PROVE  /\ [s EXCEPT ![1] = f] \in Seq(S) /\ Len([s EXCEPT ![1] = f]) = Len(s)
         /\ [s EXCEPT ![1] = f][1] = f
         /\ \A i \in 2 .. Len(s) : [s EXCEPT ![1] = f][i] = s[i]
  OBVIOUS

\* A new one is made.
LEMMA PushFacts ==
  ASSUME NEW S, NEW s \in Seq(S), NEW f \in S
  PROVE  /\ <<f>> \o s \in Seq(S) /\ Len(<<f>> \o s) = Len(s) + 1
         /\ (<<f>> \o s)[1] = f
         /\ \A i \in 1 .. Len(s) : (<<f>> \o s)[i + 1] = s[i]
  OBVIOUS

\* To begin with there is nothing.
LEMMA InitInv == ASSUME Init PROVE Inv
<1>1. /\ jobs = {} /\ ahead = {} /\ links = {} /\ stack = <<>> /\ failing = FALSE /\ matter = {}
      /\ phase = "idle" /\ anchor = <<request.unit, "nop">> /\ request \in Requests /\ deps \in Graphs
      /\ active \in [Units -> States] /\ installed \in InstalledJobs
  BY Zenon DEF Init
<1>2. request.type \in JobType /\ request.unit \in Units /\ anchor \in Job
  BY <1>1, TransactionAssumption, Zenon DEF Job, TransactionTypes
<1>3. active \in [Units -> UnitActiveState]
  BY <1>1, TransactionAssumption, Zenon
<1>4. TypeInv
  <2>1. deps \subseteq Units \X UnitDependency \X Units
    BY <1>1, TransactionAssumption, Zenon
  <2>2. installed \in [Units -> TransactionTypes \cup {"none"}]
    BY <1>1, TransactionAssumption, Zenon
  <2>3. stack \in Seq(Frame)
    BY <1>1
  <2>4. failing \in BOOLEAN /\ phase \in Phase
    BY <1>1, Zenon DEF Phase
  <2> QED BY <1>1, <1>2, <1>3, <2>1, <2>2, <2>3, <2>4, Zenon DEF TypeInv
<1>5. ListInv /\ NopInv
  BY <1>1, Zenon DEF ListInv, NopInv, Merged
<1>6. StackInv
  BY <1>1 DEF StackInv
<1>7. ChainInv /\ NewInv /\ BuildInv
  BY <1>1 DEF ChainInv, NewInv, BuildInv
<1>8. CollectedInv /\ MatterInv
  BY <1>1, Zenon DEF CollectedInv, MatterInv, Collected, Dropping, Merged
<1> QED BY <1>4, <1>5, <1>6, <1>7, <1>8, Zenon DEF Inv

\* The request itself.
LEMMA AddJobInv == ASSUME Inv, manager_add_job(request) PROVE Inv'
<1>0. PICK u, t, extra, flags :
          /\ flags = AnchorFlags
          /\ u = request.unit /\ t = job_type_collapse(request.type, active[u])
          /\ extra = IF request.mode = "isolate" THEN Units
                     ELSE IF request.mode = "triggering" THEN Dep(u, "TriggeredBy") ELSE {}
  BY Zenon
<1> DEFINE j == <<u, t>>
           f == [job |-> j, todo |-> Calls(u, t, flags), cur |-> 0]
           g == [job |-> j, todo |-> ToDo(9, "stop", extra), cur |-> 6]
<1>1. /\ phase = "idle" /\ anchor' = j /\ jobs' = {j} /\ stack' = <<f, g>> /\ phase' = "build"
      /\ UNCHANGED <<world, ahead, links, failing, matter>>
      /\ request.mode = "isolate" => request.type = "start"
      /\ request.mode = "triggering" => request.type = "stop"
  BY <1>0, Zenon DEF manager_add_job
<1>2. jobs = {} /\ ahead = {} /\ links = {} /\ ~ failing
  BY <1>1, Zenon DEF Inv, TypeInv, StackInv
<1>3. u \in Units /\ t \in TransactionTypes /\ (t = "nop" => extra = {}) /\ extra \subseteq Units
  <2>1. u \in Units /\ request.type \in JobType
    BY <1>0, Zenon DEF Inv, TypeInv
  <2>2. t \in TransactionTypes
    BY <1>0, <2>1, Zenon DEF job_type_collapse, JobType, TransactionTypes, MergingTypes
  <2>3. t = "nop" => request.mode # "isolate" /\ request.mode # "triggering"
    BY <1>0, <1>1, Zenon DEF job_type_collapse
  <2>4. extra \subseteq Units
    BY <1>0, DepUnits, Zenon DEF Inv
  <2> QED BY <1>0, <2>1, <2>2, <2>3, <2>4, Zenon
<1>4. Calls(u, t, flags) \subseteq Item
  BY <1>3, CallsTyped, Zenon DEF Inv
<1>5. /\ \A item \in ToDo(9, "stop", extra) : item \in Item /\ item.rank = 9 /\ item.type = "stop"
      /\ t = "nop" => ToDo(9, "stop", extra) = {} /\ Calls(u, t, flags) = {}
  <2>1. ASSUME NEW item \in ToDo(9, "stop", extra) PROVE item \in Item /\ item.rank = 9 /\ item.type = "stop"
    <3>1. /\ item.rank = 9 /\ item.type = "stop" /\ item.unit \in Units
          /\ item = [rank |-> item.rank, type |-> item.type, unit |-> item.unit]
      BY <1>3, ToDoItems
    <3> QED BY <3>1 DEF Item, MergingTypes
  <2>2. t = "nop" => ToDo(9, "stop", extra) = {}
    BY <1>3, Zenon DEF ToDo
  <2>3. t = "nop" => Calls(u, t, flags) = {}
    BY Zenon DEF Calls
  <2> QED BY <2>1, <2>2, <2>3, Zenon
<1>6. j \in Job /\ f \in Frame /\ g \in Frame
  <2>1. j \in Job
    BY <1>3, Zenon DEF Job
  <2>2. ToDo(9, "stop", extra) \in SUBSET Item /\ Calls(u, t, flags) \in SUBSET Item
    BY <1>4, <1>5, Zenon
  <2>3. 0 \in 0..9 /\ 6 \in 0..9
    OBVIOUS
  <2> HIDE DEF j
  <2> QED BY <2>1, <2>2, <2>3, Zenon DEF Frame
<1>7. /\ stack' \in Seq(Frame) /\ Len(stack') = 2 /\ stack' # <<>> /\ 1 .. (Len(stack') - 1) = {1}
      /\ stack'[1] = f /\ stack'[2] = g
  BY <1>1, <1>6
<1>8. /\ stack'[1].job = j /\ stack'[1].todo = Calls(u, t, flags) /\ stack'[1].cur = 0
      /\ stack'[2].job = j /\ stack'[2].todo = ToDo(9, "stop", extra) /\ stack'[2].cur = 6
  BY <1>7
<1>9. TypeInv'
  BY <1>1, <1>2, <1>6, <1>7, Zenon DEF Inv, TypeInv, world, Phase
<1>10. ListInv'
  BY <1>1, <1>2, Zenon DEF ListInv, Merged
<1>11. NopInv'
  <2>1. anchor'[2] = t /\ \A i \in 1 .. Len(stack') : i = 1 \/ i = 2
    BY <1>1, <1>7, SMTT(30)
  <2> QED BY <1>1, <1>5, <1>8, <2>1, Zenon DEF NopInv
<1>12. StackInv'
  <2>1. (stack[1].todo \subseteq AllCalls(stack[1].job))'
    <3>1. stack'[1].job = anchor' /\ stack'[1].job[1] = u /\ stack'[1].job[2] = t
      BY <1>1, <1>8, Zenon
    <3>2. Calls(u, t, flags)' = Calls(u, t, flags) /\ flags = AnchorFlags'
      BY <1>0, <1>1, WorldSame, Zenon
    <3>3. Flags(stack[1].job)' = flags
      BY <3>1, <3>2, Zenon DEF Flags
    <3> QED BY <1>8, <3>1, <3>2, <3>3, Zenon DEF AllCalls
  <2>2. \A item \in stack'[1].todo : stack'[1].cur <= item.rank
    <3>1. \A item \in Item : 0 <= item.rank
      BY DEF Item
    <3> QED BY <1>4, <1>8, <3>1, Zenon
  <2>3. stack'[1].job \in jobs' /\ stack'[1].cur \notin 1..5 /\ anchor' \in jobs' /\ ~ failing'
    BY <1>1, <1>2, <1>8
  <2>4. \A item \in stack'[2].todo : item.rank = 9 /\ item.type = "stop"
    BY <1>5, <1>8, Zenon
  <2>5. stack'[2].job = anchor' /\ stack'[2].cur = 6 /\ stack'[1].job = anchor'
    BY <1>1, <1>8, Zenon
  <2> QED BY <1>1, <1>7, <2>1, <2>2, <2>3, <2>4, <2>5, SMTT(30) DEF StackInv
<1>13. ChainInv' /\ NewInv'
  BY <1>1, <1>7, <1>8 DEF ChainInv, NewInv
<1>14. BuildInv'
  <2>1. ASSUME Heeding', j[2] \in BringUp
        PROVE  /\ \A d \in Dep(u, "PULL_IN_START")' : Pending(j, d, 1)'
               /\ \A d \in Dep(u, "PULL_IN_STOP")' : Pending(j, d, 4)'
    <3>1. /\ \A d \in Dep(u, "PULL_IN_START") : CallsFor(Calls(u, t, flags), 1, d)
          /\ \A d \in Dep(u, "PULL_IN_STOP") : CallsFor(Calls(u, t, flags), 4, d)
      <4>1. "IGNORE_REQUIREMENTS" \notin flags /\ t \in BringUp
        BY <1>0, <1>1, <2>1, WorldSame, Zenon DEF Heeding, AnchorFlags
      <4> QED BY <4>1, CallsNeeded, Zenon
    <3>2. /\ Dep(u, "PULL_IN_START")' = Dep(u, "PULL_IN_START")
          /\ Dep(u, "PULL_IN_STOP")' = Dep(u, "PULL_IN_STOP")
      BY <1>1, WorldSame, Zenon
    <3> QED BY <1>7, <1>8, <3>1, <3>2 DEF Pending, CallsFor
  <2>2. u = j[1]
    BY Zenon
  <2> QED BY <1>1, <2>1, <2>2, Zenon DEF BuildInv
<1>15. CollectedInv' /\ MatterInv'
  BY <1>1, Zenon DEF CollectedInv, MatterInv, Collected, Dropping, Merged
<1> QED BY <1>9, <1>10, <1>11, <1>12, <1>13, <1>14, <1>15, Zenon DEF Inv

-----------------------------------------------------------------------------
(* Collecting jobs: one recursive call.                                    *)

\* The type of the job to add.
CallType(item) == IF item.rank = 7 THEN job_type_propagate_stop_graceful(item.unit) ELSE item.type

\* The topmost call.
LEMMA TopFrame ==
  ASSUME Inv, phase = "build"
  PROVE  /\ stack # <<>> /\ stack \in Seq(Frame) /\ Len(stack) \in Nat /\ Len(stack) > 0
         /\ \A i \in 1 .. Len(stack) : /\ stack[i] \in Frame /\ stack[i].job \in Job /\ stack[i].todo \subseteq Item
                                        /\ stack[i].cur \in 0..9
<1>1. stack # <<>> /\ stack \in Seq(Frame)
  BY Zenon DEF Inv, StackInv, TypeInv
<1>2. Len(stack) \in Nat /\ Len(stack) > 0 /\ \A i \in 1 .. Len(stack) : stack[i] \in Frame
  BY <1>1
<1> QED BY <1>1, <1>2, Zenon DEF Frame

\* What it may call for.
LEMMA TopCall ==
  ASSUME Inv, phase = "build", ~ failing, NEW item \in stack[1].todo, NEW t, t = CallType(item)
  PROVE  /\ item \in Item /\ item.unit \in Units /\ item.rank \in 0..9
         /\ anchor \in jobs /\ stack[1].job \in jobs /\ anchor[2] # "nop"
         /\ t \in TransactionTypes /\ (t = "nop" => item.rank = 7)
         /\ Len(stack) = 1 => item.rank = 9 /\ t = "stop"
         /\ Len(stack) > 1 => /\ item.rank # 9 /\ stack[1].cur <= item.rank
                              /\ item \in AllCalls(stack[1].job)
         /\ item.rank \in 1..5 => Len(stack) > 1 /\ stack[1].job[2] \in BringUp
         /\ item.rank = 1 => t = "start" /\ item.unit \in Dep(stack[1].job[1], "PULL_IN_START")
         /\ item.rank = 4 => t = "stop"
         /\ t = "start" /\ Matters(item.rank) => item.rank = 1
<1>1. /\ stack # <<>> /\ Len(stack) \in Nat /\ Len(stack) > 0 /\ stack[1].job \in Job
      /\ item \in Item /\ stack[1].cur \in 0..9
  BY TopFrame
<1>2. item.unit \in Units /\ item.rank \in 0..9 /\ item.type \in MergingTypes
  BY <1>1, Zenon DEF Item
<1>3. anchor \in jobs /\ stack[1].job \in jobs
  BY <1>1 DEF Inv, StackInv
<1>4. anchor[2] # "nop"
  BY <1>1 DEF Inv, NopInv
<1>5. t \in TransactionTypes /\ (t = "nop" => item.rank = 7) /\ (item.rank = 7 => t \in {"nop", "restart", "stop"})
  BY <1>2, Zenon DEF CallType, job_type_propagate_stop_graceful, TransactionTypes, MergingTypes
<1>6. Len(stack) = 1 => item.rank = 9 /\ t = "stop"
  <2>1. Len(stack) = 1 => item.rank = 9 /\ item.type = "stop"
    BY <1>1, Zenon DEF Inv, StackInv
  <2> QED BY <2>1 DEF CallType
<1>7. ASSUME Len(stack) > 1
      PROVE  item \in AllCalls(stack[1].job) /\ stack[1].cur <= item.rank
  BY <1>1, <1>7 DEF Inv, StackInv
<1>8. Len(stack) = 1 \/ Len(stack) > 1
  <2>1. \A n \in Nat : n > 0 => n = 1 \/ n > 1
    OBVIOUS
  <2> QED BY <1>1, <2>1, Zenon
<1>9. Len(stack) > 1 => item.rank # 9
  BY <1>7, CallsItem DEF AllCalls
<1>10. item.rank \in 1..5 => Len(stack) > 1 /\ stack[1].job[2] \in BringUp
  BY <1>6, <1>7, <1>8, CallsItem DEF AllCalls
<1>11. item.rank = 1 => t = "start" /\ item.unit \in Dep(stack[1].job[1], "PULL_IN_START")
  BY <1>6, <1>7, <1>8, CallsItem DEF CallType, AllCalls
<1>12. item.rank = 4 => t = "stop"
  BY <1>6, <1>7, <1>8, CallsItem DEF CallType, AllCalls
<1>13. t = "start" /\ Matters(item.rank) => item.rank = 1
  BY <1>5, <1>6, <1>7, <1>8, CallsItem DEF CallType, Matters, AllCalls
<1> QED BY <1>1, <1>2, <1>3, <1>4, <1>5, <1>6, <1>7, <1>9, <1>10, <1>11, <1>12, <1>13, ZenonT(30)

\* What is called for because of a start, other than the request itself.
LEMMA ChainCall ==
  ASSUME Inv, phase = "build", ~ failing, NEW item \in stack[1].todo, NEW t, t = CallType(item),
         NEW m \in 1 .. Len(stack) - 1, stack[m].job[2] = "start", stack[m].job # anchor
  PROVE  /\ t \in {"start", "stop", "verify"} /\ item.rank # 7
         /\ t = "start" /\ item.unit \notin Unloadable => LeadsToStart(stack[m].job[1], item.unit)
         /\ item.rank = 1 => stack[1].job[2] = "start" /\ LeadsToStart(stack[m].job[1], stack[1].job[1])
<1>1. /\ stack # <<>> /\ Len(stack) \in Nat /\ Len(stack) > 1 /\ 1 \in 1 .. m /\ 1 \in 1 .. Len(stack) - 1
      /\ stack[1].job \in Job /\ m \in Nat /\ 1 <= m /\ m <= Len(stack) - 1
  BY TopFrame
<1>2. /\ stack[1].job[2] \in {"start", "stop", "verify"} /\ item.rank # 7
      /\ stack[1].job[2] = "start" => LeadsToStart(stack[m].job[1], stack[1].job[1])
  BY <1>1, Zenon DEF Inv, ChainInv
<1>3. stack[1].job # anchor
  <2> SUFFICES ASSUME stack[1].job = anchor PROVE FALSE
    BY Zenon
  <2> DEFINE n == Len(stack)
  <2>1. stack[n].cur = 6 /\ stack[n - 1].job = anchor
    BY <1>1, Zenon DEF Inv, StackInv
  <2>2. n - 1 \in 1 .. n - 1
    BY <1>1
  <2>3. n - 1 = 1
    BY <1>1, <2>1, <2>2, Zenon DEF Inv, StackInv
  <2>4. m = 1
    <3> HIDE DEF n
    <3>1. m <= n - 1
      BY <1>1, Zenon DEF n
    <3> QED BY <1>1, <2>3, <3>1
  <2> QED BY <2>4, Zenon
<1>4. item \in Calls(stack[1].job[1], stack[1].job[2], {"PROCESS_PROPAGATE_STOP_GRACEFUL"})
  BY <1>1, <1>3, TopCall, Zenon DEF Flags, AllCalls
<1>5. /\ t = item.type
      /\ \/ item.rank = 0 /\ t = stack[1].job[2] /\ item.unit \in Following(stack[1].job[1])
         \/ item.rank = 1 /\ stack[1].job[2] = "start" /\ t = "start" /\ item.unit \in Dep(stack[1].job[1], "PULL_IN_START")
         \/ item.rank = 2 /\ stack[1].job[2] = "start" /\ t = "start"
            /\ item.unit \in Dep(stack[1].job[1], "PULL_IN_START_IGNORED")
         \/ item.rank \in 3..6 /\ t \in {"stop", "verify"}
  BY <1>2, <1>4, CallsItem DEF CallType, BringUp
<1>6. t = "start" => item.unit \in Starts(stack[1].job[1]) /\ LeadsToStart(stack[m].job[1], stack[1].job[1])
  <2>1. t = "start" => stack[1].job[2] = "start"
    BY <1>5
  <2>2. t = "start" => stack[1].job[1] \notin Unloadable
    BY <1>2, <2>1, Zenon DEF LeadsToStart
  <2> QED BY <1>2, <1>5, <2>1, <2>2, Zenon DEF Starts
<1>7. t = "start" /\ item.unit \notin Unloadable => LeadsToStart(stack[m].job[1], item.unit)
  BY <1>6, Zenon DEF LeadsToStart
<1> QED BY <1>2, <1>5, <1>7

\* The calls under way when the topmost one has made a call.
Caller(item) == [stack[1] EXCEPT !.todo = @ \ {item}, !.cur = item.rank]
Resumed(item) == [stack EXCEPT ![1] = Caller(item)]
Link(item, t) == [subject |-> stack[1].job, object |-> <<item.unit, t>>,
                  matters |-> Matters(item.rank), conflicts |-> Conflicts(item.rank)]

\* Only the topmost one has changed.
LEMMA ResumedFacts ==
  ASSUME Inv, phase = "build", ~ failing, NEW item \in stack[1].todo
  PROVE  /\ Resumed(item) \in Seq(Frame) /\ Len(Resumed(item)) = Len(stack) /\ Resumed(item) # <<>>
         /\ Resumed(item)[1].job = stack[1].job /\ Resumed(item)[1].todo = stack[1].todo \ {item}
         /\ Resumed(item)[1].cur = item.rank
         /\ \A i \in 2 .. Len(stack) : Resumed(item)[i] = stack[i]
         /\ \A i \in 1 .. Len(stack) : /\ Resumed(item)[i].job = stack[i].job
                                        /\ Resumed(item)[i].todo \subseteq stack[i].todo
<1>1. /\ stack # <<>> /\ stack \in Seq(Frame) /\ Len(stack) \in Nat /\ Len(stack) > 0 /\ stack[1] \in Frame
      /\ stack[1].job \in Job /\ stack[1].todo \subseteq Item
  BY TopFrame
<1>2. item.rank \in 0..9
  BY TopCall, Zenon
<1>3. Caller(item).job = stack[1].job
  BY <1>1, Zenon DEF Caller, Frame
<1>4. Caller(item).todo = stack[1].todo \ {item}
  BY <1>1, Zenon DEF Caller, Frame
<1>5. Caller(item).cur = item.rank
  BY <1>1, Zenon DEF Caller, Frame
<1>6. Caller(item) \in Frame
  <2>1. stack[1].todo \ {item} \in SUBSET Item
    BY <1>1, Zenon
  <2> QED BY <1>1, <1>2, <2>1, Zenon DEF Caller, Frame
<1>7. /\ Resumed(item) \in Seq(Frame) /\ Len(Resumed(item)) = Len(stack)
      /\ Resumed(item)[1] = Caller(item)
      /\ \A i \in 2 .. Len(stack) : Resumed(item)[i] = stack[i]
  BY <1>1, <1>6, UpdateFacts DEF Resumed
<1>8. Resumed(item) # <<>>
  BY <1>1, <1>7
<1>9. \A i \in 1 .. Len(stack) : i = 1 \/ i \in 2 .. Len(stack)
  BY <1>1
<1> QED BY <1>3, <1>4, <1>5, <1>7, <1>8, <1>9, Zenon

\* One more link between jobs of the transaction.
LEMMA LinkTyped ==
  ASSUME Inv, NEW item, NEW t, stack[1].job \in jobs, NEW J, jobs \subseteq J, <<item.unit, t>> \in J
  PROVE  links \cup {Link(item, t)} \subseteq [subject : J, object : J, matters : BOOLEAN, conflicts : BOOLEAN]
<1>1. Link(item, t) \in [subject : J, object : J, matters : BOOLEAN, conflicts : BOOLEAN]
  BY DEF Link, Matters, Conflicts
<1>2. \A l \in links : l \in [subject : J, object : J, matters : BOOLEAN, conflicts : BOOLEAN]
  BY Zenon DEF Inv, TypeInv
<1> QED BY <1>1, <1>2, Zenon

\* Its fields.
LEMMA LinkFields ==
  ASSUME NEW item, NEW t
  PROVE  /\ Link(item, t).subject = stack[1].job /\ Link(item, t).object = <<item.unit, t>>
         /\ Link(item, t).matters <=> Matters(item.rank)
  BY Zenon DEF Link, Matters

\* A call that adds no job.
LEMMA NoNewJobInv ==
  ASSUME Inv, phase = "build", ~ failing, NEW item \in stack[1].todo, NEW t, t = CallType(item),
         \A x \in stack[1].todo : item.rank <= x.rank,
         stack' = Resumed(item), UNCHANGED <<world, anchor, matter, phase, jobs, ahead>>,
         failing' \in BOOLEAN, failing' => Unloadable # {} /\ Fatal(item.rank),
         \/ links' = links
         \/ links' = links \cup {Link(item, t)} /\ <<item.unit, t>> \in jobs,
         item.rank = 1 => failing' \/ links' = links \cup {Link(item, t)},
         item.rank = 4 => item.unit \in perpetual \/ links' = links \cup {Link(item, t)}
  PROVE  Inv'
<1> DEFINE n == Len(stack)
<1>1. /\ stack # <<>> /\ n \in Nat /\ n > 0 /\ stack[1].job \in Job
      /\ \A i \in 1 .. n : stack[i].todo \subseteq Item /\ stack[i].cur \in 0..9
  BY TopFrame
<1>2. /\ item \in Item /\ item.unit \in Units /\ item.rank \in 0..9
      /\ anchor \in jobs /\ stack[1].job \in jobs /\ anchor[2] # "nop"
      /\ t \in TransactionTypes
      /\ n = 1 => item.rank = 9
      /\ n > 1 => item.rank # 9
      /\ item.rank \in 1..5 => n > 1 /\ stack[1].job[2] \in BringUp
      /\ item.rank = 1 => t = "start" /\ item.unit \in Dep(stack[1].job[1], "PULL_IN_START")
      /\ item.rank = 4 => t = "stop"
      /\ t = "start" /\ Matters(item.rank) => item.rank = 1
  BY TopCall, Zenon
<1>3. /\ stack' \in Seq(Frame) /\ Len(stack') = n /\ stack' # <<>>
      /\ stack'[1].job = stack[1].job /\ stack'[1].todo = stack[1].todo \ {item} /\ stack'[1].cur = item.rank
      /\ \A i \in 2 .. n : stack'[i] = stack[i]
      /\ \A i \in 1 .. n : stack'[i].job = stack[i].job /\ stack'[i].todo \subseteq stack[i].todo
  BY ResumedFacts, Zenon
<1>4. links' \subseteq [subject : jobs', object : jobs', matters : BOOLEAN, conflicts : BOOLEAN]
  <2>1. CASE links' = links
    BY <2>1, Zenon DEF Inv, TypeInv
  <2>2. CASE links' = links \cup {Link(item, t)} /\ <<item.unit, t>> \in jobs
    BY <1>2, <2>2, LinkTyped, Zenon
  <2> QED BY <2>1, <2>2, Zenon
<1>5. TypeInv'
  BY <1>3, <1>4, Zenon DEF Inv, TypeInv, world
<1>6. ListInv'
  BY Zenon DEF Inv, ListInv
<1>7. NopInv'
  BY <1>2, Zenon DEF Inv, NopInv
<1> HIDE DEF n
<1>8. StackInv'
  <2>1. ASSUME NEW i \in 1 .. n - 1
        PROVE  /\ stack'[i].job \in jobs' /\ (stack[i].todo \subseteq AllCalls(stack[i].job))'
               /\ \A x \in stack'[i].todo : stack'[i].cur <= x.rank
               /\ stack'[i].cur \in 1..5 => stack'[i].job[2] \in BringUp
    <3>1. /\ stack[i].job \in jobs /\ stack[i].todo \subseteq AllCalls(stack[i].job)
          /\ \A x \in stack[i].todo : stack[i].cur <= x.rank
          /\ stack[i].cur \in 1..5 => stack[i].job[2] \in BringUp
      BY Zenon DEF Inv, StackInv, n
    <3>2. i \in 1 .. n /\ (i = 1 \/ i \in 2 .. n)
      BY <1>1
    <3>3. stack'[i].job = stack[i].job /\ stack'[i].todo \subseteq stack[i].todo
      BY <1>3, <3>2, Zenon
    <3>4. (stack[i].todo \subseteq AllCalls(stack[i].job))'
      BY <3>1, <3>3, AllCallsSame, Zenon
    <3>5. CASE i = 1
      BY <1>2, <1>3, <3>1, <3>3, <3>4, <3>5, Zenon
    <3>6. CASE i \in 2 .. n
      BY <1>3, <3>1, <3>3, <3>4, <3>6, Zenon
    <3> QED BY <3>2, <3>5, <3>6, Zenon
  <2>2. \A i, k \in 1 .. n - 1 : stack'[i].job = stack'[k].job => i = k
    <3>1. \A i \in 1 .. n - 1 : i \in 1 .. n /\ stack'[i].job = stack[i].job
      BY <1>1, <1>3
    <3>2. \A i, k \in 1 .. n - 1 : stack[i].job = stack[k].job => i = k
      BY Zenon DEF Inv, StackInv, n
    <3> QED BY <3>1, <3>2, ZenonT(30)
  <2>3. /\ stack[n].job = anchor /\ stack[n].cur \in {6, 9}
        /\ \A x \in stack[n].todo : x.rank = 9 /\ x.type = "stop"
        /\ stack[n].cur = 6 /\ n > 1 => stack[n - 1].job = anchor
        /\ stack[n].cur = 9 => \A i \in 1 .. n - 1 : stack[i].job # anchor
    BY <1>1, Zenon DEF Inv, StackInv, n
  <2>4. /\ n \in 1 .. n /\ (n = 1 \/ (n > 1 /\ n \in 2 .. n /\ n - 1 \in 1 .. n))
        /\ \A i \in 1 .. n - 1 : i \in 1 .. n
    BY <1>1
  <2>5. /\ stack'[n].job = anchor' /\ stack'[n].cur \in {6, 9}
        /\ \A x \in stack'[n].todo : x.rank = 9 /\ x.type = "stop"
        /\ stack'[n].cur = 6 /\ n > 1 => stack'[n - 1].job = anchor'
        /\ stack'[n].cur = 9 => \A i \in 1 .. n - 1 : stack'[i].job # anchor'
    <3>1. stack'[n].job = anchor' /\ stack'[n].todo \subseteq stack[n].todo
      BY <1>3, <2>3, <2>4, ZenonT(30)
    <3>2. CASE n = 1
      <4>1. stack'[n].cur = 9 /\ 1 .. n - 1 = {}
        BY <1>2, <1>3, <3>2, SMTT(30)
      <4> QED BY <2>3, <3>1, <4>1, SMTT(30)
    <3>3. CASE n > 1
      <4>1. stack'[n] = stack[n] /\ stack'[n - 1].job = stack[n - 1].job
        BY <1>3, <2>4, <3>3
      <4> QED BY <1>3, <2>3, <2>4, <4>1, SMTT(30)
    <3> QED BY <2>4, <3>2, <3>3, Zenon
  <2>6. /\ failing' => Fatal(stack'[1].cur)
        /\ anchor' \in jobs' /\ phase' = "build"
    BY <1>2, <1>3, Zenon
  <2>7. Len(stack') = n
    BY <1>3, Zenon
  <2> QED BY <1>3, <2>1, <2>2, <2>5, <2>6, <2>7, Zenon DEF StackInv
<1>9. ChainInv'
  <2> SUFFICES ASSUME NEW m \in 1 .. n - 1, NEW i \in 1 .. m, stack'[m].job[2] = "start", stack'[m].job # anchor'
               PROVE  /\ stack'[i].job[2] \in {"start", "stop", "verify"}
                      /\ \A x \in stack'[i].todo : x.rank # 7
                      /\ stack'[i].job[2] = "start" => LeadsToStart(stack[m].job[1], stack[i].job[1])'
    BY <1>3, Zenon DEF ChainInv
  <2>1. m \in 1 .. n /\ i \in 1 .. n
    BY <1>1
  <2>2. stack'[m].job = stack[m].job /\ stack'[i].job = stack[i].job /\ stack'[i].todo \subseteq stack[i].todo
    BY <1>3, <2>1, Zenon
  <2>3. /\ stack[i].job[2] \in {"start", "stop", "verify"}
        /\ \A x \in stack[i].todo : x.rank # 7
        /\ stack[i].job[2] = "start" => LeadsToStart(stack[m].job[1], stack[i].job[1])
    BY <2>2, Zenon DEF Inv, ChainInv, n
  <2> QED BY <2>2, <2>3, WorldSame, Zenon
<1>10. NewInv'
  <2> SUFFICES ASSUME ~ StartLoop, NEW i \in 1 .. n - 1, NEW l \in links',
                      stack'[i].job[2] = "start", stack'[i].job # anchor', l.object = stack'[i].job, l.matters
               PROVE  l.subject = stack'[i + 1].job /\ stack'[i + 1].cur = 1
    BY <1>3, WorldSame, ZenonT(30) DEF NewInv
  <2>1. i \in 1 .. n /\ i + 1 \in 2 .. n
    BY <1>1
  <2>2. stack'[i].job = stack[i].job /\ stack'[i + 1] = stack[i + 1]
    BY <1>3, <2>1, Zenon
  <2>3. CASE l \in links
    BY <2>2, <2>3, ZenonT(30) DEF Inv, NewInv, n
  <2>4. CASE l = Link(item, t)
    <3>1. item.rank = 1 /\ <<item.unit, t>> = stack[i].job
      BY <1>2, <2>2, <2>4, LinkFields, SMTT(60)
    <3>2. stack[1].job[2] = "start" /\ LeadsToStart(stack[i].job[1], stack[1].job[1])
      BY <2>2, <3>1, ChainCall, SMTT(60) DEF n
    <3>3. item.unit \in Dep(stack[1].job[1], "PULL_IN_START") /\ LeadsToStart(item.unit, stack[1].job[1])
      BY <1>2, <3>1, <3>2
    <3>4. stack[1].job[1] \in Units
      BY <1>1, Zenon DEF Job
    <3>5. stack[1].job[1] \in Units \ Unloadable
      BY <3>3, <3>4, Zenon DEF LeadsToStart
    <3>6. StartLoop
      BY <3>3, <3>5, Zenon DEF StartLoop, LeadsToStart
    <3> QED BY <3>6, Zenon
  <2> QED BY <2>3, <2>4, Zenon
<1>11. BuildInv'
  <2>0. PICK c : c = stack[1].job /\ c = stack'[1].job
    BY <1>3, Zenon
  <2>1. /\ \A j, k : Linked(j, k) => Linked(j, k)'
        /\ links' = links \cup {Link(item, t)} /\ Matters(item.rank) => Linked(c, <<item.unit, t>>)'
    <3>1. \A j, k : Linked(j, k) => Linked(j, k)'
      BY Zenon DEF Linked
    <3>2. links' = links \cup {Link(item, t)} /\ Matters(item.rank) => Linked(c, <<item.unit, t>>)'
      BY <2>0, LinkFields, Zenon DEF Linked
    <3> QED BY <3>1, <3>2, Zenon
  <2>2. ASSUME NEW j, NEW d, NEW rank \in {1, 4}, Pending(j, d, rank)
        PROVE  Pending(j, d, rank)' \/ (j = c /\ item.rank = rank /\ item.unit = d)
    <3>1. PICK i \in 1 .. n - 1 : stack[i].job = j /\ \E x \in stack[i].todo : x.rank = rank /\ x.unit = d
      BY <2>2, Zenon DEF Pending, CallsFor, n
    <3>2. PICK x \in stack[i].todo : x.rank = rank /\ x.unit = d
      BY <3>1, ZenonT(30)
    <3>3. i \in 1 .. n /\ (i = 1 \/ i \in 2 .. n)
      BY <1>1
    <3>4. CASE x \in stack'[i].todo
      BY <1>3, <3>1, <3>2, <3>3, <3>4, Zenon DEF Pending, CallsFor
    <3>5. CASE x \notin stack'[i].todo
      BY <1>3, <2>0, <3>1, <3>2, <3>3, <3>5, Zenon
    <3> QED BY <3>4, <3>5, Zenon
  <2>3. ASSUME item.rank = 1
        PROVE  Linked(c, <<item.unit, "start">>)' \/ \A d : Pending(c, d, 1)'
    <3>1. CASE links' = links \cup {Link(item, t)}
      BY <1>2, <2>1, <2>3, <3>1, Zenon DEF Matters
    <3>2. CASE failing'
      <4>1. 1 \in 1 .. n - 1 /\ stack'[1].cur \in 1..5 /\ stack'[1].job = stack[1].job
        BY <1>1, <1>2, <1>3, <2>3
      <4> QED BY <1>3, <2>0, <3>2, <4>1, ZenonT(30) DEF Pending, CallsFor
    <3> QED BY <2>3, <3>1, <3>2, Zenon
  <2>4. ASSUME item.rank = 4
        PROVE  item.unit \in perpetual \/ Linked(c, <<item.unit, "stop">>)'
    BY <1>2, <2>1, <2>4, Zenon DEF Matters
  <2> SUFFICES ASSUME Heeding', NEW j \in jobs, j[2] \in BringUp
               PROVE  /\ Hypothesis' => \A d \in Dep(j[1], "PULL_IN_START")' :
                                            Linked(j, <<d, "start">>)' \/ Pending(j, d, 1)'
                      /\ \A d \in Dep(j[1], "PULL_IN_STOP")' :
                            d \in perpetual' \/ Linked(j, <<d, "stop">>)' \/ Pending(j, d, 4)'
    BY Zenon DEF BuildInv
  <2>5. /\ Hypothesis => \A d \in Dep(j[1], "PULL_IN_START") : Linked(j, <<d, "start">>) \/ Pending(j, d, 1)
        /\ \A d \in Dep(j[1], "PULL_IN_STOP") : d \in perpetual \/ Linked(j, <<d, "stop">>) \/ Pending(j, d, 4)
    BY <1>2, WorldSame, Zenon DEF Inv, BuildInv
  <2>6. /\ Dep(j[1], "PULL_IN_START")' = Dep(j[1], "PULL_IN_START")
        /\ Dep(j[1], "PULL_IN_STOP")' = Dep(j[1], "PULL_IN_STOP")
        /\ Hypothesis' = Hypothesis /\ perpetual' = perpetual
    BY WorldSame, Zenon DEF world
  <2>7. ASSUME Hypothesis, NEW d \in Dep(j[1], "PULL_IN_START")
        PROVE  Linked(j, <<d, "start">>)' \/ Pending(j, d, 1)'
    <3>1. Linked(j, <<d, "start">>) \/ Pending(j, d, 1)
      BY <2>5, <2>7, Zenon
    <3> QED BY <2>1, <2>2, <2>3, <3>1, Zenon
  <2>8. ASSUME NEW d \in Dep(j[1], "PULL_IN_STOP")
        PROVE  d \in perpetual \/ Linked(j, <<d, "stop">>)' \/ Pending(j, d, 4)'
    <3>1. d \in perpetual \/ Linked(j, <<d, "stop">>) \/ Pending(j, d, 4)
      BY <2>5, <2>8, Zenon
    <3> QED BY <2>1, <2>2, <2>4, <3>1, Zenon
  <2> QED BY <2>6, <2>7, <2>8, Zenon
<1>12. CollectedInv' /\ MatterInv'
  BY Zenon DEF CollectedInv, MatterInv, Collected, Dropping, Merged
<1> QED BY <1>5, <1>6, <1>7, <1>8, <1>9, <1>10, <1>11, <1>12, ZenonT(30) DEF Inv

\* The new call goes on top of those under way.
Pushes(item, j, todo) == stack' = <<[job |-> j, todo |-> todo, cur |-> 0]>> \o Resumed(item)

\* All but the first of the calls were there before.
LEMMA LaterIndex ==
  ASSUME NEW n \in Nat, NEW k \in 1 .. n - 1, NEW i \in 1 .. k + 1
  PROVE  i = 1 \/ \E h \in 1 .. k : i = h + 1 /\ h \in 1 .. n
<1> SUFFICES ASSUME i # 1 PROVE i - 1 \in 1 .. k /\ i = (i - 1) + 1 /\ i - 1 \in 1 .. n
  BY Zenon
<1> QED OBVIOUS

\* A call that adds a job.
LEMMA NewJobInv ==
  ASSUME Inv, phase = "build", ~ failing, NEW item \in stack[1].todo, NEW t, t = CallType(item), t # "nop",
         \A x \in stack[1].todo : item.rank <= x.rank,
         NEW u, u = item.unit, ~ CannotLoad(u, t), NEW j, j = <<u, t>>, j \notin jobs,
         NEW todo, todo = Calls(u, t, IF item.rank = 7 THEN {"PROCESS_PROPAGATE_STOP_GRACEFUL"} ELSE {}),
         Pushes(item, j, todo),
         transaction_add_one_job(j), links' = links \cup {Link(item, t)},
         UNCHANGED <<world, anchor, matter, phase, failing>>
  PROVE  Inv'
<1> DEFINE n == Len(stack)
           f == [job |-> j, todo |-> todo, cur |-> 0]
<1>1. /\ stack # <<>> /\ n \in Nat /\ n > 0 /\ stack[1].job \in Job
      /\ \A i \in 1 .. n : stack[i].todo \subseteq Item /\ stack[i].cur \in 0..9
  BY TopFrame
<1>2. /\ item \in Item /\ u \in Units /\ item.rank \in 0..9
      /\ anchor \in jobs /\ stack[1].job \in jobs /\ anchor[2] # "nop"
      /\ t \in TransactionTypes
      /\ n = 1 => item.rank = 9
      /\ n > 1 => item.rank # 9
      /\ item.rank \in 1..5 => n > 1 /\ stack[1].job[2] \in BringUp
      /\ item.rank = 1 => t = "start" /\ u \in Dep(stack[1].job[1], "PULL_IN_START")
      /\ item.rank = 4 => t = "stop"
      /\ t = "start" /\ Matters(item.rank) => item.rank = 1
  BY TopCall, Zenon
<1>3. j \in Job /\ j[1] = u /\ j[2] = t /\ j # anchor
  BY <1>2, Zenon DEF Job
<1>4. /\ todo \subseteq Item /\ todo \subseteq Calls(u, t, {"PROCESS_PROPAGATE_STOP_GRACEFUL"})
      /\ item.rank # 7 => todo = Calls(u, t, {})
  BY <1>2, CallsTyped, CallsMore, Zenon DEF Inv
<1>5. f \in Frame
  <2>1. todo \in SUBSET Item /\ 0 \in 0..9
    BY <1>4
  <2> QED BY <1>3, <2>1, Zenon DEF Frame
<1>6. /\ stack' \in Seq(Frame) /\ Len(stack') = n + 1 /\ stack' # <<>>
      /\ stack'[1].job = j /\ stack'[1].todo = todo /\ stack'[1].cur = 0
      /\ \A i \in 1 .. n : stack'[i + 1] = Resumed(item)[i]
  <2>1. Resumed(item) \in Seq(Frame) /\ Len(Resumed(item)) = n
    BY ResumedFacts, ZenonT(30)
  <2> HIDE DEF f
  <2>2. /\ stack' \in Seq(Frame) /\ Len(stack') = n + 1 /\ stack'[1] = f
        /\ \A i \in 1 .. n : stack'[i + 1] = Resumed(item)[i]
    <3>1. stack' = <<f>> \o Resumed(item)
      BY Zenon DEF f, Pushes
    <3> QED BY <1>5, <2>1, <3>1, PushFacts
  <2>3. stack' # <<>>
    BY <1>1, <2>2
  <2>4. f.job = j /\ f.todo = todo /\ f.cur = 0
    BY ZenonT(30) DEF f
  <2> QED BY <2>2, <2>3, <2>4, Zenon
<1> HIDE DEF f
<1>7. /\ stack'[2].job = stack[1].job /\ stack'[2].todo = stack[1].todo \ {item} /\ stack'[2].cur = item.rank
      /\ \A i \in 2 .. n : stack'[i + 1] = stack[i]
      /\ \A i \in 1 .. n : stack'[i + 1].job = stack[i].job /\ stack'[i + 1].todo \subseteq stack[i].todo
  <2>1. 1 \in 1 .. n /\ 1 + 1 = 2 /\ \A i \in 2 .. n : i \in 1 .. n
    BY <1>1
  <2>2. stack'[2] = Resumed(item)[1]
    BY <1>6, <2>1, ZenonT(30)
  <2> QED BY <1>6, <2>1, <2>2, ResumedFacts
<1>8. /\ \A i \in 1 .. n : i = 1 \/ \E k \in 1 .. n - 1 : i = k + 1 /\ k \in 1 .. n
      /\ Len(stack') - 1 = n
  BY <1>1, <1>6
<1>9. /\ jobs' = jobs \cup {j} /\ ahead' = ahead \cup ({j} \X Of(u))
      /\ jobs \subseteq Job
  BY <1>3, Zenon DEF transaction_add_one_job, Inv, TypeInv
<1>10. links' \subseteq [subject : jobs', object : jobs', matters : BOOLEAN, conflicts : BOOLEAN]
  <2>1. <<item.unit, t>> \in jobs' /\ jobs \subseteq jobs'
    BY <1>9, Zenon
  <2> QED BY <1>2, <2>1, LinkTyped, Zenon
<1>11. ahead' \subseteq jobs' \X jobs'
  BY <1>9, ZenonT(30) DEF Inv, TypeInv, Of
<1>12. TypeInv'
  BY <1>3, <1>6, <1>9, <1>10, <1>11, Zenon DEF Inv, TypeInv, world
<1>13. ListInv'
  <2>1. \A p \in ahead' : p[1][1] = p[2][1] /\ p[1] # p[2]
    BY <1>3, <1>9 DEF Inv, ListInv, Of
  <2>2. ASSUME NEW x \in jobs', NEW y \in jobs', x[1] = y[1], x # y
        PROVE  <<x, y>> \in ahead' \/ <<y, x>> \in ahead'
    <3>1. CASE x \in jobs /\ y \in jobs
      BY <1>9, <2>2, <3>1, Zenon DEF Inv, ListInv
    <3>2. CASE x = j /\ y \in jobs
      BY <1>3, <1>9, <2>2, <3>2, Zenon DEF Of
    <3>3. CASE y = j /\ x \in jobs
      BY <1>3, <1>9, <2>2, <3>3, Zenon DEF Of
    <3> QED BY <1>9, <2>2, <3>1, <3>2, <3>3, Zenon
  <2> QED BY <2>1, <2>2, ZenonT(30) DEF ListInv, Merged
<1>14. NopInv'
  BY <1>2, <1>3, <1>9, Zenon DEF Inv, NopInv
<1> HIDE DEF n
<1>15. StackInv'
  <2>1. ASSUME NEW i \in 1 .. n
        PROVE  /\ stack'[i].job \in jobs' /\ (stack[i].todo \subseteq AllCalls(stack[i].job))'
               /\ \A x \in stack'[i].todo : stack'[i].cur <= x.rank
               /\ stack'[i].cur \in 1..5 => stack'[i].job[2] \in BringUp
    <3>1. CASE i = 1
      <4>1. AllCalls(j)' = Calls(u, t, {"PROCESS_PROPAGATE_STOP_GRACEFUL"})
        BY <1>3, AllCallsSame, Zenon DEF AllCalls, Flags
      <4>2. \A x \in Item : 0 <= x.rank
        BY DEF Item
      <4>3. (stack[1].todo \subseteq AllCalls(stack[1].job))'
        BY <1>4, <1>6, <4>1, ZenonT(30)
      <4>4. \A x \in stack'[1].todo : stack'[1].cur <= x.rank
        BY <1>4, <1>6, <4>2, Zenon
      <4>5. stack'[1].cur \notin 1..5 /\ stack'[1].job \in jobs'
        BY <1>6, <1>9
      <4> QED BY <3>1, <4>3, <4>4, <4>5, Zenon
    <3>2. ASSUME NEW k \in 1 .. n - 1, i = k + 1, k \in 1 .. n
          PROVE  /\ stack'[i].job \in jobs' /\ (stack[i].todo \subseteq AllCalls(stack[i].job))'
                 /\ \A x \in stack'[i].todo : stack'[i].cur <= x.rank
                 /\ stack'[i].cur \in 1..5 => stack'[i].job[2] \in BringUp
      <4>1. /\ stack[k].job \in jobs /\ stack[k].todo \subseteq AllCalls(stack[k].job)
            /\ \A x \in stack[k].todo : stack[k].cur <= x.rank
            /\ stack[k].cur \in 1..5 => stack[k].job[2] \in BringUp
        BY ZenonT(30) DEF Inv, StackInv, n
      <4>2. k = 1 \/ k \in 2 .. n
        BY <1>1
      <4>3. stack'[i].job = stack[k].job /\ stack'[i].todo \subseteq stack[k].todo
        BY <1>7, <3>2, Zenon
      <4>4. (stack[i].todo \subseteq AllCalls(stack[i].job))'
        BY <4>1, <4>3, AllCallsSame, Zenon
      <4>5. CASE k = 1
        <5>1. i = 2
          BY <3>2, <4>5
        <5> QED BY <1>2, <1>7, <1>9, <4>1, <4>3, <4>4, <4>5, <5>1, ZenonT(30)
      <4>6. CASE k \in 2 .. n
        BY <1>7, <1>9, <3>2, <4>1, <4>3, <4>4, <4>6, Zenon
      <4> QED BY <4>2, <4>5, <4>6, Zenon
    <3> QED BY <1>8, <3>1, <3>2, Zenon
  <2>2. ASSUME NEW i \in 1 .. n, NEW k \in 1 .. n, stack'[i].job = stack'[k].job PROVE i = k
    <3>1. \A x \in 1 .. n - 1 : x \in 1 .. n
      BY <1>1
    <3>2. \A x \in 1 .. n - 1 : stack[x].job \in jobs
      BY Zenon DEF Inv, StackInv, n
    <3>3. \A x \in 1 .. n - 1 : stack'[x + 1].job = stack[x].job /\ stack'[x + 1].job # stack'[1].job
      <4> SUFFICES ASSUME NEW x \in 1 .. n - 1
                   PROVE  stack'[x + 1].job = stack[x].job /\ stack'[x + 1].job # stack'[1].job
        BY Zenon
      <4>1. x \in 1 .. n /\ stack[x].job \in jobs
        BY <3>1, <3>2, Zenon
      <4>2. stack'[x + 1].job = stack[x].job
        BY <1>7, <4>1, Zenon
      <4> QED BY <1>6, <4>1, <4>2, Zenon
    <3>4. \A x, y \in 1 .. n - 1 : stack[x].job = stack[y].job => x = y
      BY ZenonT(30) DEF Inv, StackInv, n
    <3>5. CASE i = 1 \/ k = 1
      BY <1>8, <2>2, <3>3, <3>5, SMTT(30)
    <3>6. ASSUME NEW x \in 1 .. n - 1, NEW y \in 1 .. n - 1, i = x + 1, k = y + 1 PROVE i = k
      BY <2>2, <3>3, <3>4, <3>6
    <3> QED BY <1>8, <3>5, <3>6, ZenonT(30)
  <2>3. /\ stack[n].job = anchor /\ stack[n].cur \in {6, 9}
        /\ \A x \in stack[n].todo : x.rank = 9 /\ x.type = "stop"
        /\ stack[n].cur = 6 /\ n > 1 => stack[n - 1].job = anchor
        /\ stack[n].cur = 9 => \A i \in 1 .. n - 1 : stack[i].job # anchor
    BY <1>1, ZenonT(30) DEF Inv, StackInv, n
  <2>4. /\ n \in 1 .. n /\ (n = 1 \/ (n > 1 /\ n \in 2 .. n /\ n - 1 \in 1 .. n /\ (n - 1) + 1 = n))
        /\ n + 1 > 1 /\ (n + 1) - 1 = n
    BY <1>1
  <2>5. /\ stack'[n + 1].job = anchor' /\ stack'[n + 1].cur \in {6, 9}
        /\ \A x \in stack'[n + 1].todo : x.rank = 9 /\ x.type = "stop"
        /\ stack'[n + 1].cur = 6 => stack'[n].job = anchor'
        /\ stack'[n + 1].cur = 9 => \A i \in 1 .. n : stack'[i].job # anchor'
    <3>1. stack'[n + 1].job = anchor' /\ stack'[n + 1].todo \subseteq stack[n].todo
      BY <1>7, <2>3, <2>4, ZenonT(30)
    <3>2. CASE n = 1
      <4>0. n + 1 = 2 /\ \A i \in 1 .. n : i = 1
        BY <3>2
      <4>1. stack'[n + 1].cur = 9 /\ \A i \in 1 .. n : i = 1
        BY <1>2, <1>7, <3>2, <4>0, Zenon
      <4> QED BY <1>3, <1>6, <2>3, <3>1, <4>1, SMTT(30)
    <3>3. CASE n > 1
      <4>1. stack'[n + 1] = stack[n] /\ stack'[n].job = stack[n - 1].job
        <5>1. n \in 2 .. n /\ n - 1 \in 1 .. n /\ (n - 1) + 1 = n
          BY <2>4, <3>3
        <5>2. stack'[(n - 1) + 1].job = stack[n - 1].job
          BY <1>7, <5>1, Zenon
        <5> QED BY <1>7, <5>1, <5>2, ZenonT(30)
      <4>2. stack[n].cur = 9 => \A i \in 1 .. n : stack'[i].job # anchor
        <5> SUFFICES ASSUME stack[n].cur = 9, NEW i \in 1 .. n PROVE stack'[i].job # anchor
          BY Zenon
        <5>1. CASE i = 1
          BY <1>3, <1>6, <5>1, ZenonT(30)
        <5>2. ASSUME NEW k \in 1 .. n - 1, i = k + 1, k \in 1 .. n PROVE stack'[i].job # anchor
          BY <1>7, <2>3, <5>2
        <5> QED BY <1>8, <5>1, <5>2, Zenon
      <4> QED BY <2>3, <3>1, <3>3, <4>1, <4>2, Zenon
    <3> QED BY <2>4, <3>2, <3>3, Zenon
  <2>6. ~ failing' /\ anchor' \in jobs' /\ phase' = "build"
    BY <1>2, <1>9, Zenon
  <2>7. PICK N : N = n + 1 /\ N - 1 = n /\ Len(stack') = N /\ N > 1
    BY <1>6, <2>4, Zenon
  <2>8. /\ stack'[N].job = anchor' /\ stack'[N].cur \in {6, 9}
        /\ \A x \in stack'[N].todo : x.rank = 9 /\ x.type = "stop"
        /\ stack'[N].cur = 6 => stack'[N - 1].job = anchor'
        /\ stack'[N].cur = 9 => \A i \in 1 .. N - 1 : stack'[i].job # anchor'
    BY <2>5, <2>7, Zenon
  <2>9. \A i \in 1 .. N - 1 :
            /\ stack'[i].job \in jobs' /\ (stack[i].todo \subseteq AllCalls(stack[i].job))'
            /\ \A x \in stack'[i].todo : stack'[i].cur <= x.rank
            /\ stack'[i].cur \in 1..5 => stack'[i].job[2] \in BringUp
            /\ \A k \in 1 .. N - 1 : stack'[i].job = stack'[k].job => i = k
    BY <2>1, <2>2, <2>7, ZenonT(30)
  <2> QED BY <1>6, <2>6, <2>7, <2>8, <2>9, Zenon DEF StackInv
<1>16. ASSUME t = "start" PROVE todo = Calls(u, t, {}) /\ \A x \in todo : x.rank # 7
  <2>1. item.rank # 7
    BY <1>16, Zenon DEF CallType, job_type_propagate_stop_graceful
  <2>2. todo = Calls(u, t, {})
    BY <1>4, <2>1, Zenon
  <2> QED BY <2>2, CallsItem
<1>17. ChainInv'
  <2> SUFFICES ASSUME NEW m \in 1 .. n, NEW i \in 1 .. m, stack'[m].job[2] = "start", stack'[m].job # anchor'
               PROVE  /\ stack'[i].job[2] \in {"start", "stop", "verify"}
                      /\ \A x \in stack'[i].todo : x.rank # 7
                      /\ stack'[i].job[2] = "start" => LeadsToStart(stack[m].job[1], stack[i].job[1])'
    BY <1>8, Zenon DEF ChainInv
  <2>1. CASE m = 1
    <3>1. i = 1 /\ stack'[1].job[2] = "start" /\ t = "start"
      BY <1>3, <1>6, <2>1
    <3>2. u \notin Unloadable /\ stack'[1].job[1] = u
      BY <1>3, <1>6, <3>1, Zenon DEF CannotLoad
    <3>3. LeadsToStart(stack[m].job[1], stack[i].job[1])'
      BY <2>1, <3>1, <3>2, Zenon DEF LeadsToStart
    <3> QED BY <1>6, <1>16, <3>1, <3>3, ZenonT(30)
  <2>2. ASSUME NEW k \in 1 .. n - 1, m = k + 1, k \in 1 .. n
        PROVE  /\ stack'[i].job[2] \in {"start", "stop", "verify"}
               /\ \A x \in stack'[i].todo : x.rank # 7
               /\ stack'[i].job[2] = "start" => LeadsToStart(stack[m].job[1], stack[i].job[1])'
    <3>1. stack'[m].job = stack[k].job /\ stack[k].job[2] = "start" /\ stack[k].job # anchor
      BY <1>7, <2>2, Zenon
    <3>2. CASE i = 1
      <4>1. /\ t \in {"start", "stop", "verify"} /\ item.rank # 7
            /\ t = "start" => LeadsToStart(stack[k].job[1], u)
        BY <3>1, ChainCall, Zenon DEF n, CannotLoad
      <4>2. stack'[i].job = j /\ stack'[i].todo = Calls(u, t, {})
        BY <1>4, <1>6, <3>2, <4>1, ZenonT(30)
      <4>3. \A x \in stack'[i].todo : x.rank # 7
        BY <4>2, CallsItem
      <4>4. t = "start" => LeadsToStart(stack[m].job[1], stack[i].job[1])'
        BY <1>3, <3>1, <4>1, <4>2, WorldSame, Zenon
      <4> QED BY <1>3, <4>1, <4>2, <4>3, <4>4, Zenon
    <3>3. ASSUME NEW h \in 1 .. k, i = h + 1, h \in 1 .. n
          PROVE  /\ stack'[i].job[2] \in {"start", "stop", "verify"}
                 /\ \A x \in stack'[i].todo : x.rank # 7
                 /\ stack'[i].job[2] = "start" => LeadsToStart(stack[m].job[1], stack[i].job[1])'
      <4>1. stack'[i].job = stack[h].job /\ stack'[i].todo \subseteq stack[h].todo
        BY <1>7, <3>3, Zenon
      <4>2. /\ stack[h].job[2] \in {"start", "stop", "verify"}
            /\ \A x \in stack[h].todo : x.rank # 7
            /\ stack[h].job[2] = "start" => LeadsToStart(stack[k].job[1], stack[h].job[1])
        BY <3>1, Zenon DEF Inv, ChainInv, n
      <4> QED BY <3>1, <4>1, <4>2, WorldSame, Zenon
    <3>4. i = 1 \/ \E h \in 1 .. k : i = h + 1 /\ h \in 1 .. n
      BY <1>1, <2>2, LaterIndex, Zenon
    <3> QED BY <3>2, <3>3, <3>4, Zenon
  <2> QED BY <1>8, <2>1, <2>2, Zenon
<1>18. NewInv'
  <2> SUFFICES ASSUME ~ StartLoop, NEW i \in 1 .. n, NEW l \in links',
                      stack'[i].job[2] = "start", stack'[i].job # anchor', l.object = stack'[i].job, l.matters
               PROVE  l.subject = stack'[i + 1].job /\ stack'[i + 1].cur = 1
    BY <1>8, WorldSame, Zenon DEF NewInv
  <2>0. l \in links => l.object \in jobs
    BY Zenon DEF Inv, TypeInv
  <2>1. CASE i = 1
    <3>1. l.object = j /\ t = "start" /\ i + 1 = 2
      BY <1>3, <1>6, <2>1
    <3>2. l = Link(item, t)
      BY <2>0, <3>1, ZenonT(30)
    <3>3. item.rank = 1 /\ l.subject = stack[1].job
      BY <1>2, <3>1, <3>2, LinkFields
    <3> QED BY <1>7, <3>1, <3>3, ZenonT(30)
  <2>2. ASSUME NEW k \in 1 .. n - 1, i = k + 1, k \in 1 .. n
        PROVE  l.subject = stack'[i + 1].job /\ stack'[i + 1].cur = 1
    <3>1. stack'[i].job = stack[k].job /\ stack[k].job \in jobs
      BY <1>7, <2>2, Zenon DEF Inv, StackInv, n
    <3>2. l \in links
      BY <3>1, LinkFields, Zenon
    <3>3. l.subject = stack[k + 1].job /\ stack[k + 1].cur = 1
      BY <3>1, <3>2, ZenonT(30) DEF Inv, NewInv, n
    <3>4. i \in 2 .. n
      BY <1>1, <2>2
    <3>5. stack'[i + 1] = stack[i]
      BY <1>7, <3>4, Zenon
    <3> QED BY <2>2, <3>3, <3>5, Zenon
  <2> QED BY <1>8, <2>1, <2>2, Zenon
<1>19. BuildInv'
  <2>0. PICK c : c = stack[1].job
    BY Zenon
  <2>1. \A x, y : Linked(x, y) => Linked(x, y)'
    BY Zenon DEF Linked
  <2>2. Matters(item.rank) => Linked(c, j)'
    BY <2>0, LinkFields, Zenon DEF Linked
  <2>3. ASSUME NEW x, NEW d, NEW rank \in {1, 4}, Pending(x, d, rank)
        PROVE  Pending(x, d, rank)' \/ (x = c /\ item.rank = rank /\ u = d)
    <3>1. PICK k \in 1 .. n - 1 : stack[k].job = x /\ \E y \in stack[k].todo : y.rank = rank /\ y.unit = d
      BY <2>3, Zenon DEF Pending, CallsFor, n
    <3>2. PICK y \in stack[k].todo : y.rank = rank /\ y.unit = d
      BY <3>1, ZenonT(30)
    <3>3. k \in 1 .. n /\ k + 1 \in 1 .. n /\ (k = 1 \/ k \in 2 .. n)
      BY <1>1
    <3>4. CASE y \in stack'[k + 1].todo
      <4>1. k + 1 \in 1 .. Len(stack') - 1 /\ stack'[k + 1].job = x
        BY <1>7, <1>8, <3>1, <3>3, Zenon
      <4> QED BY <3>2, <3>4, <4>1, Zenon DEF Pending, CallsFor
    <3>5. CASE y \notin stack'[k + 1].todo
      <4>1. k = 1
        BY <1>7, <3>2, <3>3, <3>5, ZenonT(30)
      <4>2. k + 1 = 2
        BY <4>1, SMT
      <4>3. y \in stack[1].todo /\ y \notin stack[1].todo \ {item}
        BY <1>7, <3>2, <3>5, <4>1, <4>2, ZenonT(30)
      <4>4. y = item
        BY <4>3, ZenonT(30)
      <4> QED BY <2>0, <3>1, <3>2, <4>1, <4>4, ZenonT(30)
    <3> QED BY <3>4, <3>5, Zenon
  <2>4. ASSUME t \in BringUp
        PROVE  /\ \A d \in Dep(u, "PULL_IN_START") : Pending(j, d, 1)'
               /\ \A d \in Dep(u, "PULL_IN_STOP") : Pending(j, d, 4)'
    <3>1. /\ \A d \in Dep(u, "PULL_IN_START") : CallsFor(todo, 1, d)
          /\ \A d \in Dep(u, "PULL_IN_STOP") : CallsFor(todo, 4, d)
      <4>1. "IGNORE_REQUIREMENTS" \notin IF item.rank = 7 THEN {"PROCESS_PROPAGATE_STOP_GRACEFUL"} ELSE {}
        BY SMTT(30)
      <4> QED BY <2>4, <4>1, CallsNeeded, Zenon
    <3>2. 1 \in 1 .. Len(stack') - 1
      BY <1>1, <1>8
    <3> QED BY <1>6, <3>1, <3>2, ZenonT(60) DEF Pending, CallsFor
  <2> SUFFICES ASSUME Heeding', NEW x \in jobs', x[2] \in BringUp
               PROVE  /\ Hypothesis' => \A d \in Dep(x[1], "PULL_IN_START")' :
                                            Linked(x, <<d, "start">>)' \/ Pending(x, d, 1)'
                      /\ \A d \in Dep(x[1], "PULL_IN_STOP")' :
                            d \in perpetual' \/ Linked(x, <<d, "stop">>)' \/ Pending(x, d, 4)'
    BY Zenon DEF BuildInv
  <2>5. /\ Dep(x[1], "PULL_IN_START")' = Dep(x[1], "PULL_IN_START")
        /\ Dep(x[1], "PULL_IN_STOP")' = Dep(x[1], "PULL_IN_STOP")
        /\ Hypothesis' = Hypothesis /\ perpetual' = perpetual
    BY WorldSame, Zenon DEF world
  <2>6. CASE x = j
    <3>1. x[1] = u /\ t \in BringUp
      BY <1>3, <2>6, Zenon
    <3> QED BY <2>4, <2>5, <2>6, <3>1, Zenon
  <2>7. CASE x \in jobs
    <3>1. /\ Hypothesis => \A d \in Dep(x[1], "PULL_IN_START") : Linked(x, <<d, "start">>) \/ Pending(x, d, 1)
          /\ \A d \in Dep(x[1], "PULL_IN_STOP") : d \in perpetual \/ Linked(x, <<d, "stop">>) \/ Pending(x, d, 4)
      BY <1>2, <2>7, WorldSame, Zenon DEF Inv, BuildInv
    <3>2. ASSUME Hypothesis, NEW d \in Dep(x[1], "PULL_IN_START")
          PROVE  Linked(x, <<d, "start">>)' \/ Pending(x, d, 1)'
      <4>1. item.rank = 1 => Linked(c, <<u, "start">>)'
        BY <1>2, <2>2, Zenon DEF Matters
      <4> QED BY <2>1, <2>3, <3>1, <3>2, <4>1, Zenon
    <3>3. ASSUME NEW d \in Dep(x[1], "PULL_IN_STOP")
          PROVE  d \in perpetual \/ Linked(x, <<d, "stop">>)' \/ Pending(x, d, 4)'
      <4>1. item.rank = 4 => Linked(c, <<u, "stop">>)'
        BY <1>2, <2>2, Zenon DEF Matters
      <4> QED BY <2>1, <2>3, <3>1, <3>3, <4>1, Zenon
    <3> QED BY <2>5, <3>2, <3>3, Zenon
  <2> QED BY <1>9, <2>6, <2>7, Zenon
<1>20. CollectedInv' /\ MatterInv'
  BY Zenon DEF CollectedInv, MatterInv, Collected, Dropping, Merged
<1> QED BY <1>12, <1>13, <1>14, <1>15, <1>17, <1>18, <1>19, <1>20, ZenonT(30) DEF Inv

\* One recursive call.
LEMMA AddDependencyInv == ASSUME Inv, AddDependency PROVE Inv'
<1>1. phase = "build" /\ ~ failing /\ stack # <<>> /\ UNCHANGED <<world, anchor, matter, phase>>
  BY ZenonT(30) DEF AddDependency
<1>2. Head(stack) = stack[1]
  BY <1>1, TopFrame, SMTT(60)
<1>3. PICK item \in stack[1].todo :
         LET u == item.unit
             t == CallType(item)
             flags == IF item.rank = 7 THEN {"PROCESS_PROPAGATE_STOP_GRACEFUL"} ELSE {}
         IN /\ \A i \in stack[1].todo : item.rank <= i.rank
            /\ IF \/ item.rank = 7 /\ t = "nop"
                  \/ item.rank = 9 /\ Skip(u)
                  \/ ~ CannotLoad(u, t) /\ ~ unit_job_is_applicable(u, t)
                  \/ CannotLoad(u, t) /\ ~ Fatal(item.rank)
               THEN stack' = Resumed(item) /\ UNCHANGED <<jobs, ahead, links, failing>>
               ELSE IF CannotLoad(u, t)
               THEN stack' = Resumed(item) /\ failing' = TRUE /\ UNCHANGED <<jobs, ahead, links>>
               ELSE /\ links' = links \cup {Link(item, t)}
                    /\ IF <<u, t>> \in jobs THEN stack' = Resumed(item) /\ UNCHANGED <<jobs, ahead>>
                       ELSE transaction_add_one_job(<<u, t>>) /\ Pushes(item, <<u, t>>, Calls(u, t, flags))
                    /\ UNCHANGED failing
  BY <1>2, ZenonT(30) DEF AddDependency, CallType, Resumed, Caller, Link, Pushes
<1>4. PICK u, t, todo :
         /\ u = item.unit /\ t = CallType(item)
         /\ todo = Calls(u, t, IF item.rank = 7 THEN {"PROCESS_PROPAGATE_STOP_GRACEFUL"} ELSE {})
  BY Zenon
<1>5. /\ t = "nop" => item.rank = 7
      /\ item.rank = 1 => t = "start"
      /\ item.rank = 4 => t = "stop"
  BY <1>1, <1>4, TopCall, Zenon
<1>6. \A i \in stack[1].todo : item.rank <= i.rank
  BY <1>3, Zenon
<1>7. CASE \/ item.rank = 7 /\ t = "nop"
           \/ item.rank = 9 /\ Skip(u)
           \/ ~ CannotLoad(u, t) /\ ~ unit_job_is_applicable(u, t)
           \/ CannotLoad(u, t) /\ ~ Fatal(item.rank)
  <2>1. stack' = Resumed(item) /\ UNCHANGED <<jobs, ahead, links, failing>>
    BY <1>3, <1>4, <1>7, Zenon
  <2>2. item.rank # 1
    BY <1>5, <1>7 DEF unit_job_is_applicable, Fatal
  <2>3. item.rank = 4 => u \in perpetual
    BY <1>5, <1>7 DEF unit_job_is_applicable, Fatal
  <2>4. failing' \in BOOLEAN /\ ~ failing'
    BY <1>1, <2>1, Zenon DEF Inv, TypeInv
  <2> QED BY <1>1, <1>4, <1>6, <2>1, <2>2, <2>3, <2>4, NoNewJobInv, Zenon
<1>8. CASE CannotLoad(u, t) /\ Fatal(item.rank) /\ t # "nop" /\ ~ (item.rank = 9 /\ Skip(u))
  <2>1. stack' = Resumed(item) /\ failing' = TRUE /\ UNCHANGED <<jobs, ahead, links>>
    BY <1>3, <1>4, <1>8, Zenon
  <2>2. Unloadable # {} /\ item.rank # 4
    BY <1>5, <1>8, Zenon DEF CannotLoad
  <2>3. failing' \in BOOLEAN /\ (failing' => Unloadable # {} /\ Fatal(item.rank))
    BY <1>8, <2>1, <2>2, Zenon
  <2> QED BY <1>1, <1>4, <1>6, <2>1, <2>2, <2>3, NoNewJobInv, Zenon
<1>9. CASE ~ CannotLoad(u, t) /\ unit_job_is_applicable(u, t) /\ t # "nop" /\ ~ (item.rank = 9 /\ Skip(u))
  <2>1. /\ links' = links \cup {Link(item, t)} /\ UNCHANGED failing
        /\ <<u, t>> \in jobs => stack' = Resumed(item) /\ UNCHANGED <<jobs, ahead>>
        /\ <<u, t>> \notin jobs => transaction_add_one_job(<<u, t>>) /\ Pushes(item, <<u, t>>, todo)
    BY <1>3, <1>4, <1>9, Zenon
  <2>2. CASE <<u, t>> \in jobs
    <3>1. stack' = Resumed(item) /\ UNCHANGED <<jobs, ahead>>
      BY <2>1, <2>2, Zenon
    <3>2. failing' \in BOOLEAN /\ ~ failing'
      BY <1>1, <2>1, Zenon DEF Inv, TypeInv
    <3> QED BY <1>1, <1>4, <1>6, <2>1, <2>2, <3>1, <3>2, NoNewJobInv, ZenonT(30)
  <2>3. CASE <<u, t>> \notin jobs
    <3>1. transaction_add_one_job(<<u, t>>) /\ Pushes(item, <<u, t>>, todo)
      BY <2>1, <2>3, Zenon
    <3> QED BY <1>1, <1>4, <1>6, <1>9, <2>1, <2>3, <3>1, NewJobInv, Zenon
  <2> QED BY <2>2, <2>3, Zenon
<1> QED BY <1>5, <1>7, <1>8, <1>9, Zenon

-----------------------------------------------------------------------------
(* Collecting jobs: a call returns.                                        *)

\* The last call.
LEMMA LastReturnInv == ASSUME Inv, Return, Len(stack) = 1 PROVE Inv'
<1>1. phase = "build" /\ UNCHANGED <<world, anchor, matter>> /\ stack' = Tail(stack)
  BY Zenon DEF Return
<1>2. stack' = <<>> /\ Head(stack) = stack[1] /\ stack[1].cur \in {6, 9}
  BY <1>1, TopFrame, TailFacts, Zenon DEF Inv, StackInv
<1>3. /\ UNCHANGED <<jobs, ahead, links>> /\ failing' = failing
      /\ phase' = IF failing THEN "failed" ELSE "mark"
  <2>1. ~ DropsJob(Head(stack))
    BY <1>2 DEF DropsJob
  <2>2. failing \in BOOLEAN /\ Tail(stack) = <<>>
    BY <1>1, <1>2, Zenon DEF Inv, TypeInv
  <2>3. failing' = failing
    BY <2>2, Zenon DEF Return
  <2> QED BY <2>1, <2>2, <2>3, Zenon DEF Return
<1>4. failing \/ anchor \in jobs
  BY <1>1, Zenon DEF Inv, StackInv
<1>5. /\ phase' # "build" /\ phase' # "idle" /\ (phase' = "failed" \/ anchor' \in jobs')
      /\ phase' \notin Dropping /\ phase' \notin Merged /\ phase' \in Phase
  BY <1>1, <1>3, <1>4, Zenon DEF Dropping, Merged, Phase, Collected
<1>6. StackInv' /\ ChainInv' /\ NewInv' /\ BuildInv'
  BY <1>2, <1>3, <1>5, NoCalls, Zenon DEF Inv, StackInv
<1>7. TypeInv'
  <2>1. stack' \in Seq(Frame)
    BY <1>2
  <2> QED BY <1>1, <1>3, <1>5, <2>1, Zenon DEF Inv, TypeInv, world
<1>8. ListInv' /\ NopInv' /\ MatterInv'
  <2>1. ListInv'
    BY <1>1, <1>3, <1>5, Zenon DEF Inv, ListInv
  <2>2. 1 .. Len(stack') = {}
    BY <1>2
  <2>3. NopInv'
    BY <1>1, <1>3, <2>2, Zenon DEF Inv, NopInv
  <2>4. MatterInv'
    BY <1>5, Zenon DEF MatterInv
  <2> QED BY <2>1, <2>3, <2>4, Zenon
<1>9. CollectedInv'
  <2> SUFFICES ASSUME phase' \in Collected, Heeding', NEW j \in jobs', j[2] \in BringUp
               PROVE  /\ Hypothesis' => \A d \in Dep(j[1], "PULL_IN_START")' :
                                            IsUp(d)' \/ \E t \in KeepUp : Linked(j, <<d, t>>)'
                      /\ \A d \in Dep(j[1], "PULL_IN_STOP")' :
                             d \in perpetual' \/ IsDown(d)' \/ Linked(j, <<d, "stop">>)'
    BY Zenon DEF CollectedInv
  <2>1. ~ failing
    BY <1>3, Zenon DEF Collected, Dropping, Merged
  <2>2. \A x, d, rank : ~ Pending(x, d, rank)
    BY DEF Pending, CallsFor
  <2>3. /\ Hypothesis => \A d \in Dep(j[1], "PULL_IN_START") : Linked(j, <<d, "start">>)
        /\ \A d \in Dep(j[1], "PULL_IN_STOP") : d \in perpetual \/ Linked(j, <<d, "stop">>)
    BY <1>1, <1>3, <1>4, <2>1, <2>2, WorldSame, Zenon DEF Inv, BuildInv
  <2>4. \A x, y : Linked(x, y) => Linked(x, y)'
    BY <1>3, Zenon DEF Linked
  <2>5. /\ Dep(j[1], "PULL_IN_START")' = Dep(j[1], "PULL_IN_START")
        /\ Dep(j[1], "PULL_IN_STOP")' = Dep(j[1], "PULL_IN_STOP")
        /\ Hypothesis' = Hypothesis /\ perpetual' = perpetual
    BY <1>1, WorldSame, Zenon DEF world
  <2>6. "start" \in KeepUp
    BY Zenon DEF KeepUp
  <2> QED BY <2>3, <2>4, <2>5, <2>6, Zenon
<1> QED BY <1>6, <1>7, <1>8, <1>9, Zenon DEF Inv

\* Another one.
LEMMA InnerReturnInv == ASSUME Inv, Return, Len(stack) > 1 PROVE Inv'
<1> DEFINE n == Len(stack)
           gone == IF failing /\ stack[1].cur \in 1..5 THEN {stack[1].job} ELSE {}
<1>1. phase = "build" /\ UNCHANGED <<world, anchor, matter>> /\ stack' = Tail(stack)
  BY Zenon DEF Return
<1>2. /\ stack # <<>> /\ stack \in Seq(Frame) /\ n \in Nat /\ n > 1 /\ Head(stack) = stack[1] /\ stack[1].cur \in 0..9
      /\ \A i \in 1 .. n : stack[i].job \in Job
  BY <1>1, TopFrame, TailFacts
<1>3. /\ stack' \in Seq(Frame) /\ Len(stack') = n - 1 /\ stack' # <<>>
      /\ \A i \in 1 .. n - 1 : stack'[i] = stack[i + 1]
  BY <1>1, <1>2, TailFacts
<1>4. Head(Tail(stack)) = stack[2]
  <2>1. Head(stack') = stack'[1] /\ 1 \in 1 .. n - 1 /\ 1 + 1 = 2
    BY <1>2, <1>3, TailFacts
  <2> QED BY <1>1, <1>3, <2>1, Zenon
<1>5. /\ phase' = "build" /\ (failing' <=> failing /\ Fatal(stack[2].cur)) /\ failing' \in BOOLEAN
      /\ failing \/ stack[1].todo = {}
  BY <1>1, <1>2, <1>3, <1>4, Zenon DEF Return, Fatal
<1>6. /\ jobs' = jobs \ gone /\ ahead' = {p \in ahead : {p[1], p[2]} \cap gone = {}}
      /\ links' = {l \in links : {l.subject, l.object} \cap gone = {}}
  BY <1>1, <1>2, ZenonT(30) DEF Return, DropsJob, transaction_delete_job, Drop
<1> HIDE DEF n
<1>7. /\ \A i \in 1 .. n - 1 :
            /\ stack[i].job \in jobs /\ stack[i].todo \subseteq AllCalls(stack[i].job)
            /\ \A x \in stack[i].todo : stack[i].cur <= x.rank
            /\ stack[i].cur \in 1..5 => stack[i].job[2] \in BringUp
      /\ \A i, k \in 1 .. n - 1 : stack[i].job = stack[k].job => i = k
      /\ stack[n].job = anchor /\ stack[n].cur \in {6, 9}
      /\ \A x \in stack[n].todo : x.rank = 9 /\ x.type = "stop"
      /\ stack[n].cur = 6 => stack[n - 1].job = anchor
      /\ stack[n].cur = 9 => \A i \in 1 .. n - 1 : stack[i].job # anchor
      /\ anchor \in jobs /\ (failing => Fatal(stack[1].cur) /\ Unloadable # {})
  BY <1>1, <1>2 DEF Inv, StackInv, n
<1>8. /\ \A i \in 1 .. n - 2 : i \in 1 .. n - 1 /\ i + 1 \in 1 .. n - 1 /\ i + 1 # 1
      /\ 1 \in 1 .. n - 1 /\ n - 1 \in 1 .. n - 1 /\ (n - 1) + 1 = n /\ (n - 1) - 1 = n - 2
      /\ (n = 2 \/ (n > 2 /\ n - 2 \in 1 .. n - 1 /\ (n - 2) + 1 = n - 1 /\ 1 \in 1 .. n - 2))
  BY <1>2
<1>9. /\ \A x \in gone : /\ x = stack[1].job /\ x[2] \in BringUp
                         /\ failing /\ stack[1].cur \in 1..5
      /\ failing /\ stack[1].cur \in 1..5 => gone = {stack[1].job}
  BY <1>7, <1>8, Zenon
<1> HIDE DEF gone
<1>10. \A i \in 1 .. n - 2 : stack'[i] = stack[i + 1] /\ stack[i + 1].job \in jobs' /\ stack[i + 1].job # stack[1].job
  BY <1>3, <1>6, <1>7, <1>8, <1>9, Zenon
<1>11. anchor \in gone => n = 2 /\ failing'
  <2> SUFFICES ASSUME anchor \in gone PROVE n = 2 /\ failing'
    BY Zenon
  <2>1. stack[1].job = anchor /\ failing
    BY <1>9, Zenon
  <2>2. stack[n].cur = 6 /\ stack[n - 1].job = anchor
    BY <1>7, <1>8, <2>1, Zenon
  <2>3. n - 1 = 1
    BY <1>7, <1>8, <2>1, <2>2, Zenon
  <2>4. n = 2
    BY <1>2, <2>3
  <2> QED BY <1>5, <2>1, <2>2, <2>4, Zenon DEF Fatal
<1>12. links' \subseteq [subject : jobs', object : jobs', matters : BOOLEAN, conflicts : BOOLEAN]
  <2> SUFFICES ASSUME NEW l \in links'
               PROVE  l \in [subject : jobs', object : jobs', matters : BOOLEAN, conflicts : BOOLEAN]
    BY Zenon
  <2>1. l \in [subject : jobs, object : jobs, matters : BOOLEAN, conflicts : BOOLEAN]
    BY <1>6, Zenon DEF Inv, TypeInv
  <2>2. l.subject \in jobs' /\ l.object \in jobs'
    BY <1>6, <2>1, Zenon
  <2> QED BY <2>1, <2>2, Zenon
<1>13. ahead' \subseteq jobs' \X jobs'
  BY <1>6, Zenon DEF Inv, TypeInv
<1>14. TypeInv'
  BY <1>1, <1>3, <1>5, <1>6, <1>12, <1>13, ZenonT(30) DEF Inv, TypeInv, world
<1>15. ListInv'
  BY <1>1, <1>5, <1>6 DEF Inv, ListInv, Merged
<1>16. NopInv'
  <2>1. \A i \in 1 .. n - 1 : i + 1 \in 1 .. n /\ stack'[i] = stack[i + 1]
    BY <1>2, <1>3
  <2> QED BY <1>1, <1>3, <1>6, <2>1, Zenon DEF Inv, NopInv, n
<1>17. StackInv'
  <2>1. \A i \in 1 .. n - 2 :
            /\ stack'[i].job \in jobs' /\ (stack[i].todo \subseteq AllCalls(stack[i].job))'
            /\ \A x \in stack'[i].todo : stack'[i].cur <= x.rank
            /\ stack'[i].cur \in 1..5 => stack'[i].job[2] \in BringUp
    <3> SUFFICES ASSUME NEW i \in 1 .. n - 2
                 PROVE  /\ stack'[i].job \in jobs' /\ (stack[i].todo \subseteq AllCalls(stack[i].job))'
                        /\ \A x \in stack'[i].todo : stack'[i].cur <= x.rank
                        /\ stack'[i].cur \in 1..5 => stack'[i].job[2] \in BringUp
      BY Zenon
    <3>1. stack'[i] = stack[i + 1] /\ stack[i + 1].job \in jobs' /\ i + 1 \in 1 .. n - 1
      BY <1>8, <1>10, Zenon
    <3>2. (stack[i].todo \subseteq AllCalls(stack[i].job))'
      <4>1. stack'[i].job = stack[i + 1].job /\ stack'[i].todo = stack[i + 1].todo
        BY <3>1, Zenon
      <4>2. stack[i + 1].todo \subseteq AllCalls(stack[i + 1].job)
        BY <1>7, <3>1, Zenon
      <4> QED BY <1>1, <4>1, <4>2, AllCallsSame, Zenon
    <3> QED BY <1>7, <3>1, <3>2, Zenon
  <2>2. \A i, k \in 1 .. n - 2 : stack'[i].job = stack'[k].job => i = k
    <3> SUFFICES ASSUME NEW i \in 1 .. n - 2, NEW k \in 1 .. n - 2, stack'[i].job = stack'[k].job PROVE i = k
      BY Zenon
    <3>1. stack[i + 1].job = stack[k + 1].job /\ i + 1 \in 1 .. n - 1 /\ k + 1 \in 1 .. n - 1
      BY <1>8, <1>10, Zenon
    <3>2. i + 1 = k + 1
      BY <1>7, <3>1, Zenon
    <3> QED BY <3>2
  <2>3. PICK N : N = n - 1 /\ N - 1 = n - 2 /\ Len(stack') = N
    BY <1>3, <1>8, Zenon
  <2>4. stack'[N] = stack[n]
    BY <1>3, <1>8, <2>3, Zenon
  <2>5. /\ stack'[N].job = anchor' /\ stack'[N].cur \in {6, 9}
        /\ \A x \in stack'[N].todo : x.rank = 9 /\ x.type = "stop"
    BY <1>1, <1>7, <2>4, Zenon
  <2>6. stack'[N].cur = 6 /\ N > 1 => stack'[N - 1].job = anchor'
    <3> SUFFICES ASSUME stack'[N].cur = 6, N > 1 PROVE stack'[N - 1].job = anchor'
      BY Zenon
    <3>1. n > 2
      BY <1>2, <2>3
    <3>2. n - 2 \in 1 .. n - 1 /\ (n - 2) + 1 = n - 1
      BY <1>8, <3>1
    <3>3. stack'[n - 2] = stack[n - 1]
      BY <1>3, <3>2, ZenonT(30)
    <3> QED BY <1>1, <1>7, <2>3, <2>4, <3>3, Zenon
  <2>7. stack'[N].cur = 9 => \A i \in 1 .. N - 1 : stack'[i].job # anchor'
    BY <1>1, <1>7, <1>8, <1>10, <2>3, <2>4
  <2>8. failing' => Fatal(stack'[1].cur) /\ Unloadable # {}
    <3>1. stack'[1] = stack[2]
      BY <1>3, <1>8
    <3> QED BY <1>5, <1>7, <3>1, Zenon
  <2>9. anchor' \in jobs' \/ (failing' /\ N = 1)
    <3>1. CASE anchor \in gone
      BY <1>11, <2>3, <3>1
    <3>2. CASE anchor \notin gone
      BY <1>1, <1>6, <1>7, <3>2, Zenon
    <3> QED BY <3>1, <3>2, Zenon
  <2>10. \A i \in 1 .. N - 1 :
            /\ stack'[i].job \in jobs' /\ (stack[i].todo \subseteq AllCalls(stack[i].job))'
            /\ \A x \in stack'[i].todo : stack'[i].cur <= x.rank
            /\ stack'[i].cur \in 1..5 => stack'[i].job[2] \in BringUp
            /\ \A k \in 1 .. N - 1 : stack'[i].job = stack'[k].job => i = k
    BY <2>1, <2>2, <2>3, Zenon
  <2> QED BY <1>3, <1>5, <2>3, <2>5, <2>6, <2>7, <2>8, <2>9, <2>10, ZenonT(30) DEF StackInv
<1>18. ChainInv'
  <2> SUFFICES ASSUME NEW m \in 1 .. n - 2, NEW i \in 1 .. m, stack'[m].job[2] = "start", stack'[m].job # anchor'
               PROVE  /\ stack'[i].job[2] \in {"start", "stop", "verify"}
                      /\ \A x \in stack'[i].todo : x.rank # 7
                      /\ stack'[i].job[2] = "start" => LeadsToStart(stack[m].job[1], stack[i].job[1])'
    BY <1>3, <1>8, Zenon DEF ChainInv
  <2>1. i \in 1 .. n - 2 /\ m + 1 \in 1 .. n - 1 /\ i + 1 \in 1 .. m + 1
    BY <1>2
  <2>2. stack'[m].job = stack[m + 1].job /\ stack'[i].job = stack[i + 1].job /\ stack'[i].todo = stack[i + 1].todo
    BY <1>10, <2>1, Zenon
  <2>3. stack[m + 1].job[2] = "start" /\ stack[m + 1].job # anchor
    BY <1>1, <2>2, Zenon
  <2>4. /\ stack[i + 1].job[2] \in {"start", "stop", "verify"}
        /\ \A x \in stack[i + 1].todo : x.rank # 7
        /\ stack[i + 1].job[2] = "start" => LeadsToStart(stack[m + 1].job[1], stack[i + 1].job[1])
    BY <2>1, <2>3, Zenon DEF Inv, ChainInv, n
  <2> QED BY <1>1, <2>2, <2>4, WorldSame, Zenon
<1>19. NewInv'
  <2> SUFFICES ASSUME ~ StartLoop, NEW i \in 1 .. n - 2, NEW l \in links',
                      stack'[i].job[2] = "start", stack'[i].job # anchor', l.object = stack'[i].job, l.matters
               PROVE  l.subject = stack'[i + 1].job /\ stack'[i + 1].cur = 1
    BY <1>1, <1>3, <1>8, WorldSame, Zenon DEF NewInv
  <2>1. stack'[i] = stack[i + 1] /\ i + 1 \in 1 .. n - 1 /\ l \in links
    BY <1>6, <1>8, <1>10, Zenon
  <2>2. stack'[i + 1] = stack[(i + 1) + 1]
    BY <1>3, <2>1, Zenon
  <2>3. l.subject = stack[(i + 1) + 1].job /\ stack[(i + 1) + 1].cur = 1
    BY <1>1, <2>1, ZenonT(30) DEF Inv, NewInv, n
  <2> QED BY <2>2, <2>3, Zenon
<1>20. BuildInv'
  <2> SUFFICES ASSUME anchor' \in jobs', Heeding', NEW j \in jobs', j[2] \in BringUp
               PROVE  /\ Hypothesis' => \A d \in Dep(j[1], "PULL_IN_START")' :
                                            Linked(j, <<d, "start">>)' \/ Pending(j, d, 1)'
                      /\ \A d \in Dep(j[1], "PULL_IN_STOP")' :
                            d \in perpetual' \/ Linked(j, <<d, "stop">>)' \/ Pending(j, d, 4)'
    BY Zenon DEF BuildInv
  <2>1. /\ Dep(j[1], "PULL_IN_START")' = Dep(j[1], "PULL_IN_START")
        /\ Dep(j[1], "PULL_IN_STOP")' = Dep(j[1], "PULL_IN_STOP")
        /\ Hypothesis' = Hypothesis /\ perpetual' = perpetual /\ Heeding' = Heeding
    BY <1>1, WorldSame, Zenon DEF world
  <2>2. j \in jobs /\ j \notin gone /\ anchor \notin gone
    BY <1>1, <1>6, Zenon
  <2>3. /\ Hypothesis => \A d \in Dep(j[1], "PULL_IN_START") : Linked(j, <<d, "start">>) \/ Pending(j, d, 1)
        /\ \A d \in Dep(j[1], "PULL_IN_STOP") : d \in perpetual \/ Linked(j, <<d, "stop">>) \/ Pending(j, d, 4)
    BY <1>1, <1>7, <2>1, <2>2, Zenon DEF Inv, BuildInv
  <2>4. ASSUME NEW d, NEW rank \in {1, 4}, Pending(j, d, rank) PROVE Pending(j, d, rank)'
    <3>1. PICK i \in 1 .. n - 1 :
             /\ stack[i].job = j
             /\ \/ \E x \in stack[i].todo : x.rank = rank /\ x.unit = d
                \/ i = 1 /\ failing /\ stack[i].cur \in 1..5
      BY <2>4, Zenon DEF Pending, CallsFor, n
    <3>2. i # 1
      <4> SUFFICES ASSUME i = 1 PROVE FALSE
        BY Zenon
      <4>1. ~ (failing /\ stack[1].cur \in 1..5)
        BY <1>9, <2>2, <3>1, Zenon
      <4>2. PICK x \in stack[1].todo : x.rank = rank
        BY <3>1, <4>1, Zenon
      <4>3. failing /\ stack[1].cur \in {6, 7} /\ stack[1].cur <= rank
        <5>1. failing
          BY <1>5, <4>2, Zenon
        <5>2. Fatal(stack[1].cur) /\ stack[1].cur \notin 1..5
          BY <1>7, <4>1, <5>1, ZenonT(30)
        <5>3. stack[1].cur \in {6, 7}
          BY <5>2 DEF Fatal
        <5>4. stack[1].cur <= rank
          BY <1>7, <1>8, <4>2, Zenon
        <5> QED BY <5>1, <5>3, <5>4, Zenon
      <4> QED BY <2>4, <4>3
    <3>3. PICK x \in stack[i].todo : x.rank = rank /\ x.unit = d
      BY <3>1, <3>2, Zenon
    <3>4. PICK k \in 1 .. n - 2 : i = k + 1
      <4>1. i - 1 \in 1 .. n - 2 /\ i = (i - 1) + 1
        BY <1>2, <3>2
      <4> QED BY <4>1, Zenon
    <3>5. stack'[k] = stack[i] /\ Len(stack') - 1 = n - 2
      BY <1>3, <1>8, <1>10, <3>4, Zenon
    <3> QED BY <3>1, <3>3, <3>5, Zenon DEF Pending, CallsFor
  <2>5. ASSUME Hypothesis, NEW d \in Dep(j[1], "PULL_IN_START"), Linked(j, <<d, "start">>)
        PROVE  Linked(j, <<d, "start">>)' \/ Pending(j, d, 1)'
    <3>1. PICK l \in links : l.subject = j /\ l.object = <<d, "start">> /\ l.matters
      BY <2>5, Zenon DEF Linked
    <3>2. CASE <<d, "start">> \notin gone
      BY <1>6, <2>2, <3>1, <3>2, ZenonT(30) DEF Linked
    <3>3. CASE <<d, "start">> \in gone
      <4>1. stack[1].job = <<d, "start">> /\ failing
        BY <1>9, <3>3, ZenonT(30)
      <4>2. stack[1].job[2] = "start" /\ stack[1].job # anchor
        BY <2>2, <3>3, <4>1
      <4>3. ~ StartLoop
        BY <1>7, <2>5, <4>1, Zenon DEF Hypothesis
      <4>4. l.subject = stack[1 + 1].job /\ stack[1 + 1].cur = 1
        BY <1>8, <3>1, <4>1, <4>2, <4>3, ZenonT(30) DEF Inv, NewInv, n
      <4>5. stack[2].job = j /\ stack[2].cur = 1
        BY <3>1, <4>4
      <4>6. failing'
        BY <1>5, <4>1, <4>5, ZenonT(30) DEF Fatal
      <4>7. n # 2
        BY <1>7, <4>5, SMTT(30)
      <4>8. 1 \in 1 .. Len(stack') - 1 /\ stack'[1] = stack[2]
        BY <1>3, <1>8, <4>7
      <4> QED BY <4>5, <4>6, <4>8 DEF Pending, CallsFor
    <3> QED BY <3>2, <3>3, Zenon
  <2>6. ASSUME NEW d, Linked(j, <<d, "stop">>) PROVE Linked(j, <<d, "stop">>)'
    <3>1. <<d, "stop">> \notin gone
      BY <1>9, Zenon DEF BringUp
    <3> QED BY <1>6, <2>2, <2>6, <3>1, ZenonT(30) DEF Linked
  <2> QED BY <2>1, <2>3, <2>4, <2>5, <2>6, Zenon
<1>21. CollectedInv' /\ MatterInv'
  BY <1>5, Zenon DEF CollectedInv, MatterInv, Collected, Dropping, Merged
<1> QED BY <1>14, <1>15, <1>16, <1>17, <1>18, <1>19, <1>20, <1>21, Zenon DEF Inv

-----------------------------------------------------------------------------
(* The theorems.                                                           *)

\* The invariant is inductive.
LEMMA NextInv == ASSUME Inv, [Next]_vars PROVE Inv'
<1>1. ASSUME Return PROVE Inv'
  <2>1. Len(stack) = 1 \/ Len(stack) > 1
    <3>1. \A n \in Nat : n > 0 => n = 1 \/ n > 1
      OBVIOUS
    <3>2. Len(stack) \in Nat /\ Len(stack) > 0
      BY <1>1, TopFrame, Zenon DEF Return
    <3> QED BY <3>1, <3>2, Zenon
  <2> QED BY <1>1, <2>1, LastReturnInv, InnerReturnInv, Zenon
<1>2. ASSUME UNCHANGED vars PROVE Inv'
  <2>1. UNCHANGED <<deps, active, perpetual, installed, irreversible, ignore_order, request, jobs, ahead, links,
                    anchor, stack, failing, matter, phase>>
    BY <1>2, Zenon DEF vars, world
  <2>2. UNCHANGED world
    BY <2>1, Zenon DEF world
  <2>3. TypeInv' /\ ListInv' /\ NopInv' /\ MatterInv'
    BY <2>1, ZenonT(30) DEF Inv, TypeInv, ListInv, NopInv, MatterInv
  <2>4. StackInv'
    BY <2>1, <2>2, AllCallsSame, SMTT(60) DEF Inv, StackInv
  <2>5. ChainInv' /\ NewInv'
    <3>1. ChainInv'
      BY <2>1, <2>2, WorldSame, ZenonT(30) DEF Inv, ChainInv
    <3>2. NewInv'
      BY <2>1, <2>2, WorldSame, ZenonT(30) DEF Inv, NewInv
    <3> QED BY <3>1, <3>2, Zenon
  <2>6. /\ \A x, y : Linked(x, y) => Linked(x, y)'
        /\ \A x, d, rank : Pending(x, d, rank) => Pending(x, d, rank)'
    BY <2>1, Zenon DEF Linked, Pending
  <2>7. BuildInv'
    <3> SUFFICES ASSUME phase' = "build", anchor' \in jobs', Heeding', NEW j \in jobs', j[2] \in BringUp
                 PROVE  /\ Hypothesis' => \A d \in Dep(j[1], "PULL_IN_START")' :
                                              Linked(j, <<d, "start">>)' \/ Pending(j, d, 1)'
                        /\ \A d \in Dep(j[1], "PULL_IN_STOP")' :
                              d \in perpetual' \/ Linked(j, <<d, "stop">>)' \/ Pending(j, d, 4)'
      BY Zenon DEF BuildInv
    <3>1. /\ Hypothesis => \A d \in Dep(j[1], "PULL_IN_START") : Linked(j, <<d, "start">>) \/ Pending(j, d, 1)
          /\ \A d \in Dep(j[1], "PULL_IN_STOP") : d \in perpetual \/ Linked(j, <<d, "stop">>) \/ Pending(j, d, 4)
      BY <2>1, <2>2, WorldSame, Zenon DEF Inv, BuildInv
    <3> QED BY <2>1, <2>2, <2>6, <3>1, WorldSame
  <2>8. \A d : Idle(d) => Idle(d)'
    BY <2>1, Zenon DEF Idle, Of, Needed, ChangesExisting
  <2>9. \A d : (IsUp(d) => IsUp(d)') /\ (IsDown(d) => IsDown(d)')
    BY <2>1, <2>8, ZenonT(30) DEF IsUp, IsDown
  <2>10. CollectedInv'
    <3> SUFFICES ASSUME phase' \in Collected, Heeding', NEW j \in jobs', j[2] \in BringUp
                 PROVE  /\ Hypothesis' => \A d \in Dep(j[1], "PULL_IN_START")' :
                                              IsUp(d)' \/ \E t \in KeepUp : Linked(j, <<d, t>>)'
                        /\ \A d \in Dep(j[1], "PULL_IN_STOP")' :
                               d \in perpetual' \/ IsDown(d)' \/ Linked(j, <<d, "stop">>)'
      BY Zenon DEF CollectedInv
    <3>1. /\ Hypothesis => \A d \in Dep(j[1], "PULL_IN_START") : IsUp(d) \/ \E t \in KeepUp : Linked(j, <<d, t>>)
          /\ \A d \in Dep(j[1], "PULL_IN_STOP") : d \in perpetual \/ IsDown(d) \/ Linked(j, <<d, "stop">>)
      BY <2>1, <2>2, WorldSame, Zenon DEF Inv, CollectedInv
    <3> QED BY <2>1, <2>2, <2>6, <2>9, <3>1, WorldSame
  <2> QED BY <2>3, <2>4, <2>5, <2>7, <2>10, Zenon DEF Inv
<1> QED BY <1>1, <1>2, AddJobInv, AddDependencyInv, FindInv, MinimizeInv, RedundantInv, GarbageInv, OrderInv,
           ConflictingInv, MergeJobsInv, DestructiveInv, ZenonT(30) DEF Next

\* It always holds.
LEMMA InvAlways == Spec => []Inv
<1>1. Init => Inv
  BY InitInv, Zenon
<1>2. Inv /\ [Next]_vars => Inv'
  BY NextInv, Zenon
<1> QED BY <1>1, <1>2, PTL DEF Spec

\* No pointer outlives its job: links, lists, the calls under way and the anchor
\* refer to jobs of the transaction, however jobs are dropped from it.
THEOREM NoStalePointerAlways == Spec => []NoStalePointer
<1>1. Inv => NoStalePointer
  <2> SUFFICES ASSUME Inv PROVE NoStalePointer
    BY Zenon
  <2>1. \A l \in links : {l.subject, l.object} \subseteq jobs
    BY Zenon DEF Inv, TypeInv
  <2>2. \A p \in ahead : {p[1], p[2]} \subseteq jobs
    BY Zenon DEF Inv, TypeInv
  <2>3. \A i \in 1 .. Len(stack) - 1 : stack[i].job \in jobs
    BY Zenon DEF Inv, StackInv
  <2>4. phase \notin {"idle", "failed"} /\ ~ failing => anchor \in jobs
    BY Zenon DEF Inv, StackInv
  <2> QED BY <2>1, <2>2, <2>3, <2>4, Zenon DEF NoStalePointer
<1> QED BY <1>1, InvAlways, PTL

\* What is applied has one job for each unit.
LEMMA FinalJob ==
  ASSUME Inv, phase = "apply", NEW u
  PROVE  /\ HasJobs(u) => <<u, Final(u)>> \in jobs
         /\ ~ HasJobs(u) => Final(u) = "none" /\ Of(u) = {}
         /\ \A t : <<u, t>> \in jobs => HasJobs(u) /\ Final(u) = t
<1>1. ahead = {} /\ jobs \subseteq Job
  BY Zenon DEF Inv, ListInv, TypeInv, Merged
<1>2. \A j, k \in Of(u) : j = k
  BY <1>1, Zenon DEF Inv, ListInv, Of
<1>3. \A j \in Of(u) : First(j)
  BY <1>1, Zenon DEF First, Of
<1>4. ASSUME NEW j \in Of(u) PROVE HasJobs(u) /\ Final(u) = j[2] /\ j = <<u, j[2]>> /\ j \in jobs
  <2>1. HasJobs(u)
    BY Zenon DEF HasJobs
  <2>2. (CHOOSE k \in Of(u) : First(k)) \in Of(u)
    BY <1>3, Zenon
  <2>3. Final(u) = j[2]
    BY <1>2, <2>1, <2>2, Zenon DEF Final, FirstType
  <2>4. j \in Job /\ j[1] = u /\ j \in jobs
    BY <1>1, Zenon DEF Of
  <2>5. j = <<j[1], j[2]>>
    BY <2>4, PairOf DEF Job
  <2> QED BY <2>1, <2>3, <2>4, <2>5, Zenon
<1>5. HasJobs(u) => <<u, Final(u)>> \in jobs
  BY <1>4, Zenon DEF HasJobs
<1>6. ~ HasJobs(u) => Final(u) = "none" /\ Of(u) = {}
  BY Zenon DEF HasJobs, Final
<1>7. ASSUME NEW t, <<u, t>> \in jobs PROVE HasJobs(u) /\ Final(u) = t
  <2>1. <<u, t>> \in Of(u)
    BY <1>7, Zenon DEF Of
  <2> QED BY <1>4, <2>1, Zenon
<1> QED BY <1>5, <1>6, <1>7, Zenon

\* What is applied starts no unit without the units it requires, unless some
\* units cannot be loaded and some unit requires one whose start leads to its own.
THEOREM RequirementsMetAlways == Spec => []RequirementsMet
<1>1. Inv => RequirementsMet
  <2> SUFFICES ASSUME Inv, Hypothesis, phase = "apply", Heeding,
                      NEW u \in Units, Final(u) \in {"start", "restart"},
                      NEW d \in Dep(u, "PULL_IN_START")
               PROVE  \/ Final(d) \in {"start", "restart", "reload"}
                      \/ Final(d) = "none" /\ IsActiveOrReloading(active[d]) /\ installed[d] # "stop"
    BY Zenon DEF RequirementsMet, RequiredStarted, Hypothesis, Heeding
  <2>1. <<u, Final(u)>> \in jobs
    BY FinalJob, Zenon
  <2>2. IsUp(d) \/ \E t \in KeepUp : Linked(<<u, Final(u)>>, <<d, t>>)
    BY <2>1, Zenon DEF Inv, CollectedInv, Collected, Merged, BringUp
  <2>3. CASE IsUp(d)
    <3>1. Of(d) = {}
      BY <2>3, Zenon DEF IsUp, Idle
    <3>2. ~ HasJobs(d)
      BY <3>1, Zenon DEF HasJobs
    <3> QED BY <2>3, <3>2, FinalJob, Zenon DEF IsUp
  <2>4. ASSUME NEW t \in KeepUp, Linked(<<u, Final(u)>>, <<d, t>>) PROVE Final(d) \in {"start", "restart", "reload"}
    <3>1. <<d, t>> \in jobs
      BY <2>4, Zenon DEF Linked, Inv, TypeInv
    <3> QED BY <3>1, FinalJob, Zenon DEF KeepUp
  <2> QED BY <2>2, <2>3, <2>4, Zenon
<1> QED BY <1>1, InvAlways, PTL

\* What is applied starts no unit along with one it conflicts with.
THEOREM ConflictsStoppedAlways == Spec => []ConflictsStopped
<1>1. Inv => ConflictsStopped
  <2> SUFFICES ASSUME Inv, phase = "apply", Heeding,
                      NEW u \in Units, Final(u) \in {"start", "restart"},
                      NEW d \in Dep(u, "PULL_IN_STOP")
               PROVE  \/ Final(d) = "stop"
                      \/ Final(d) = "none" /\ IsInactiveOrFailed(active[d]) /\ installed[d] \in {"none", "stop", "nop"}
                      \/ d \in perpetual
    BY Zenon DEF ConflictsStopped, Heeding
  <2>1. <<u, Final(u)>> \in jobs
    BY FinalJob, Zenon
  <2>2. d \in perpetual \/ IsDown(d) \/ Linked(<<u, Final(u)>>, <<d, "stop">>)
    BY <2>1, Zenon DEF Inv, CollectedInv, Collected, Merged, BringUp
  <2>3. CASE IsDown(d)
    <3>1. Of(d) = {}
      BY <2>3, Zenon DEF IsDown, Idle
    <3>2. ~ HasJobs(d)
      BY <3>1, Zenon DEF HasJobs
    <3> QED BY <2>3, <3>2, FinalJob, Zenon DEF IsDown
  <2>4. CASE Linked(<<u, Final(u)>>, <<d, "stop">>)
    <3>1. <<d, "stop">> \in jobs
      BY <2>4, Zenon DEF Linked, Inv, TypeInv
    <3> QED BY <3>1, FinalJob, Zenon
  <2> QED BY <2>2, <2>3, <2>4, Zenon
<1> QED BY <1>1, InvAlways, PTL

-----------------------------------------------------------------------------
(* The order that was verified.                                            *)

\* No unit has both a job that takes it down and one that does not.  (A RESTART
\* counts as one that does, and merges with a START, say.)
OneWay ==
    \A u \in Units : \A j \in Of(u) :
        /\ \A k \in Of(u) : Downwards(j[2]) <=> Downwards(k[2])
        /\ installed[u] \notin {"none", "nop"} => (Downwards(installed[u]) <=> Downwards(j[2]))

NoCycle == \A S \in CycleSets : \A u \in S : ~ HasJobs(u)

\* The phases after transaction_verify_order.
Verified == {"conflicts", "garbage again", "merge", "redundant again", "check", "apply"}

VerifiedInv == phase \in Verified => OneWay /\ NoCycle

\* What is ahead of a job is ahead of those after it.
IsAhead(x, y) == <<x, y>> \in ahead
AheadInv == \A x, y, z : IsAhead(x, y) /\ IsAhead(y, z) => IsAhead(x, z)

\* Dropping jobs keeps the lists,
LEMMA DropAhead == ASSUME AheadInv, NEW gone, Drop(gone) PROVE AheadInv'
<1>1. \A x, y : IsAhead(x, y)' <=> IsAhead(x, y) /\ x \notin gone /\ y \notin gone
  BY Zenon DEF Drop, IsAhead
<1> QED BY <1>1, Zenon DEF AheadInv

\* and so does a new job ahead of the others,
LEMMA AddAhead ==
  ASSUME TypeInv, ListInv, AheadInv, NEW j, j \notin jobs, transaction_add_one_job(j)
  PROVE  AheadInv'
<1>1. \A x, y : IsAhead(x, y)' <=> IsAhead(x, y) \/ (x = j /\ y \in Of(j[1]))
  BY Zenon DEF transaction_add_one_job, IsAhead
<1>2. \A x, y : IsAhead(x, y) => x \in jobs /\ y \in jobs /\ x[1] = y[1]
  <2> SUFFICES ASSUME NEW x, NEW y, IsAhead(x, y) PROVE x \in jobs /\ y \in jobs /\ x[1] = y[1]
    BY Zenon
  <2>1. <<x, y>>[1] = x /\ <<x, y>>[2] = y
    OBVIOUS
  <2>2. <<x, y>> \in jobs \X jobs
    BY Zenon DEF TypeInv, IsAhead
  <2>3. x[1] = y[1]
    BY <2>1, Zenon DEF ListInv, IsAhead
  <2> QED BY <2>2, <2>3, Zenon
<1>3. Of(j[1]) \subseteq jobs /\ \A y \in Of(j[1]) : y[1] = j[1]
  BY Zenon DEF Of
<1>4. \A y \in jobs : y[1] = j[1] => y \in Of(j[1])
  BY Zenon DEF Of
<1> SUFFICES ASSUME NEW x, NEW y, NEW z, IsAhead(x, y)', IsAhead(y, z)' PROVE IsAhead(x, z)'
  BY Zenon DEF AheadInv
<1>5. y # j
  BY <1>1, <1>2, <1>3, Zenon
<1>6. IsAhead(y, z)
  BY <1>1, <1>5, Zenon
<1>7. CASE IsAhead(x, y)
  BY <1>1, <1>6, <1>7, Zenon DEF AheadInv
<1>8. CASE x = j /\ y \in Of(j[1])
  <2>1. z \in jobs /\ y[1] = z[1]
    BY <1>2, <1>6, SMT
  <2>2. y[1] = j[1]
    BY <1>3, <1>8, Zenon
  <2>3. z \in Of(j[1])
    BY <1>4, <2>1, <2>2, Zenon
  <2> QED BY <1>1, <1>8, <2>3, Zenon
<1> QED BY <1>1, <1>7, <1>8, Zenon

\* and a merge of the first two.
LEMMA MergeAhead ==
  ASSUME Inv, AheadInv, NEW j \in jobs, NEW k \in jobs, First(j), JustAhead(j, k),
         NEW t, t \in {j[2], k[2]}, MergesTwo(j, k, t)
  PROVE  AheadInv' /\ jobs' \subseteq jobs
<1>1. /\ \A x, y : IsAhead(x, y) => x \in jobs /\ y \in jobs /\ x[1] = y[1] /\ x # y
      /\ \A x, y \in jobs : x[1] = y[1] /\ x # y => IsAhead(x, y) \/ IsAhead(y, x)
  <2>1. ASSUME NEW x, NEW y, IsAhead(x, y) PROVE x \in jobs /\ y \in jobs /\ x[1] = y[1] /\ x # y
    <3>1. <<x, y>>[1] = x /\ <<x, y>>[2] = y
      OBVIOUS
    <3>2. <<x, y>> \in jobs \X jobs
      BY <2>1, Zenon DEF Inv, TypeInv, IsAhead
    <3>3. x[1] = y[1] /\ x # y
      BY <2>1, <3>1, Zenon DEF Inv, ListInv, IsAhead
    <3> QED BY <3>2, <3>3, Zenon
  <2> QED BY <2>1, Zenon DEF Inv, ListInv, IsAhead
<1>2. IsAhead(j, k) /\ j[1] = k[1] /\ j \in Job /\ k \in Job /\ jobs \subseteq Job
  BY <1>1, Zenon DEF JustAhead, Inv, TypeInv, IsAhead
<1>3. /\ <<j[1], t>> \in {j, k}
      /\ \A x, y \in Job : Renamed(x, j, k, t) = Renamed(y, j, k, t) => x = y \/ {x, y} \subseteq {j, k}
  BY <1>2, RenamedJobs, ZenonT(30)
<1>4. jobs' \subseteq jobs
  BY <1>3, Zenon DEF MergesTwo, Renamed
<1>5. \A x, y : IsAhead(x, y)' <=>
                  \E a, b : IsAhead(a, b) /\ <<a, b>> # <<j, k>> /\ x = Renamed(a, j, k, t) /\ y = Renamed(b, j, k, t)
  <2>1. \A p \in ahead : p = <<p[1], p[2]>>
    <3> SUFFICES ASSUME NEW p \in ahead PROVE p = <<p[1], p[2]>>
      BY Zenon
    <3>1. p \in jobs \X jobs
      BY Zenon DEF Inv, TypeInv
    <3> QED BY <3>1, PairOf
  <2>2. ahead' = {<<Renamed(p[1], j, k, t), Renamed(p[2], j, k, t)>> : p \in ahead \ {<<j, k>>}}
    BY Zenon DEF MergesTwo
  <2> SUFFICES ASSUME NEW x, NEW y
               PROVE  IsAhead(x, y)' <=>
                        \E a, b : /\ IsAhead(a, b) /\ <<a, b>> # <<j, k>>
                                 /\ x = Renamed(a, j, k, t) /\ y = Renamed(b, j, k, t)
    BY Zenon
  <2>3. ASSUME IsAhead(x, y)'
        PROVE  \E a, b : /\ IsAhead(a, b) /\ <<a, b>> # <<j, k>>
                        /\ x = Renamed(a, j, k, t) /\ y = Renamed(b, j, k, t)
    <3>1. PICK p \in ahead \ {<<j, k>>} : <<x, y>> = <<Renamed(p[1], j, k, t), Renamed(p[2], j, k, t)>>
      BY <2>2, <2>3, Zenon DEF IsAhead
    <3>2. x = Renamed(p[1], j, k, t) /\ y = Renamed(p[2], j, k, t)
      BY <3>1, Zenon
    <3>3. IsAhead(p[1], p[2]) /\ <<p[1], p[2]>> # <<j, k>>
      BY <2>1, Zenon DEF IsAhead
    <3> QED BY <3>2, <3>3, Zenon
  <2>4. ASSUME NEW a, NEW b, IsAhead(a, b), <<a, b>> # <<j, k>>,
               x = Renamed(a, j, k, t), y = Renamed(b, j, k, t)
        PROVE  IsAhead(x, y)'
    <3>1. <<a, b>>[1] = a /\ <<a, b>>[2] = b
      OBVIOUS
    <3> QED BY <2>2, <2>4, <3>1, Zenon DEF IsAhead
  <2> QED BY <2>3, <2>4, Zenon
<1> SUFFICES ASSUME NEW x, NEW y, NEW z, IsAhead(x, y)', IsAhead(y, z)' PROVE IsAhead(x, z)'
  BY <1>4, Zenon DEF AheadInv
<1>6. PICK a, b : IsAhead(a, b) /\ <<a, b>> # <<j, k>> /\ x = Renamed(a, j, k, t) /\ y = Renamed(b, j, k, t)
  BY <1>5, Zenon
<1>7. PICK c, d : IsAhead(c, d) /\ <<c, d>> # <<j, k>> /\ y = Renamed(c, j, k, t) /\ z = Renamed(d, j, k, t)
  BY <1>5, Zenon
<1>8. a \in jobs /\ b \in jobs /\ c \in jobs /\ d \in jobs
  BY <1>1, <1>6, <1>7, Zenon
<1>9. b # j /\ d # j
  BY <1>6, <1>7, <1>8, Zenon DEF First, IsAhead
<1>10. ~ (b = k /\ c = j)
  <2> SUFFICES ASSUME b = k, c = j PROVE FALSE
    BY Zenon
  <2>1. a # j /\ a[1] = j[1]
    BY <1>1, <1>2, <1>6, Zenon
  <2>2. IsAhead(j, a)
    BY <1>1, <1>8, <2>1, Zenon DEF First, IsAhead
  <2> QED BY <1>6, <1>8, <2>2, Zenon DEF JustAhead, IsAhead
<1>11. b = c
  <2>1. b = c \/ {b, c} \subseteq {j, k}
    BY <1>2, <1>3, <1>6, <1>7, <1>8, Zenon
  <2> QED BY <1>9, <1>10, <2>1, Zenon
<1>12. IsAhead(a, d)
  BY <1>6, <1>7, <1>11, Zenon DEF AheadInv
<1>13. <<a, d>> # <<j, k>>
  <2> SUFFICES ASSUME <<a, d>> = <<j, k>> PROVE FALSE
    BY Zenon
  <2>1. a = j /\ d = k
    OBVIOUS
  <2> QED BY <1>6, <1>7, <1>8, <1>11, <2>1, Zenon DEF JustAhead, IsAhead
<1> QED BY <1>5, <1>6, <1>7, <1>12, <1>13, Zenon

\* The lists are in order.
LEMMA NextAhead ==
  ASSUME Inv, AheadInv, [Next]_vars
  PROVE  /\ AheadInv'
         /\ phase' \in Verified => \/ phase \in Verified /\ jobs' \subseteq jobs /\ UNCHANGED world
                                   \/ phase = "order" /\ transaction_verify_order /\ Keep
                                   \/ UNCHANGED vars
<1>1. ASSUME UNCHANGED ahead PROVE AheadInv'
  BY <1>1, Zenon DEF AheadInv, IsAhead
<1>2. ASSUME Keep PROVE AheadInv' /\ jobs' \subseteq jobs
  BY <1>1, <1>2, Zenon DEF Keep
<1>3. ASSUME NEW gone, Drop(gone) PROVE AheadInv' /\ jobs' \subseteq jobs
  BY <1>3, DropAhead, Zenon DEF Drop
<1>4. ASSUME NEW j, NEW all, transaction_delete_job(j, all) PROVE AheadInv' /\ jobs' \subseteq jobs
  BY <1>3, <1>4, Zenon DEF transaction_delete_job
<1>5. Rest => UNCHANGED world
  BY Zenon DEF Rest
<1>6. CASE manager_add_job(request)
  <2>1. UNCHANGED ahead /\ phase' = "build"
    BY <1>6, Zenon DEF manager_add_job
  <2> QED BY <1>1, <2>1, Zenon DEF Verified
<1>7. CASE AddDependency
  <2>1. phase' = "build"
    BY <1>7, Zenon DEF AddDependency
  <2>2. UNCHANGED ahead \/ \E j : j \notin jobs /\ transaction_add_one_job(j)
    BY <1>7, ZenonT(30) DEF AddDependency
  <2>3. AheadInv'
    BY <1>1, <2>2, AddAhead, Zenon DEF Inv
  <2> QED BY <2>1, <2>3, Zenon DEF Verified
<1>8. CASE Return
  <2>1. phase' \in {"build", "failed", "mark"}
    BY <1>8, Zenon DEF Return
  <2>2. AheadInv'
    BY <1>1, <1>4, <1>8, Zenon DEF Return
  <2> QED BY <2>1, <2>2, Zenon DEF Verified
<1>9. CASE transaction_find_jobs_that_matter_to_anchor
  <2>1. Keep /\ phase' = "minimize"
    BY <1>9, Zenon DEF transaction_find_jobs_that_matter_to_anchor, Go
  <2> QED BY <1>2, <2>1, Zenon DEF Verified
<1>10. CASE transaction_minimize_impact
  <2>1. phase' \in {"minimize", "redundant"}
    BY <1>10, Zenon DEF transaction_minimize_impact, Go
  <2>2. AheadInv'
    BY <1>2, <1>4, <1>10, Zenon DEF transaction_minimize_impact
  <2> QED BY <2>1, <2>2, Zenon DEF Verified
<1>11. ASSUME NEW now, NEW next, transaction_drop_redundant(now, next) \/ transaction_collect_garbage(now, next)
       PROVE  AheadInv' /\ jobs' \subseteq jobs /\ UNCHANGED world /\ phase = now /\ phase' \in {now, next}
  BY <1>2, <1>4, <1>5, <1>11, Zenon DEF transaction_drop_redundant, transaction_collect_garbage, Go
<1>12. CASE \/ transaction_drop_redundant("redundant", "garbage")
            \/ transaction_collect_garbage("garbage", "order")
  <2>1. AheadInv' /\ phase' \in {"redundant", "garbage", "order"}
    BY <1>11, <1>12, Zenon
  <2> QED BY <2>1, Zenon DEF Verified
<1>13. CASE \/ transaction_collect_garbage("garbage again", "conflicts")
            \/ transaction_drop_redundant("redundant again", "check")
  <2>1. AheadInv' /\ jobs' \subseteq jobs /\ UNCHANGED world /\ phase \in {"garbage again", "redundant again"}
    BY <1>11, <1>13, Zenon
  <2> QED BY <2>1, Zenon DEF Verified
<1>14. CASE transaction_verify_order
  <2>1. AheadInv' /\ phase = "order"
    BY <1>2, <1>3, <1>14, Zenon DEF transaction_verify_order, Unbreakable
  <2>2. Keep \/ phase' = "garbage"
    BY <1>14, Zenon DEF transaction_verify_order, Unbreakable, Go
  <2> QED BY <1>14, <2>1, <2>2, Zenon DEF Verified
<1>15. CASE DropConflicting
  <2>1. AheadInv' /\ jobs' \subseteq jobs /\ UNCHANGED world /\ phase = "conflicts"
    BY <1>2, <1>4, <1>5, <1>15, Zenon DEF DropConflicting
  <2> QED BY <2>1, Zenon DEF Verified
<1>16. CASE transaction_is_destructive
  <2>1. AheadInv' /\ jobs' \subseteq jobs /\ UNCHANGED world /\ phase = "check"
    BY <1>2, <1>5, <1>16, Zenon DEF transaction_is_destructive
  <2> QED BY <2>1, Zenon DEF Verified
<1>17. CASE MergeJobs
  <2>1. UNCHANGED world /\ phase = "merge"
    BY <1>5, <1>17, Zenon DEF MergeJobs
  <2>2. CASE Keep
    BY <1>2, <2>1, <2>2, Zenon DEF Verified
  <2>3. CASE \E j, k \in jobs : First(j) /\ JustAhead(j, k) /\ transaction_merge_and_delete_job(j, k)
    <3>1. PICK j \in jobs, k \in jobs : First(j) /\ JustAhead(j, k) /\ transaction_merge_and_delete_job(j, k)
      BY <2>3, Zenon
    <3> DEFINE t == job_type_merge_and_collapse(j[2], k[2], active[j[1]])
    <3>2. Keep \/ (t # "unmergeable" /\ MergesTwo(j, k, t))
      BY <3>1, Zenon DEF transaction_merge_and_delete_job, Renamed, RenamedLink, MergesTwo
    <3>3. CASE t # "unmergeable" /\ MergesTwo(j, k, t)
      <4>1. /\ j \in Job /\ k \in Job /\ j = <<j[1], j[2]>> /\ k = <<k[1], k[2]>>
        <5>1. j \in Job /\ k \in Job
          BY Zenon DEF Inv, TypeInv
        <5> QED BY <5>1, PairOf DEF Job
      <4>2. <<j, k>> \in ahead /\ <<j, k>>[1] = j /\ <<j, k>>[2] = k
        BY <3>1 DEF JustAhead
      <4>3. j # k /\ j[1] = k[1]
        BY <4>2, Zenon DEF Inv, ListInv
      <4>4. j[2] # k[2] /\ j[2] \in TransactionTypes /\ k[2] \in TransactionTypes
        BY <4>1, <4>3, Zenon DEF Job
      <4>5. j[2] # "nop" /\ k[2] # "nop"
        BY <2>1, <4>3, Zenon DEF Inv, NopInv
      <4>6. j[2] \in MergingTypes /\ k[2] \in MergingTypes
        BY <4>4, <4>5, Zenon DEF TransactionTypes
      <4>7. t \in {j[2], k[2]}
        BY <3>3, <4>4, <4>6, MergeResult, Zenon
      <4> HIDE DEF t
      <4>8. AheadInv' /\ jobs' \subseteq jobs
        BY <3>1, <3>3, <4>7, MergeAhead, Zenon
      <4> QED BY <2>1, <4>8, Zenon DEF Verified
    <3> QED BY <2>2, <3>2, <3>3, Zenon
  <2> QED BY <1>17, <2>2, <2>3, Zenon DEF MergeJobs
<1>18. CASE UNCHANGED vars
  BY <1>1, <1>18, Zenon DEF vars
<1> QED BY <1>6, <1>7, <1>8, <1>9, <1>10, <1>12, <1>13, <1>14, <1>15, <1>16, <1>17, <1>18, ZenonT(30) DEF Next

\* Every set of jobs has one that no other is ahead of, if it holds without z.
LEMMA OneMore ==
  ASSUME AheadInv, \A x : ~ IsAhead(x, x), NEW B, NEW z,
         \A A \in SUBSET B : A # {} => \E x \in A : \A y \in A : ~ IsAhead(y, x)
  PROVE  \A A \in SUBSET (B \cup {z}) : A # {} => \E x \in A : \A y \in A : ~ IsAhead(y, x)
<1> SUFFICES ASSUME NEW A \in SUBSET (B \cup {z}), A # {} PROVE \E x \in A : \A y \in A : ~ IsAhead(y, x)
  BY Zenon
<1> DEFINE R == A \ {z}
<1>1. R \in SUBSET B /\ \A y \in A : y \in R \/ y = z
  BY Zenon
<1>2. CASE R = {}
  <2>1. \A y \in A : y = z
    BY <1>1, <1>2, Zenon
  <2>2. z \in A
    BY <2>1, Zenon
  <2> QED BY <2>1, <2>2, ZenonT(30)
<1>3. CASE R # {}
  <2>1. PICK x \in R : \A y \in R : ~ IsAhead(y, x)
    BY <1>1, <1>3, Zenon
  <2>2. CASE ~ IsAhead(z, x)
    BY <1>1, <2>1, <2>2, Zenon
  <2>3. CASE IsAhead(z, x) /\ z \in A
    <3>1. \A y \in A : ~ IsAhead(y, z)
      BY <1>1, <2>1, <2>3, Zenon DEF AheadInv
    <3> QED BY <2>3, <3>1, Zenon
  <2>4. CASE z \notin A
    BY <1>1, <2>1, <2>4, Zenon
  <2> QED BY <2>2, <2>3, <2>4, Zenon
<1> QED BY <1>2, <1>3, Zenon

\* The entry of a unit in tr->jobs is one of its jobs.
LEMMA FirstOf ==
  ASSUME Inv, AheadInv, NEW u, HasJobs(u)
  PROVE  \E j \in Of(u) : FirstType(u) = j[2]
<1> DEFINE Least(B) == \A A \in SUBSET B : A # {} => \E x \in A : \A y \in A : ~ IsAhead(y, x)
           B1 == {} \cup {<<u, "start">>}
           B2 == B1 \cup {<<u, "verify">>}
           B3 == B2 \cup {<<u, "stop">>}
           B4 == B3 \cup {<<u, "reload">>}
           B5 == B4 \cup {<<u, "restart">>}
           B6 == B5 \cup {<<u, "nop">>}
<1>1. /\ \A x : ~ IsAhead(x, x)
      /\ \A x, y : IsAhead(x, y) => x \in jobs /\ x[1] = y[1]
  <2>1. ASSUME NEW x, NEW y, IsAhead(x, y) PROVE x \in jobs /\ y \in jobs /\ x[1] = y[1] /\ x # y
    <3>1. <<x, y>>[1] = x /\ <<x, y>>[2] = y
      OBVIOUS
    <3>2. <<x, y>> \in jobs \X jobs
      BY <2>1, Zenon DEF Inv, TypeInv, IsAhead
    <3>3. x[1] = y[1] /\ x # y
      BY <2>1, <3>1, Zenon DEF Inv, ListInv, IsAhead
    <3> QED BY <3>2, <3>3, Zenon
  <2> QED BY <2>1, Zenon
<1>2. Of(u) \subseteq B6
  <2> SUFFICES ASSUME NEW j \in Of(u) PROVE j \in B6
    BY Zenon
  <2>1. j \in Job /\ j[1] = u
    BY Zenon DEF Of, Inv, TypeInv
  <2>2. j = <<u, j[2]>> /\ j[2] \in TransactionTypes
    BY <2>1, PairOf DEF Job
  <2> QED BY <2>2, Zenon DEF TransactionTypes, MergingTypes
<1>3. \A B, z : Least(B) => Least(B \cup {z})
  BY <1>1, OneMore, Zenon
<1>4. Least({})
  BY Zenon
<1> HIDE DEF Least
<1>5. Least(B6)
  BY <1>3, <1>4, Zenon
<1> USE DEF Least
<1> HIDE DEF B6
<1>6. PICK x \in Of(u) : \A y \in Of(u) : ~ IsAhead(y, x)
  BY <1>2, <1>5, Zenon DEF HasJobs
<1>7. x \in jobs /\ x[1] = u
  BY Zenon DEF Of
<1>8. ASSUME NEW k \in jobs, IsAhead(k, x) PROVE FALSE
  <2>1. k[1] = u
    BY <1>1, <1>7, <1>8
  <2>2. k \in Of(u)
    BY <2>1, Zenon DEF Of
  <2> QED BY <1>6, <1>8, <2>2, Zenon
<1>9. First(x)
  BY <1>7, <1>8, Zenon DEF First, IsAhead
<1>10. (CHOOSE j \in Of(u) : First(j)) \in Of(u)
  BY <1>9, Zenon
<1> QED BY <1>10, Zenon DEF FirstType

\* Of two units that are ordered, which goes first depends on which way they go.
LEMMA FirstGoes ==
  ASSUME NEW u, NEW v
  PROVE  RunsBefore(u, v) <=> /\ Ordered(u) /\ Ordered(v)
                              /\ \/ v \in Dep(u, "Before") /\ ~ Downwards(OrderType(v))
                                 \/ v \in Dep(u, "After") /\ Downwards(OrderType(u))
<1>1. job_compare_before(OrderType(u), OrderType(v)) < 0 <=> ~ Downwards(OrderType(v))
  BY DEF job_compare_before
<1>2. job_compare_after(OrderType(u), OrderType(v)) < 0 <=> Downwards(OrderType(u))
  BY DEF job_compare_after, job_compare_before
<1> QED BY <1>1, <1>2, Zenon DEF RunsBefore

\* Fewer units that are ordered, going the same way, make no cycle.
LEMMA OrderShrinks ==
  ASSUME UNCHANGED world, NoCycle, jobs' \subseteq jobs,
         \A u \in Units : Ordered(u)' => Ordered(u) /\ (Downwards(OrderType(u))' <=> Downwards(OrderType(u)))
  PROVE  NoCycle'
<1>1. \A u, v \in Units : RunsBefore(u, v)' => RunsBefore(u, v)
  <2> SUFFICES ASSUME NEW u \in Units, NEW v \in Units, RunsBefore(u, v)' PROVE RunsBefore(u, v)
    BY Zenon
  <2>1. Dep(u, "Before")' = Dep(u, "Before") /\ Dep(u, "After")' = Dep(u, "After")
    BY WorldSame, Zenon
  <2>2. /\ Ordered(u)' /\ Ordered(v)'
        /\ \/ v \in Dep(u, "Before")' /\ ~ Downwards(OrderType(v))'
           \/ v \in Dep(u, "After")' /\ Downwards(OrderType(u))'
    <3>1. /\ job_compare_before(OrderType(u), OrderType(v))' < 0 <=> ~ Downwards(OrderType(v))'
          /\ job_compare_after(OrderType(u), OrderType(v))' < 0 <=> Downwards(OrderType(u))'
      BY DEF job_compare_after, job_compare_before
    <3> QED BY <3>1, Zenon DEF RunsBefore
  <2> QED BY <2>1, <2>2, FirstGoes, Zenon
<1>2. \A S \in CycleSets' : S \in CycleSets
  BY <1>1, ZenonT(30) DEF CycleSets
<1>3. \A u : HasJobs(u)' => HasJobs(u)
  BY Zenon DEF HasJobs, Of
<1> QED BY <1>2, <1>3, Zenon DEF NoCycle

\* Jobs that are dropped or merged after the order was verified leave it without
\* cycles.
LEMMA StaysVerified ==
  ASSUME Inv, Inv', AheadInv, AheadInv', OneWay, NoCycle, UNCHANGED world, jobs' \subseteq jobs, phase' \in Verified
  PROVE  OneWay' /\ NoCycle'
<1>1. /\ UNCHANGED <<installed, request, ignore_order>>
  BY Zenon DEF world
<1>2. \A u : Of(u)' \subseteq Of(u)
  BY Zenon DEF Of
<1>3. OneWay'
  BY <1>1, <1>2, Zenon DEF OneWay
<1>4. ASSUME NEW u, HasJobs(u)' PROVE \E j \in Of(u)' : FirstType(u)' = j[2]
  <2>1. (Inv /\ AheadInv /\ HasJobs(u) => \E j \in Of(u) : FirstType(u) = j[2])'
    BY FirstOf, PTL
  <2> QED BY <1>4, <2>1, Zenon
<1>5. CASE request.mode = "ignore-dependencies" \/ anchor'[2] = "nop"
  <2> SUFFICES ASSUME NEW S \in CycleSets', NEW u \in S, HasJobs(u)' PROVE FALSE
    BY <1>3, Zenon DEF NoCycle
  <2>1. Ordered(u)'
    BY Zenon DEF CycleSets, RunsBefore
  <2>2. FirstType(u)' # "nop" /\ request.mode # "ignore-dependencies"
    BY <1>1, <2>1, Zenon DEF Ordered, OrderType
  <2>3. PICK j \in jobs' : j[2] # "nop"
    BY <1>4, <2>2, Zenon DEF Of
  <2>4. phase' # "idle"
    BY Zenon DEF Verified
  <2> QED BY <1>5, <2>2, <2>3, <2>4, Zenon DEF Inv, NopInv
<1>6. CASE request.mode # "ignore-dependencies" /\ anchor'[2] # "nop"
  <2>1. \A j \in jobs : j[2] \notin {"none", "nop"}
    <3>1. anchor' \in jobs'
      BY Zenon DEF Inv, StackInv, Verified
    <3>2. \A j \in jobs' : j[2] # "nop"
      BY <1>6, Zenon DEF Inv, NopInv
    <3>3. jobs \subseteq Job
      BY Zenon DEF Inv, TypeInv
    <3>4. \A j \in jobs : j[2] \in TransactionTypes
      BY <3>3, PairOf DEF Job
    <3>5. anchor[2] # "nop"
      <4>1. phase # "idle" /\ anchor' \in jobs
        BY <3>1, Zenon DEF Inv, StackInv
      <4> QED BY <1>6, <4>1, Zenon DEF Inv, NopInv
    <3> QED BY <3>4, <3>5, Zenon DEF Inv, NopInv, TransactionTypes, MergingTypes
  <2>2. ASSUME NEW u \in Units, Ordered(u)'
        PROVE  Ordered(u) /\ (Downwards(OrderType(u))' <=> Downwards(OrderType(u)))
    <3>1. CASE HasJobs(u)
      <4>1. PICK i \in Of(u) : FirstType(u) = i[2]
        BY <3>1, FirstOf, Zenon
      <4>2. OrderType(u) = i[2] /\ Ordered(u)
        BY <1>6, <2>1, <3>1, <4>1, Zenon DEF OrderType, Ordered, Of
      <4>3. CASE HasJobs(u)'
        <5>1. PICK j \in Of(u)' : FirstType(u)' = j[2]
          BY <1>4, <4>3, Zenon
        <5>2. OrderType(u)' = j[2] /\ j \in Of(u)
          BY <1>2, <4>3, <5>1, Zenon DEF OrderType
        <5>3. Downwards(j[2]) <=> Downwards(i[2])
          BY <5>2, Zenon DEF OneWay
        <5> QED BY <4>2, <5>2, <5>3, Zenon DEF Downwards
      <4>4. CASE ~ HasJobs(u)'
        <5>1. OrderType(u)' = installed[u] /\ installed[u] \notin {"none", "nop"}
          BY <1>1, <2>2, <4>4, Zenon DEF OrderType, Ordered
        <5>2. Downwards(installed[u]) <=> Downwards(i[2])
          BY <5>1, Zenon DEF OneWay
        <5> QED BY <4>2, <5>1, <5>2, Zenon DEF Downwards
      <4> QED BY <4>3, <4>4, Zenon
    <3>2. CASE ~ HasJobs(u)
      <4>1. ~ HasJobs(u)'
        BY <1>2, <3>2, Zenon DEF HasJobs
      <4>2. OrderType(u) = installed[u] /\ OrderType(u)' = installed[u]
        BY <1>1, <3>2, <4>1, Zenon DEF OrderType
      <4> QED BY <1>1, <2>2, <3>2, <4>1, <4>2, Zenon DEF Ordered, Downwards
    <3> QED BY <3>1, <3>2, Zenon
  <2>3. NoCycle'
    BY <2>2, OrderShrinks, Zenon
  <2> QED BY <1>3, <2>3, Zenon
<1> QED BY <1>5, <1>6, Zenon

\* transaction_verify_order goes on if no job is in a cycle.
LEMMA VerifyOrder ==
  ASSUME Inv, transaction_verify_order, phase' \in Verified
  PROVE  NoCycle
<1> DEFINE found == {S \in CycleSets : \E u \in Units : HasJobs(u) /\ LeadsTo(u, S)}
<1>1. found = {}
  BY Zenon DEF transaction_verify_order, Go, Unbreakable, Verified
<1> SUFFICES ASSUME NEW S \in CycleSets, NEW u \in S, HasJobs(u) PROVE FALSE
  BY Zenon DEF NoCycle
<1>2. u \in Units
  BY Zenon DEF CycleSets
<1>3. LeadsTo(u, S)
  <2>1. {u} \in SUBSET Units /\ u \in {u} /\ {u} \cap S # {}
    BY <1>2, Zenon
  <2>2. \A Q \in SUBSET {u} : u \in Q /\ Q # {u} => FALSE
    BY Zenon
  <2> QED BY <2>1, <2>2, Zenon DEF LeadsTo
<1> QED BY <1>1, <1>2, <1>3, Zenon

\* Jobs are verified to have an order before some are dropped and others merged:
\* what is applied has the order (OrderVerified), unless, when it is verified, some
\* unit has jobs that go both ways, the installed one included.
THEOREM OrderVerifiedIfOneWay == Spec /\ [](phase = "order" => OneWay) => []OrderVerified
<1>1. Init => AheadInv /\ VerifiedInv
  BY Zenon DEF Init, AheadInv, IsAhead, VerifiedInv, Verified
<1>2. ASSUME Inv, Inv', AheadInv, VerifiedInv, phase = "order" => OneWay, [Next]_vars
      PROVE  AheadInv' /\ VerifiedInv'
  <2>1. AheadInv'
    BY <1>2, NextAhead, Zenon
  <2> SUFFICES ASSUME phase' \in Verified PROVE OneWay' /\ NoCycle'
    BY <2>1, Zenon DEF VerifiedInv
  <2>2. CASE phase \in Verified /\ jobs' \subseteq jobs /\ UNCHANGED world
    BY <1>2, <2>1, <2>2, StaysVerified, Zenon DEF VerifiedInv
  <2>3. CASE phase = "order" /\ transaction_verify_order /\ Keep
    <3>1. UNCHANGED world /\ jobs' \subseteq jobs
      BY <2>3, Zenon DEF transaction_verify_order, Rest, Keep
    <3>2. OneWay /\ NoCycle
      BY <1>2, <2>3, VerifyOrder, Zenon
    <3> QED BY <1>2, <2>1, <3>1, <3>2, StaysVerified, Zenon
  <2>4. CASE UNCHANGED vars
    <3>1. UNCHANGED world /\ jobs' \subseteq jobs /\ phase' = phase
      BY <2>4, Zenon DEF vars
    <3> QED BY <1>2, <2>1, <3>1, StaysVerified, Zenon DEF VerifiedInv
  <2> QED BY <1>2, <2>2, <2>3, <2>4, NextAhead, Zenon
<1>3. VerifiedInv => OrderVerified
  BY Zenon DEF VerifiedInv, Verified, NoCycle, OrderVerified
<1> QED BY <1>1, <1>2, <1>3, InvAlways, PTL DEF Spec

=============================================================================
