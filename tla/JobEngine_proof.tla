--------------------------- MODULE JobEngine_proof --------------------------
(***************************************************************************)
(* Safety of the job engine for any set of units and any dependencies.     *)
(*                                                                         *)
(* First the jobs, their queues and their timers; then the order of jobs:  *)
(* no job is forgotten, that is, a waiting job is queued, held back by a   *)
(* job or a unit state whose end queues it, or about to be queued by a     *)
(* finish frame on the stack; and the same for the collection of device    *)
(* jobs; last, the assertion of job_install.                               *)
(***************************************************************************)
EXTENDS JobEngine, TLAPS

\* The jobs and what refers to them.
JobsOK == /\ job \in [Units -> MergingTypes \cup {"none"}]
          /\ NoDanglingJob /\ TimersArmed

\* The types of everything else.
RestTyped == /\ active \in [Units -> UnitActiveState] /\ nop \subseteq Units
             /\ autoq \in [AutoQueue -> SUBSET Units] /\ limited \subseteq Units
             /\ ratelimited \in BOOLEAN /\ calls \in Seq(Frame)

Inv == JobsOK /\ RestTyped

-----------------------------------------------------------------------------
(* Frames and sequences of frames.                                         *)

\* A call pushes a frame on the stack.
LEMMA PushTyped ==
    ASSUME NEW f \in Frame, NEW s \in Seq(Frame)
    PROVE  /\ <<f>> \o s \in Seq(Frame) /\ <<f>> \o s # <<>>
           /\ Head(<<f>> \o s) = f /\ Tail(<<f>> \o s) = s
OBVIOUS

\* The frame on top says by its op which fields it has.
LEMMA TopTyped ==
    ASSUME calls \in Seq(Frame), calls # <<>>
    PROVE  /\ Top \in Frame /\ Tail(calls) \in Seq(Frame)
           /\ Top.op \in {"finish", "notify"} => Top \in LoopFrame
           /\ Top.op = "perform" => Top \in PerformFrame
           /\ Top.op = "apply" => Top \in ApplyFrame
BY DEF Top, Frame, LoopFrame, PerformFrame, ApplyFrame, ClearFrame

\* The dependencies of a unit are other units.
LEMMA DepTyped == \A u \in Units, a \in Atom : Dep(u, a) \subseteq Units
BY DepAssumption

\* The frame of job_finish_and_invalidate names the job's unit and units it
\* depends on.
LEMMA FinishFrameTyped ==
    ASSUME NEW u \in Units, NEW s \in UnitActiveState, NEW t, NEW result, NEW recursive
    PROVE  /\ FinishFrame(u, t, result, recursive, s) \in LoopFrame
           /\ RestartFrame(u, s) \in LoopFrame
           /\ FinishFrame(u, t, result, recursive, s).op = "finish"
           /\ FinishFrame(u, t, result, recursive, s).unit = u
           /\ RestartFrame(u, s).op = "finish" /\ RestartFrame(u, s).unit = u
<1>1. /\ Dep(u, "PROPAGATE_START_FAILURE") \subseteq Units
      /\ Dep(u, "PROPAGATE_STOP_FAILURE") \subseteq Units
      /\ Dep(u, "PROPAGATE_INACTIVE_START_AS_FAILURE") \subseteq Units
      /\ Dep(u, "OnFailure") \subseteq Units /\ Dep(u, "TriggeredBy") \subseteq Units
  BY DepTyped DEF Atom
<1>2. {"on-failure"} \X Dep(u, "OnFailure") \subseteq AddReason \X Units
  BY <1>1 DEF AddReason
<1> QED BY <1>1, <1>2 DEF FinishFrame, RestartFrame, LoopFrame

\* So does that of unit_notify.
LEMMA NotifyFrameTyped ==
    ASSUME NEW u \in Units, NEW ns \in UnitActiveState
    PROVE  NotifyFrame(u, ns) \in LoopFrame
<1>1. /\ Dep(u, "RETROACTIVE_START_REPLACE") \subseteq Units
      /\ Dep(u, "RETROACTIVE_START_FAIL") \subseteq Units
      /\ Dep(u, "RETROACTIVE_STOP_ON_START") \subseteq Units
      /\ Dep(u, "RETROACTIVE_STOP_ON_STOP") \subseteq Units
      /\ Dep(u, "OnFailure") \subseteq Units /\ Dep(u, "OnSuccess") \subseteq Units
      /\ Dep(u, "TriggeredBy") \subseteq Units
  BY DepTyped DEF Atom
<1>2. NotifyAdds(u, ns) \subseteq AddReason \X Units
  BY <1>1 DEF NotifyAdds, AddReason
<1> QED BY <1>1, <1>2 DEF NotifyFrame, LoopFrame

\* Going on with a loop leaves a frame of the same kind for the same unit.
LEMMA LoopFrameGoesOn ==
    ASSUME NEW f \in LoopFrame, NEW x
    PROVE  /\ [f EXCEPT !.fail = @ \ {x}] \in LoopFrame
           /\ [f EXCEPT !.adds = @ \ {x}] \in LoopFrame
           /\ [f EXCEPT !.trigger = @ \ {x}] \in LoopFrame
BY DEF LoopFrame

\* The same for transaction_apply.
LEMMA ApplyFrameGoesOn ==
    ASSUME NEW f \in ApplyFrame, NEW u \in Units
    PROVE  /\ [f EXCEPT !.flush = @ \ {u}] \in ApplyFrame
           /\ [f EXCEPT !.jobs[u] = "none"] \in ApplyFrame
           /\ [f EXCEPT !.canceled = {u}] \in ApplyFrame
           /\ [f EXCEPT !.jobs[u] = "none", !.canceled = {}] \in ApplyFrame
BY ZenonT(30) DEF ApplyFrame, Jobs

\* A transaction frame is well formed.
LEMMA ApplyTyped ==
    ASSUME NEW tr \in Jobs, NEW u \in Units, NEW mode
    PROVE  Apply(tr, u, mode) \in ApplyFrame
BY DEF Apply, ApplyFrame

-----------------------------------------------------------------------------
(* The calls that change jobs.                                             *)

\* job_finish_and_invalidate frees the job with everything that refers to it,
\* or turns a RESTART into a START and queues it.
LEMMA FinishInv ==
    ASSUME JobsOK, NEW u \in Units, NEW s \in UnitActiveState, NEW result, NEW recursive,
           NEW rest \in Seq(Frame), job_finish_and_invalidate(u, result, recursive, s, rest)
    PROVE  JobsOK' /\ calls' \in Seq(Frame)
<1>1. CASE result = "done" /\ job[u] = "restart"
  <2>1. /\ job' = [job EXCEPT ![u] = "start"] /\ running' = running \ {u}
        /\ runq' = runq \cup {u} /\ dbusq' = dbusq \cup ({u} \cap Devices)
        /\ calls' = <<RestartFrame(u, s)>> \o rest
        /\ UNCHANGED <<irreversible, ignore_order, timer, gcq, tracked>>
    BY <1>1 DEF job_finish_and_invalidate
  <2>2. Installed' = Installed /\ u \in Installed
    BY <1>1, <2>1 DEF Installed, JobsOK
  <2>3. job' \in [Units -> MergingTypes \cup {"none"}]
    BY <2>1 DEF JobsOK, MergingTypes
  <2>4. NoDanglingJob'
    BY <2>1, <2>2 DEF JobsOK, NoDanglingJob
  <2>5. TimersArmed'
    BY <2>1, <2>2 DEF JobsOK, TimersArmed
  <2>6. calls' \in Seq(Frame)
    BY <2>1, FinishFrameTyped, PushTyped DEF Frame
  <2> QED BY <2>3, <2>4, <2>5, <2>6 DEF JobsOK
<1>2. CASE ~ (result = "done" /\ job[u] = "restart")
  <2>1. /\ job' = [job EXCEPT ![u] = "none"] /\ running' = running \ {u}
        /\ irreversible' = irreversible \ {u} /\ ignore_order' = ignore_order \ {u}
        /\ timer' = timer \ {u} /\ runq' = runq \ {u} /\ gcq' = gcq \ {u}
        /\ dbusq' = dbusq \ {u} /\ tracked' = tracked \ {u}
        /\ calls' = <<FinishFrame(u, job[u], result, recursive, s)>> \o rest
    BY <1>2 DEF job_finish_and_invalidate
  <2>2. Installed' = Installed \ {u}
    BY <2>1 DEF Installed, JobsOK
  <2>3. job' \in [Units -> MergingTypes \cup {"none"}]
    BY <2>1 DEF JobsOK
  <2>4. NoDanglingJob'
    BY <2>1, <2>2 DEF JobsOK, NoDanglingJob
  <2>5. TimersArmed'
    BY <2>1, <2>2 DEF JobsOK, TimersArmed
  <2>6. calls' \in Seq(Frame)
    BY <2>1, FinishFrameTyped, PushTyped DEF Frame
  <2> QED BY <2>3, <2>4, <2>5, <2>6 DEF JobsOK
<1> QED BY <1>1, <1>2

\* Leaving the jobs alone leaves them in order.
LEMMA JobsUnchanged ==
    ASSUME JobsOK, UNCHANGED jobVars PROVE JobsOK' /\ Installed' = Installed
BY DEF JobsOK, jobVars, NoDanglingJob, TimersArmed, Installed

\* unit_notify ends the job of the unit or makes it run again.
LEMMA NotifyInv ==
    ASSUME Inv, NEW u \in Units, NEW ns \in UnitActiveState, NEW reload_success,
           NEW rest \in Seq(Frame), unit_notify(u, ns, reload_success, rest)
    PROVE  JobsOK' /\ calls' \in Seq(Frame) /\ active' \in [Units -> UnitActiveState]
<1> DEFINE outcome == JobOutcome(u, ns, reload_success)
           more == <<NotifyFrame(u, ns)>> \o rest
<1>1. more \in Seq(Frame)
  BY NotifyFrameTyped, PushTyped DEF Frame
<1>2. active' = [active EXCEPT ![u] = ns]
  BY DEF unit_notify
<1>3. CASE outcome # "none"
  <2>1. job_finish_and_invalidate(u, outcome, TRUE, ns, more)
    BY <1>3, ZenonT(30) DEF unit_notify
  <2> HIDE DEF outcome, more
  <2> QED BY <1>1, <1>2, <2>1, FinishInv, ZenonT(30) DEF Inv, RestTyped
<1>4. CASE outcome = "none"
  <2>1. /\ runq' = runq \cup ({u} \cap Waiting) /\ calls' = more
        /\ UNCHANGED <<job, running, irreversible, ignore_order, timer, gcq, dbusq, tracked>>
    BY <1>4 DEF unit_notify
  <2>2. Installed' = Installed
    BY <2>1 DEF Installed
  <2>3. JobsOK'
    BY <2>1, <2>2 DEF Inv, JobsOK, NoDanglingJob, TimersArmed, Waiting
  <2> QED BY <1>1, <1>2, <2>1, <2>3 DEF Inv, RestTyped
<1> QED BY <1>3, <1>4

\* manager_add_job ends in a transaction on the stack, or does nothing.
LEMMA TransactionsTyped ==
    ASSUME active \in [Units -> UnitActiveState],
           NEW type \in JobType, NEW u \in Units, NEW mode \in JobMode
    PROVE  Transactions(type, u, mode) \subseteq Jobs
<1>1. job_type_collapse(type, active[u]) \in TransactionTypes
  BY DEF job_type_collapse, JobType, TransactionTypes, MergingTypes
<1> QED BY <1>1, RequestsAssumption DEF Transactions

\* What manager_add_job leaves on the stack is a stack.
LEMMA AddJobTyped ==
    ASSUME active \in [Units -> UnitActiveState], NEW type \in JobType, NEW u \in Units,
           NEW mode \in JobMode, NEW rest \in Seq(Frame), manager_add_job(type, u, mode, rest)
    PROVE  calls' \in Seq(Frame)
<1>1. CASE calls' = rest
  BY <1>1
<1>2. ASSUME NEW tr \in Transactions(type, u, mode), calls' = <<Apply(tr, u, mode)>> \o rest
      PROVE  calls' \in Seq(Frame)
  BY <1>2, TransactionsTyped, ApplyTyped, PushTyped DEF Frame
<1> QED BY <1>1, <1>2, ZenonT(30) DEF manager_add_job

\* Merging two mergeable jobs gives a job that can be installed, and one that
\* still stops the unit first if the installed one did.
LEMMA MergeTyped ==
    ASSUME NEW x \in MergingTypes, NEW y \in MergingTypes, NEW s \in UnitActiveState,
           job_type_is_mergeable(x, y)
    PROVE  /\ job_type_merge_and_collapse(x, y, s) \in MergingTypes
           /\ Downwards(x) => Downwards(job_type_merge_and_collapse(x, y, s))
           /\ job_type_is_superset(x, y) => job_type_merge_and_collapse(x, y, s) = x
BY DEF MergingTypes, job_type_is_mergeable, job_type_merge_and_collapse, job_type_lookup_merge,
       job_type_collapse, Downwards, job_type_is_superset

\* What the queues take are units.
LEMMA SubmitTyped ==
    ASSUME autoq \in [AutoQueue -> SUBSET Units], NEW S \in [AutoQueue -> SUBSET Units], Submit(S)
    PROVE  autoq' \in [AutoQueue -> SUBSET Units]
BY DEF Submit

-----------------------------------------------------------------------------
(* Handlers in progress.                                                   *)

\* job_fail_dependencies ends a job or goes on to the next unit.
LEMMA FailDependencyInv == Inv /\ FailDependency => Inv'
<1> SUFFICES ASSUME Inv, FailDependency PROVE Inv'
  OBVIOUS
<1>1. Top \in LoopFrame /\ Tail(calls) \in Seq(Frame)
  BY TopTyped DEF Inv, RestTyped, FailDependency, InHandler
<1>2. PICK o \in Top.fail :
        LET rest == <<[Top EXCEPT !.fail = @ \ {o}]>> \o Tail(calls)
        IN IF job[o] \in {"start", "verify"}
           THEN job_finish_and_invalidate(o, "dependency", TRUE, active[o], rest)
           ELSE calls' = rest /\ UNCHANGED jobVars
  BY ZenonT(30) DEF FailDependency
<1> DEFINE rest == <<[Top EXCEPT !.fail = @ \ {o}]>> \o Tail(calls)
<1>3. o \in Units /\ rest \in Seq(Frame)
  BY <1>1, LoopFrameGoesOn, PushTyped, ZenonT(30) DEF Frame, LoopFrame
<1>4. JobsOK' /\ calls' \in Seq(Frame)
  <2>1. CASE job[o] \in {"start", "verify"}
    <3>1. job_finish_and_invalidate(o, "dependency", TRUE, active[o], rest)
      BY <1>2, <2>1, ZenonT(30)
    <3>2. active[o] \in UnitActiveState
      BY <1>3 DEF Inv, RestTyped
    <3> HIDE DEF rest
    <3> QED BY <1>3, <3>1, <3>2, FinishInv, ZenonT(30) DEF Inv
  <2>2. CASE job[o] \notin {"start", "verify"}
    BY <1>2, <1>3, <2>2, JobsUnchanged, ZenonT(30) DEF Inv
  <2> QED BY <2>1, <2>2
<1> QED BY <1>4 DEF FailDependency, Inv, RestTyped, envVars

\* Retroactive, OnFailure= and OnSuccess= jobs leave installed jobs alone until
\* their transaction is applied.
LEMMA AddDependencyJobInv == Inv /\ AddDependencyJob => Inv'
<1> SUFFICES ASSUME Inv, AddDependencyJob PROVE Inv'
  OBVIOUS
<1>1. Top \in LoopFrame /\ Tail(calls) \in Seq(Frame)
  BY TopTyped DEF Inv, RestTyped, AddDependencyJob, InHandler
<1>2. PICK a \in Top.adds :
        LET how == a[1]
            o == a[2]
            rest == <<[Top EXCEPT !.adds = @ \ {a}]>> \o Tail(calls)
        IN \/ calls' = rest
           \/ manager_add_job(IF how = "stop" THEN "stop" ELSE "start", o,
                              IF how \in {"start-fail", "on-success"} THEN "fail" ELSE "replace",
                              rest)
  BY ZenonT(30) DEF AddDependencyJob
<1> DEFINE rest == <<[Top EXCEPT !.adds = @ \ {a}]>> \o Tail(calls)
           type == IF a[1] = "stop" THEN "stop" ELSE "start"
           mode == IF a[1] \in {"start-fail", "on-success"} THEN "fail" ELSE "replace"
<1>3. a[2] \in Units /\ rest \in Seq(Frame)
  BY <1>1, LoopFrameGoesOn, PushTyped, ZenonT(30) DEF Frame, LoopFrame
<1>4. type \in JobType /\ mode \in JobMode
  BY DEF JobType, TransactionTypes, MergingTypes, JobMode
<1>5. calls' = rest \/ manager_add_job(type, a[2], mode, rest)
  BY <1>2, ZenonT(30)
<1> HIDE DEF rest, type, mode
<1>6. calls' \in Seq(Frame)
  BY <1>3, <1>4, <1>5, AddJobTyped DEF Inv, RestTyped
<1>7. JobsOK'
  BY JobsUnchanged DEF Inv, AddDependencyJob
<1> QED BY <1>6, <1>7 DEF AddDependencyJob, Inv, RestTyped, envVars

\* trigger_notify changes a unit as unit_notify does, or nothing.
LEMMA TriggerNotifyInv == Inv /\ TriggerNotify => Inv'
<1> SUFFICES ASSUME Inv, TriggerNotify PROVE Inv'
  OBVIOUS
<1>1. Top \in LoopFrame /\ Tail(calls) \in Seq(Frame)
  BY TopTyped DEF Inv, RestTyped, TriggerNotify, InHandler
<1>2. PICK o \in Top.trigger :
        LET rest == <<[Top EXCEPT !.trigger = @ \ {o}]>> \o Tail(calls)
        IN \/ calls' = rest /\ UNCHANGED <<active, jobVars>>
           \/ \E ns \in TriggerStates : unit_notify(o, ns, TRUE, rest)
  BY ZenonT(30) DEF TriggerNotify
<1> DEFINE rest == <<[Top EXCEPT !.trigger = @ \ {o}]>> \o Tail(calls)
<1>3. o \in Units /\ rest \in Seq(Frame)
  BY <1>1, LoopFrameGoesOn, PushTyped, ZenonT(30) DEF Frame, LoopFrame
<1>4. \/ calls' = rest /\ UNCHANGED <<active, jobVars>>
      \/ \E ns \in TriggerStates : unit_notify(o, ns, TRUE, rest)
  BY <1>2, ZenonT(30)
<1> HIDE DEF rest
<1>5. JobsOK' /\ calls' \in Seq(Frame) /\ active' \in [Units -> UnitActiveState]
  <2>1. CASE calls' = rest /\ UNCHANGED <<active, jobVars>>
    BY <1>3, <2>1, JobsUnchanged DEF Inv, RestTyped
  <2>2. ASSUME NEW ns \in TriggerStates, unit_notify(o, ns, TRUE, rest)
        PROVE  JobsOK' /\ calls' \in Seq(Frame) /\ active' \in [Units -> UnitActiveState]
    <3>1. ns \in UnitActiveState
      BY DEF TriggerStates, UnitActiveState
    <3> QED BY <1>3, <2>2, <3>1, NotifyInv, ZenonT(30)
  <2> QED BY <1>4, <2>1, <2>2, ZenonT(30)
<1> QED BY <1>5 DEF TriggerNotify, Inv, RestTyped, envVars

\* The "finish" label queues installed jobs only, and device jobs for the gc.
LEMMA FinishEndInv == Inv /\ FinishEnd => Inv'
<1> SUFFICES ASSUME Inv, FinishEnd PROVE Inv'
  OBVIOUS
<1>1. Top \in LoopFrame /\ Tail(calls) \in Seq(Frame)
  BY TopTyped DEF Inv, RestTyped, FinishEnd, InHandler
<1> DEFINE u == Top.unit
           around == (Dep(u, "After") \cup Dep(u, "Before")) \cap Installed
<1>2. /\ runq' = runq \cup around
      /\ gcq' = gcq \cup {v \in around : job_may_gc(v, dbusq, tracked)}
      /\ Submit([q \in AutoQueue |-> {u}])
      /\ calls' = Tail(calls)
      /\ UNCHANGED <<active, job, running, irreversible, ignore_order, timer, dbusq,
                     tracked, nop, envVars>>
  BY DEF FinishEnd
<1>3. u \in Units
  BY <1>1 DEF LoopFrame
<1>4. Installed' = Installed
  BY <1>2 DEF Installed
<1>5. {v \in around : job_may_gc(v, dbusq, tracked)} \subseteq Installed \cap Devices
  BY DEF job_may_gc
<1> HIDE DEF u
<1>6. JobsOK'
  BY <1>2, <1>4, <1>5 DEF Inv, JobsOK, NoDanglingJob, TimersArmed
<1>7. autoq' \in [AutoQueue -> SUBSET Units]
  BY <1>2, <1>3, SubmitTyped DEF Inv, RestTyped
<1> QED BY <1>1, <1>2, <1>6, <1>7 DEF Inv, RestTyped, envVars

\* The end of unit_notify submits units to the automatic queues.
LEMMA NotifyEndInv == Inv /\ NotifyEnd => Inv'
<1> SUFFICES ASSUME Inv, NotifyEnd PROVE Inv'
  OBVIOUS
<1>1. Top \in LoopFrame /\ Tail(calls) \in Seq(Frame)
  BY TopTyped DEF Inv, RestTyped, NotifyEnd, InHandler
<1> DEFINE u == Top.unit
           S == [q \in AutoQueue |->
                  IF IsInactiveOrFailed(Top.ns)
                  THEN IF q = "unneeded" THEN Dep(u, "ADD_STOP_WHEN_UNNEEDED_QUEUE")
                       ELSE IF q = "bound" THEN Dep(u, "ADD_CANNOT_BE_ACTIVE_WITHOUT_QUEUE") ELSE {u}
                  ELSE IF IsActiveOrReloading(Top.ns)
                  THEN IF q = "upheld" THEN Dep(u, "ADD_START_WHEN_UPHELD_QUEUE") ELSE {u}
                  ELSE {}]
<1>2. Submit(S) /\ calls' = Tail(calls) /\ UNCHANGED <<active, jobVars, nop, envVars>>
  BY DEF NotifyEnd
<1>3. u \in Units
  BY <1>1 DEF LoopFrame
<1>4. /\ Dep(u, "ADD_STOP_WHEN_UNNEEDED_QUEUE") \subseteq Units
      /\ Dep(u, "ADD_CANNOT_BE_ACTIVE_WITHOUT_QUEUE") \subseteq Units
      /\ Dep(u, "ADD_START_WHEN_UPHELD_QUEUE") \subseteq Units
  BY <1>3, DepTyped DEF Atom
<1>5. S \in [AutoQueue -> SUBSET Units]
  BY <1>3, <1>4
<1> HIDE DEF S
<1>6. autoq' \in [AutoQueue -> SUBSET Units]
  BY <1>2, <1>5, SubmitTyped DEF Inv, RestTyped
<1>7. JobsOK'
  BY <1>2, JobsUnchanged DEF Inv
<1> QED BY <1>1, <1>2, <1>6, <1>7 DEF Inv, RestTyped, envVars

\* A finished NOP job leaves the jobs alone.
LEMMA FinishNopTyped ==
    ASSUME Inv, NEW u \in Units, NEW rest \in Seq(Frame), FinishNop(u, rest)
    PROVE  nop' \subseteq Units /\ calls' \in Seq(Frame)
<1>1. active[u] \in UnitActiveState
  BY DEF Inv, RestTyped
<1> QED BY <1>1, FinishFrameTyped, PushTyped, ZenonT(30) DEF FinishNop, Frame, Inv, RestTyped

\* transaction_apply cancels jobs one by one when isolating.
LEMMA ApplyFlushInv == Inv /\ ApplyFlush => Inv'
<1> SUFFICES ASSUME Inv, ApplyFlush PROVE Inv'
  OBVIOUS
<1>1. Top \in ApplyFrame /\ Tail(calls) \in Seq(Frame) /\ calls \in Seq(Frame)
  BY TopTyped DEF Inv, RestTyped, ApplyFlush, InHandler
<1>2. PICK u \in Top.flush :
        IF job[u] # "none"
        THEN /\ job_finish_and_invalidate(u, "canceled", FALSE, active[u], calls)
             /\ UNCHANGED nop
        ELSE IF u \in nop THEN FinishNop(u, calls) /\ UNCHANGED jobVars
        ELSE /\ calls' = <<[Top EXCEPT !.flush = @ \ {u}]>> \o Tail(calls)
             /\ UNCHANGED <<jobVars, nop>>
  BY ZenonT(30) DEF ApplyFlush
<1>3. u \in Units /\ active[u] \in UnitActiveState
  BY <1>1 DEF ApplyFrame, Inv, RestTyped
<1>4. JobsOK' /\ nop' \subseteq Units /\ calls' \in Seq(Frame)
  <2>1. CASE job[u] # "none"
    BY <1>1, <1>2, <1>3, <2>1, FinishInv, ZenonT(30) DEF Inv, RestTyped
  <2>2. CASE job[u] = "none" /\ u \in nop
    BY <1>1, <1>2, <1>3, <2>2, FinishNopTyped, JobsUnchanged DEF Inv
  <2>3. CASE job[u] = "none" /\ u \notin nop
    <3>1. /\ calls' = <<[Top EXCEPT !.flush = @ \ {u}]>> \o Tail(calls)
          /\ UNCHANGED <<jobVars, nop>>
      BY <1>2, <2>3, ZenonT(30)
    <3>2. calls' \in Seq(Frame)
      BY <1>1, <1>3, <3>1, ApplyFrameGoesOn, PushTyped, ZenonT(30) DEF Frame
    <3> QED BY <3>1, <3>2, JobsUnchanged DEF Inv, RestTyped
  <2> QED BY <2>1, <2>2, <2>3
<1> QED BY <1>4 DEF ApplyFlush, Inv, RestTyped, envVars

\* What job_install does to the job of u: a new one, or one merged into it,
\* which stays RUNNING only if its type stays the same.
JobInstalled(u) ==
    /\ job' \in [Units -> MergingTypes \cup {"none"}]
    /\ \A v \in Units \ {u} : job'[v] = job[v]
    /\ job'[u] # "none"
    /\ job[u] # "none" /\ Downwards(job[u]) => Downwards(job'[u])
    /\ running' \subseteq running /\ running \ {u} \subseteq running'
    /\ u \in running' => job'[u] = job[u]
    /\ gcq \subseteq gcq' /\ gcq' \subseteq gcq \cup ({u} \cap Devices)
    /\ irreversible' \subseteq irreversible \cup {u}
    /\ ignore_order \subseteq ignore_order' /\ ignore_order' \subseteq ignore_order \cup {u}
    /\ runq' = runq \cup {u} /\ dbusq' = dbusq \cup ({u} \cap Devices)
    /\ timer' = timer \cup ({u} \cap JobTimeout)
    /\ \E f \in ApplyFrame : f.op = "apply" /\ calls' = <<f>> \o Tail(calls)
    /\ UNCHANGED <<tracked, nop>>

\* The three things the last loop of transaction_apply does with a job.
LEMMA ApplyJobCases ==
    ASSUME Inv, ApplyJob
    PROVE  \E u \in Units :
             \/ /\ nop' = nop \cup {u} /\ UNCHANGED jobVars
                /\ \E f \in ApplyFrame : f.op = "apply" /\ calls' = <<f>> \o Tail(calls)
             \/ \E f \in ApplyFrame :
                  /\ f.op = "apply" /\ UNCHANGED nop
                  /\ job_finish_and_invalidate(u, "canceled", FALSE, active[u], <<f>> \o Tail(calls))
             \/ JobInstalled(u)
<1>1. Top \in ApplyFrame /\ Tail(calls) \in Seq(Frame)
  BY TopTyped DEF Inv, RestTyped, ApplyJob, InHandler
<1>2. PICK u \in Units :
         LET t == Top.jobs[u]
             merged == job_type_merge_and_collapse(job[u], t, active[u])
             late == \/ u \notin running
                     \/ /\ u \notin Top.refuse_late_merge
                        /\ job_type_allows_late_merge(t) /\ job_type_is_superset(job[u], t)
             free == {u} \cap Top.ignore_order
         IN /\ t # "none"
            /\ Top.canceled \subseteq {u}
            /\ IF t = "nop"
               THEN /\ nop' = nop \cup {u}
                    /\ calls' = <<[Top EXCEPT !.jobs[u] = "none"]>> \o Tail(calls)
                    /\ UNCHANGED jobVars
               ELSE IF job[u] # "none" /\ job_type_is_conflicting(job[u], t)
               THEN /\ u \notin Top.canceled
                    /\ job_finish_and_invalidate(u, "canceled", FALSE, active[u],
                           <<[Top EXCEPT !.canceled = {u}]>> \o Tail(calls))
                    /\ UNCHANGED nop
               ELSE /\ u \in Top.canceled => job[u] = "none"
                    /\ IF job[u] = "none"
                       THEN /\ job' = [job EXCEPT ![u] = t]
                            /\ running' = running
                            /\ gcq' = gcq \cup {v \in {u} \cap Devices : HoldsUpNobody(v, t, free # {})}
                       ELSE /\ job' = [job EXCEPT ![u] = merged]
                            /\ running' = IF late THEN running ELSE running \ {u}
                            /\ gcq' = gcq
                    /\ irreversible' = irreversible \cup ({u} \cap Top.irreversible)
                    /\ ignore_order' = ignore_order \cup free
                    /\ runq' = runq \cup {u}
                    /\ dbusq' = dbusq \cup ({u} \cap Devices)
                    /\ timer' = timer \cup ({u} \cap JobTimeout)
                    /\ calls' = <<[Top EXCEPT !.jobs[u] = "none", !.canceled = {}]>> \o Tail(calls)
                    /\ UNCHANGED <<tracked, nop>>
  BY ZenonT(30) DEF ApplyJob
<1> DEFINE t == Top.jobs[u]
           merged == job_type_merge_and_collapse(job[u], t, active[u])
<1>3. /\ [Top EXCEPT !.jobs[u] = "none"] \in ApplyFrame
      /\ [Top EXCEPT !.canceled = {u}] \in ApplyFrame
      /\ [Top EXCEPT !.jobs[u] = "none", !.canceled = {}] \in ApplyFrame
      /\ \A f \in ApplyFrame : f.op = "apply"
  BY <1>1, ApplyFrameGoesOn, ZenonT(30) DEF ApplyFrame
<1>4. t \in TransactionTypes \cup {"none"}
  BY <1>1 DEF ApplyFrame, Jobs
<1>5. CASE t = "nop"
  BY <1>2, <1>3, <1>5, ZenonT(30)
<1>6. CASE t # "nop" /\ job[u] # "none" /\ job_type_is_conflicting(job[u], t)
  BY <1>2, <1>3, <1>6, ZenonT(30)
<1>7. CASE t # "nop" /\ job[u] = "none"
  <2>1. t \in MergingTypes
    BY <1>2, <1>4, <1>7 DEF TransactionTypes
  <2>2. u \notin running
    BY <1>7, SMTT(30) DEF Inv, JobsOK, NoDanglingJob, Installed
  <2>3. /\ job' = [job EXCEPT ![u] = t] /\ running' = running
        /\ gcq' = gcq \cup {v \in {u} \cap Devices : HoldsUpNobody(v, t, {u} \cap Top.ignore_order # {})}
        /\ irreversible' = irreversible \cup ({u} \cap Top.irreversible)
        /\ ignore_order' = ignore_order \cup ({u} \cap Top.ignore_order)
        /\ runq' = runq \cup {u} /\ dbusq' = dbusq \cup ({u} \cap Devices)
        /\ timer' = timer \cup ({u} \cap JobTimeout)
        /\ calls' = <<[Top EXCEPT !.jobs[u] = "none", !.canceled = {}]>> \o Tail(calls)
        /\ UNCHANGED <<tracked, nop>>
    BY <1>2, <1>7
  <2> HIDE DEF t
  <2>4. /\ job' \in [Units -> MergingTypes \cup {"none"}]
        /\ \A v \in Units \ {u} : job'[v] = job[v]
        /\ job'[u] # "none"
    BY <2>1, <2>3 DEF Inv, JobsOK, MergingTypes
  <2>5. JobInstalled(u)
    BY <1>3, <1>7, <2>2, <2>3, <2>4, ZenonT(30) DEF JobInstalled
  <2> QED BY <2>5, ZenonT(30)
<1>8. CASE t # "nop" /\ job[u] # "none" /\ ~ job_type_is_conflicting(job[u], t)
  <2>1. t \in MergingTypes /\ job[u] \in MergingTypes /\ active[u] \in UnitActiveState
    BY <1>2, <1>4, <1>8, SMTT(30) DEF TransactionTypes, Inv, JobsOK, RestTyped
  <2>2. job_type_is_mergeable(job[u], t)
    BY <1>8, <2>1, SMTT(30) DEF job_type_is_conflicting, MergingTypes
  <2>3. /\ merged \in MergingTypes /\ merged # "none"
        /\ Downwards(job[u]) => Downwards(merged)
        /\ job_type_is_superset(job[u], t) => merged = job[u]
    BY <2>1, <2>2, MergeTyped, SMTT(30) DEF MergingTypes
  <2>4. /\ job' = [job EXCEPT ![u] = merged]
        /\ running' = IF \/ u \notin running
                         \/ /\ u \notin Top.refuse_late_merge
                            /\ job_type_allows_late_merge(t) /\ job_type_is_superset(job[u], t)
                      THEN running ELSE running \ {u}
        /\ gcq' = gcq
        /\ irreversible' = irreversible \cup ({u} \cap Top.irreversible)
        /\ ignore_order' = ignore_order \cup ({u} \cap Top.ignore_order)
        /\ runq' = runq \cup {u} /\ dbusq' = dbusq \cup ({u} \cap Devices)
        /\ timer' = timer \cup ({u} \cap JobTimeout)
        /\ calls' = <<[Top EXCEPT !.jobs[u] = "none", !.canceled = {}]>> \o Tail(calls)
        /\ UNCHANGED <<tracked, nop>>
    BY <1>2, <1>8
  <2> HIDE DEF t, merged
  <2>5. /\ job' \in [Units -> MergingTypes \cup {"none"}]
        /\ \A v \in Units \ {u} : job'[v] = job[v]
        /\ job'[u] = merged
    BY <2>3, <2>4 DEF Inv, JobsOK
  <2>6. /\ running' \subseteq running /\ running \ {u} \subseteq running'
        /\ u \in running' => job'[u] = job[u]
    BY <2>3, <2>4, <2>5
  <2>7. JobInstalled(u)
    BY <1>3, <2>3, <2>4, <2>5, <2>6, ZenonT(30) DEF JobInstalled
  <2> QED BY <2>7, ZenonT(30)
<1> QED BY <1>5, <1>6, <1>7, <1>8, ZenonT(30)

\* job_install keeps the flags, queues and timers of the merged jobs in order.
LEMMA ApplyJobInv == Inv /\ ApplyJob => Inv'
<1> SUFFICES ASSUME Inv, ApplyJob PROVE Inv'
  OBVIOUS
<1>1. Tail(calls) \in Seq(Frame)
  BY TopTyped DEF Inv, RestTyped, ApplyJob, InHandler
<1>2. \A f \in ApplyFrame : <<f>> \o Tail(calls) \in Seq(Frame)
  BY <1>1, PushTyped DEF Frame
<1>3. PICK u \in Units :
         \/ /\ nop' = nop \cup {u} /\ UNCHANGED jobVars
            /\ \E f \in ApplyFrame : f.op = "apply" /\ calls' = <<f>> \o Tail(calls)
         \/ \E f \in ApplyFrame :
              /\ f.op = "apply" /\ UNCHANGED nop
              /\ job_finish_and_invalidate(u, "canceled", FALSE, active[u], <<f>> \o Tail(calls))
         \/ JobInstalled(u)
  BY ApplyJobCases, ZenonT(30)
<1>4. JobsOK' /\ nop' \subseteq Units /\ calls' \in Seq(Frame)
  <2>1. CASE /\ nop' = nop \cup {u} /\ UNCHANGED jobVars
             /\ \E f \in ApplyFrame : f.op = "apply" /\ calls' = <<f>> \o Tail(calls)
    BY <1>2, <2>1, JobsUnchanged DEF Inv, RestTyped
  <2>2. ASSUME NEW f \in ApplyFrame, UNCHANGED nop,
               job_finish_and_invalidate(u, "canceled", FALSE, active[u], <<f>> \o Tail(calls))
        PROVE  JobsOK' /\ nop' \subseteq Units /\ calls' \in Seq(Frame)
    BY <1>2, <2>2, FinishInv, ZenonT(30) DEF Inv, RestTyped
  <2>3. CASE JobInstalled(u)
    <3>1. Installed' = Installed \cup {u}
      BY <2>3 DEF JobInstalled, Installed, Inv, JobsOK
    <3>2. NoDanglingJob'
      BY <2>3, <3>1 DEF JobInstalled, Inv, JobsOK, NoDanglingJob
    <3>3. TimersArmed'
      <4> SUFFICES ASSUME NEW v \in Installed',
                          v \in JobTimeout \/ (v \in running' /\ v \in JobRunningTimeout)
                   PROVE  v \in timer'
        BY SMTT(30) DEF TimersArmed
      <4>1. CASE v \in JobTimeout /\ v = u
        BY <2>3, <4>1, SMTT(30) DEF JobInstalled
      <4>2. CASE v \in running
        BY <2>3, <4>2, SMTT(30) DEF JobInstalled, Inv, JobsOK, NoDanglingJob, TimersArmed
      <4>3. CASE v \in Installed /\ v \in JobTimeout
        BY <2>3, <4>3 DEF JobInstalled, Inv, JobsOK, TimersArmed
      <4> QED BY <2>3, <3>1, <4>1, <4>2, <4>3 DEF JobInstalled
    <3> QED BY <1>2, <2>3, <3>2, <3>3, SMTT(30) DEF JobInstalled, JobsOK, Inv, RestTyped
  <2> QED BY <1>3, <2>1, <2>2, <2>3, ZenonT(30)
<1> QED BY <1>4, SMTT(30) DEF ApplyJob, Inv, RestTyped, envVars

\* manager_clear_jobs cancels jobs one by one.
LEMMA ClearStepInv == Inv /\ ClearStep => Inv'
<1> SUFFICES ASSUME Inv, ClearStep PROVE Inv'
  OBVIOUS
<1>1. Tail(calls) \in Seq(Frame) /\ calls \in Seq(Frame)
  BY TopTyped DEF Inv, RestTyped, ClearStep, InHandler
<1>2. JobsOK' /\ nop' \subseteq Units /\ calls' \in Seq(Frame)
  <2>1. ASSUME NEW u \in Installed, UNCHANGED nop,
               job_finish_and_invalidate(u, "canceled", FALSE, active[u], calls)
        PROVE  JobsOK' /\ nop' \subseteq Units /\ calls' \in Seq(Frame)
    <3>1. u \in Units /\ active[u] \in UnitActiveState
      BY DEF Installed, Inv, RestTyped
    <3> QED BY <1>1, <2>1, <3>1, FinishInv, ZenonT(30) DEF Inv, RestTyped
  <2>2. ASSUME NEW u \in nop, FinishNop(u, calls), UNCHANGED jobVars
        PROVE  JobsOK' /\ nop' \subseteq Units /\ calls' \in Seq(Frame)
    <3>1. u \in Units
      BY DEF Inv, RestTyped
    <3> QED BY <1>1, <2>2, <3>1, FinishNopTyped, JobsUnchanged, SMTT(30) DEF Inv
  <2>3. CASE calls' = Tail(calls) /\ UNCHANGED <<jobVars, nop>>
    BY <1>1, <2>3, JobsUnchanged, SMTT(30) DEF Inv, RestTyped
  <2> QED BY <2>1, <2>2, <2>3, ZenonT(30) DEF ClearStep
<1> QED BY <1>2 DEF ClearStep, Inv, RestTyped, envVars

\* job_run_and_invalidate ends the job, has it wait, or starts a unit change.
LEMMA PerformInv == Inv /\ Perform => Inv'
<1> SUFFICES ASSUME Inv, Perform PROVE Inv'
  OBVIOUS
<1> DEFINE u == Top.unit
           rest == Tail(calls)
<1>1. Top \in PerformFrame /\ rest \in Seq(Frame)
  BY TopTyped DEF Inv, RestTyped, Perform, InHandler
<1>2. u \in Units /\ active[u] \in UnitActiveState
  BY <1>1 DEF PerformFrame, Inv, RestTyped
<1>3. \/ /\ running' = running \ {u} /\ calls' = rest
         /\ UNCHANGED <<active, job, irreversible, ignore_order, timer, runq, gcq, dbusq, tracked>>
      \/ calls' = rest /\ UNCHANGED <<active, jobVars>>
      \/ \E r \in ImmediateResults(u) :
             job_finish_and_invalidate(u, r, TRUE, active[u], rest) /\ UNCHANGED active
      \/ \E ns \in MethodStates(u), reload_success \in BOOLEAN :
             unit_notify(u, ns, reload_success, rest)
  BY ZenonT(30) DEF Perform
<1> HIDE DEF u, rest
<1>4. JobsOK' /\ calls' \in Seq(Frame) /\ active' \in [Units -> UnitActiveState]
  <2>1. CASE /\ running' = running \ {u} /\ calls' = rest
             /\ UNCHANGED <<active, job, irreversible, ignore_order, timer, runq, gcq, dbusq, tracked>>
    BY <1>1, <2>1 DEF Inv, JobsOK, RestTyped, NoDanglingJob, TimersArmed, Installed
  <2>2. CASE calls' = rest /\ UNCHANGED <<active, jobVars>>
    BY <1>1, <2>2, JobsUnchanged DEF Inv, RestTyped
  <2>3. ASSUME NEW r \in ImmediateResults(u), UNCHANGED active,
               job_finish_and_invalidate(u, r, TRUE, active[u], rest)
        PROVE  JobsOK' /\ calls' \in Seq(Frame) /\ active' \in [Units -> UnitActiveState]
    BY <1>1, <1>2, <2>3, FinishInv, ZenonT(30) DEF Inv, RestTyped
  <2>4. ASSUME NEW ns \in MethodStates(u), NEW reload_success \in BOOLEAN,
               unit_notify(u, ns, reload_success, rest)
        PROVE  JobsOK' /\ calls' \in Seq(Frame) /\ active' \in [Units -> UnitActiveState]
    <3>1. ns \in UnitActiveState
      BY SetsAssumption DEF MethodStates, MethodTargets
    <3> QED BY <1>1, <1>2, <2>4, <3>1, NotifyInv
  <2> QED BY <1>3, <2>1, <2>2, <2>3, <2>4, ZenonT(30)
<1> QED BY <1>4, SMTT(30) DEF Perform, Inv, RestTyped, envVars

\* The steps of handlers keep the invariant.
LEMMA HandlerStepInv == Inv /\ HandlerStep => Inv'
<1>1. Inv /\ ApplyEnd => Inv'
  <2> SUFFICES ASSUME Inv, ApplyEnd PROVE Inv'
    OBVIOUS
  <2>1. Tail(calls) \in Seq(Frame)
    BY TopTyped DEF Inv, RestTyped, ApplyEnd, InHandler
  <2>2. JobsOK'
    BY JobsUnchanged DEF Inv, ApplyEnd
  <2> QED BY <2>1, <2>2 DEF ApplyEnd, Inv, RestTyped, envVars
<1> QED BY <1>1, SMTT(30), FailDependencyInv, AddDependencyJobInv, TriggerNotifyInv, FinishEndInv,
           NotifyEndInv, ApplyFlushInv, ApplyJobInv, ClearStepInv, PerformInv DEF HandlerStep

-----------------------------------------------------------------------------
(* Events.                                                                 *)

\* A request puts a transaction on the stack.
LEMMA RequestInv == ASSUME Inv, NEW r \in Requests, Request(r) PROVE Inv'
<1>1. r.type \in JobType /\ r.unit \in Units /\ r.mode \in JobMode
  BY RequestsAssumption
<1>2. PICK tr \in Transactions(r.type, r.unit, r.mode) : calls' = <<Apply(tr, r.unit, r.mode)>>
  BY DEF Request
<1>3. Apply(tr, r.unit, r.mode) \in Frame
  BY <1>1, <1>2, TransactionsTyped, ApplyTyped DEF Frame, Inv, RestTyped
<1>4. calls' \in Seq(Frame)
  BY <1>2, <1>3
<1>5. JobsOK'
  BY JobsUnchanged DEF Inv, Request
<1> QED BY <1>4, <1>5 DEF Request, Inv, RestTyped, envVars

\* A job that is run gets its running timeout before it is RUNNING.
LEMMA RunJobInv == ASSUME Inv, NEW u \in Units, RunJob(u) PROVE Inv'
<1>1. Installed' = Installed
  BY DEF RunJob, Installed
<1>2. CASE u \in Waiting /\ job_is_runnable(u)
  <2>1. /\ runq' = runq \ {u} /\ timer' = timer \cup ({u} \cap JobRunningTimeout)
        /\ running' = running \cup {u} /\ dbusq' = dbusq \cup ({u} \cap Devices)
        /\ calls' = <<[op |-> "perform", unit |-> u]>>
        /\ UNCHANGED <<active, job, irreversible, ignore_order, gcq, tracked, nop, autoq, envVars>>
    BY <1>2 DEF RunJob
  <2>2. JobsOK'
    BY <1>1, <1>2, <2>1 DEF Inv, JobsOK, NoDanglingJob, TimersArmed, Waiting
  <2>3. [op |-> "perform", unit |-> u] \in Frame
    BY DEF Frame, PerformFrame
  <2>4. calls' \in Seq(Frame)
    BY <2>1, <2>3
  <2> QED BY <2>1, <2>2, <2>4 DEF Inv, RestTyped, envVars
<1>3. CASE ~ (u \in Waiting /\ job_is_runnable(u))
  <2>1. /\ runq' = runq \ {u}
        /\ UNCHANGED <<timer, running, dbusq, calls, active, job, irreversible, ignore_order,
                       gcq, tracked, nop, autoq, envVars>>
    BY <1>3 DEF RunJob
  <2> QED BY <1>1, <2>1 DEF Inv, JobsOK, RestTyped, NoDanglingJob, TimersArmed, envVars
<1> QED BY <1>2, <1>3

\* A NOP job finishes at once.
LEMMA RunNopInv == ASSUME Inv, NEW u \in Units, RunNop(u) PROVE Inv'
<1>1. FinishNop(u, <<>>) /\ UNCHANGED <<active, jobVars, autoq, envVars>>
  BY DEF RunNop
<1>2. <<>> \in Seq(Frame)
  OBVIOUS
<1>3. nop' \subseteq Units /\ calls' \in Seq(Frame)
  BY <1>1, <1>2, FinishNopTyped, ZenonT(30)
<1>4. JobsOK'
  BY <1>1, JobsUnchanged DEF Inv
<1> QED BY <1>1, <1>3, <1>4 DEF Inv, RestTyped, envVars

\* A unit changes state on its own.
LEMMA UnitChangeInv == ASSUME Inv, NEW u \in Units, UnitChange(u) PROVE Inv'
<1>1. PICK ns \in States, reload_success \in BOOLEAN : unit_notify(u, ns, reload_success, <<>>)
  BY DEF UnitChange
<1>2. ns \in UnitActiveState /\ <<>> \in Seq(Frame)
  BY SetsAssumption
<1>3. JobsOK' /\ calls' \in Seq(Frame) /\ active' \in [Units -> UnitActiveState]
  BY <1>1, <1>2, NotifyInv, ZenonT(30)
<1> QED BY <1>3 DEF UnitChange, Inv, RestTyped, envVars

\* Timeouts, clients and the gc end jobs.
LEMMA EndJobInv ==
    ASSUME Inv, NEW u \in Units, NEW result, NEW recursive, EndJob(u, result, recursive)
    PROVE  Inv'
<1>1. active[u] \in UnitActiveState /\ <<>> \in Seq(Frame)
  BY DEF Inv, RestTyped
<1>2. JobsOK' /\ calls' \in Seq(Frame)
  BY <1>1, FinishInv, ZenonT(30) DEF EndJob, Inv
<1> QED BY <1>2 DEF EndJob, Inv, RestTyped, envVars

\* A job in the gc queue is collected or taken out of the queue.
LEMMA GcJobInv == ASSUME Inv, NEW u \in Units, GcJob(u) PROVE Inv'
<1>1. CASE job_may_gc(u, dbusq, tracked)
  BY <1>1, EndJobInv, ZenonT(30) DEF GcJob
<1>2. CASE ~ job_may_gc(u, dbusq, tracked)
  <2>1. /\ gcq' = gcq \ {u}
        /\ UNCHANGED <<active, job, running, irreversible, ignore_order, timer, runq,
                       dbusq, tracked, nop, autoq, envVars, calls>>
    BY <1>2 DEF GcJob
  <2> QED BY <2>1 DEF Inv, JobsOK, RestTyped, NoDanglingJob, TimersArmed, Installed, envVars
<1> QED BY <1>1, <1>2

\* A job's change signal is sent; only device jobs are queued for the gc.
LEMMA SendChangeSignalInv == ASSUME Inv, NEW u \in Units, SendChangeSignal(u) PROVE Inv'
<1>1. /\ u \in dbusq /\ dbusq' = dbusq \ {u} /\ gcq' \subseteq gcq \cup {u}
      /\ UNCHANGED <<active, job, running, irreversible, ignore_order, timer, runq, tracked,
                     nop, autoq, envVars, calls>>
  BY DEF SendChangeSignal
<1> QED BY <1>1 DEF Inv, JobsOK, RestTyped, NoDanglingJob, TimersArmed, Installed, envVars

\* A client tracks a job that is there.
LEMMA TrackJobInv == ASSUME Inv, NEW u \in Units, TrackJob(u) PROVE Inv'
BY DEF TrackJob, Inv, JobsOK, RestTyped, NoDanglingJob, TimersArmed, Installed, envVars

\* A client goes away.
LEMMA TrackHandlerInv == ASSUME Inv, NEW u \in Units, bus_job_track_handler(u) PROVE Inv'
<1>1. /\ u \in tracked /\ tracked' = tracked \ {u} /\ gcq' \subseteq gcq \cup {u}
      /\ UNCHANGED <<active, job, running, irreversible, ignore_order, timer, runq, dbusq,
                     nop, autoq, envVars, calls>>
  BY DEF bus_job_track_handler
<1> QED BY <1>1 DEF Inv, JobsOK, RestTyped, NoDanglingJob, TimersArmed, Installed, envVars

\* The automatic queues add jobs as clients do.
LEMMA DispatchAutoInv == ASSUME Inv, NEW q \in AutoQueue, DispatchAuto(q) PROVE Inv'
<1>1. PICK u \in autoq[q] :
        /\ autoq' = [autoq EXCEPT ![q] = @ \ {u}]
        /\ \/ UNCHANGED <<limited, calls>>
           \/ limited' = limited \cup {u} /\ UNCHANGED calls
           \/ /\ manager_add_job(IF q = "upheld" THEN "start" ELSE "stop", u,
                                 IF q = "bound" THEN "replace" ELSE "fail", <<>>)
              /\ UNCHANGED limited
  BY ZenonT(30) DEF DispatchAuto
<1>2. u \in Units /\ autoq' \in [AutoQueue -> SUBSET Units]
  BY <1>1 DEF Inv, RestTyped
<1> DEFINE type == IF q = "upheld" THEN "start" ELSE "stop"
           mode == IF q = "bound" THEN "replace" ELSE "fail"
<1>3. type \in JobType /\ mode \in JobMode /\ <<>> \in Seq(Frame)
  BY DEF JobType, TransactionTypes, MergingTypes, JobMode
<1>4. calls' = calls \/ manager_add_job(type, u, mode, <<>>)
  BY <1>1
<1> HIDE DEF type, mode
<1>5. calls' \in Seq(Frame)
  BY <1>2, <1>3, <1>4, AddJobTyped, ZenonT(30) DEF Inv, RestTyped
<1>6. limited' \subseteq Units
  BY <1>1, <1>2 DEF Inv, RestTyped
<1>7. JobsOK'
  BY JobsUnchanged DEF Inv, DispatchAuto
<1> QED BY <1>2, <1>5, <1>6, <1>7 DEF DispatchAuto, Inv, RestTyped

\* A ratelimit on automatic starts and stops expires.
LEMMA RequeueInv == ASSUME Inv, NEW u \in Units, manager_ratelimit_requeue(u) PROVE Inv'
<1>1. [q \in AutoQueue |-> {u}] \in [AutoQueue -> SUBSET Units]
  OBVIOUS
<1>2. autoq' \in [AutoQueue -> SUBSET Units]
  BY <1>1, SubmitTyped DEF manager_ratelimit_requeue, Inv, RestTyped
<1>3. JobsOK'
  BY JobsUnchanged DEF Inv, manager_ratelimit_requeue
<1> QED BY <1>2, <1>3 DEF manager_ratelimit_requeue, Inv, RestTyped

\* Serializing and coldplugging the jobs brings back queues and timers.
LEMMA ReloadInv == Inv /\ manager_reload => Inv'
<1> SUFFICES ASSUME Inv, manager_reload PROVE Inv'
  OBVIOUS
<1>1. /\ runq' = Waiting /\ dbusq' = {}
      /\ gcq' = {u \in Installed : job_may_gc(u, {}, tracked)}
      /\ timer' = {u \in Installed : u \in JobTimeout \/ u \in timer}
      /\ limited' = {}
      /\ UNCHANGED <<active, job, running, irreversible, ignore_order, tracked, nop,
                     ratelimited, calls>>
  BY DEF manager_reload
<1>2. gcq' \subseteq Installed \cap Devices
  BY <1>1 DEF job_may_gc
<1>3. Installed' = Installed
  BY <1>1 DEF Installed
<1>4. JobsOK'
  BY <1>1, <1>2, <1>3 DEF Inv, JobsOK, NoDanglingJob, TimersArmed, Waiting
<1>5. autoq' \in [AutoQueue -> SUBSET Units]
  BY DEF manager_reload
<1> QED BY <1>1, <1>4, <1>5 DEF Inv, RestTyped

\* Events keep the invariant.
LEMMA EventInv == Inv /\ Event => Inv'
<1> SUFFICES ASSUME Inv, Event PROVE Inv'
  OBVIOUS
<1>1. CASE \E r \in Requests : Request(r)
  BY <1>1, RequestInv
<1>2. ASSUME NEW u \in Units,
             \/ RunJob(u) \/ RunNop(u) \/ UnitChange(u) \/ job_dispatch_timer(u)
             \/ bus_job_method_cancel(u) \/ GcJob(u) \/ SendChangeSignal(u) \/ TrackJob(u)
             \/ bus_job_track_handler(u) \/ manager_ratelimit_requeue(u)
      PROVE  Inv'
  BY <1>2, RunJobInv, RunNopInv, UnitChangeInv, EndJobInv, GcJobInv, SendChangeSignalInv,
     TrackJobInv, TrackHandlerInv, RequeueInv, ZenonT(30) DEF job_dispatch_timer, bus_job_method_cancel
<1>3. CASE \E q \in AutoQueue : DispatchAuto(q)
  BY <1>3, DispatchAutoInv
<1>4. CASE manager_clear_jobs
  <2>1. [op |-> "clear"] \in Frame
    BY DEF Frame, ClearFrame
  <2>2. calls' \in Seq(Frame)
    BY <1>4, <2>1 DEF manager_clear_jobs
  <2>3. JobsOK'
    BY <1>4, JobsUnchanged DEF Inv, manager_clear_jobs
  <2> QED BY <1>4, <2>2, <2>3 DEF manager_clear_jobs, Inv, RestTyped, envVars
<1>5. CASE MonitorRatelimited
  <2>1. JobsOK'
    BY <1>5, JobsUnchanged DEF Inv, MonitorRatelimited
  <2> QED BY <1>5, <2>1 DEF MonitorRatelimited, Inv, RestTyped
<1>6. CASE mount_on_ratelimit_expire
  BY <1>6, ZenonT(30) DEF mount_on_ratelimit_expire, Inv, JobsOK, RestTyped, NoDanglingJob, TimersArmed, Installed
<1>7. CASE manager_reload
  BY <1>7, ReloadInv
<1> QED BY <1>1, <1>2, <1>3, <1>4, <1>5, <1>6, <1>7 DEF Event

-----------------------------------------------------------------------------
\* PID 1 starts without jobs.
LEMMA InitInv == Init => Inv
<1> SUFFICES ASSUME Init PROVE Inv
  OBVIOUS
<1>1. Installed = {}
  BY DEF Init, Installed
<1>2. JobsOK
  BY <1>1 DEF Init, JobsOK, NoDanglingJob, TimersArmed
<1>3. RestTyped
  <2>1. ratelimited \in BOOLEAN
    BY ZenonT(30) DEF Init
  <2>2. active \in [Units -> UnitActiveState] /\ autoq \in [AutoQueue -> SUBSET Units]
    BY DEF Init, UnitActiveState
  <2>3. nop \subseteq Units /\ limited \subseteq Units /\ calls \in Seq(Frame)
    BY DEF Init
  <2> QED BY <2>1, <2>2, <2>3 DEF RestTyped
<1> QED BY <1>2, <1>3 DEF Inv

\* Steps of others change nothing.
LEMMA StutterInv == Inv /\ UNCHANGED vars => Inv'
<1> SUFFICES ASSUME Inv, UNCHANGED vars PROVE Inv'
  OBVIOUS
<1>1. JobsOK'
  BY JobsUnchanged DEF Inv, vars
<1> QED BY <1>1 DEF vars, envVars, Inv, RestTyped

\* Inv is inductive.
LEMMA NextInv == Inv /\ [Next]_vars => Inv'
BY HandlerStepInv, EventInv, StutterInv DEF Next

\* The invariant behind the theorems below.
THEOREM InvAlways == Spec => []Inv
BY InitInv, NextInv, PTL DEF Spec

\* All variables keep the types of the code's fields, the C stack included.
THEOREM TypeCorrect == Spec => []TypeOK
<1>1. Inv => TypeOK
  BY DEF Inv, JobsOK, RestTyped, TypeOK, NoDanglingJob, Installed
<1> QED BY <1>1, InvAlways, PTL

\* Whatever path ends a job, no queue, timer or flag refers to it afterwards.
THEOREM NoDanglingJobAlways == Spec => []NoDanglingJob
<1>1. Inv => NoDanglingJob
  BY DEF Inv, JobsOK
<1> QED BY <1>1, InvAlways, PTL

\* Every job with a timeout has its timer, through merges, restarts and
\* daemon-reload.
THEOREM TimersArmedAlways == Spec => []TimersArmed
<1>1. Inv => TimersArmed
  BY DEF Inv, JobsOK
<1> QED BY <1>1, InvAlways, PTL

-----------------------------------------------------------------------------
(* Ordering.                                                               *)

\* After= has no cycle: every set of units has a first and a last one.
Acyclic == \A S \in SUBSET Units : S # {} => /\ \E u \in S : Dep(u, "After") \cap S = {}
                                             /\ \E u \in S : Dep(u, "Before") \cap S = {}

\* Without a cycle of After= the jobs never all wait for each other, whatever
\* their types, although job_is_runnable only looks at one pair at a time:
\* the latest of the units that go down may run, or else the first to come up.
THEOREM NoOrderDeadlockIfAcyclic == Acyclic /\ Spec => []NoOrderDeadlock
<1> SUFFICES ASSUME Acyclic PROVE Spec => []NoOrderDeadlock
  OBVIOUS
<1>1. Inv => NoOrderDeadlock
  <2> SUFFICES ASSUME Inv, Installed # {} PROVE \E u \in Installed : job_is_runnable(u)
    BY DEF NoOrderDeadlock
  <2> DEFINE S == Installed \ ignore_order
             D == {u \in S : Downwards(job[u])}
  <2>1. Installed \subseteq Units /\ S \subseteq Units /\ D \subseteq Units
    BY DEF Installed
  <2>2. CASE S = {}
    BY <2>2 DEF job_is_runnable
  <2>3. CASE D # {}
    <3>1. PICK u \in D : Dep(u, "Before") \cap D = {}
      BY <2>1, <2>3, ZenonT(30) DEF Acyclic
    <3>2. \A v \in S : ~ Blocks(u, v)
      BY <3>1 DEF Blocks, job_compare_before, job_compare_after
    <3> QED BY <3>1, <3>2 DEF job_is_runnable
  <2>4. CASE D = {} /\ S # {}
    <3>1. PICK u \in S : Dep(u, "After") \cap S = {}
      BY <2>1, <2>4, ZenonT(30) DEF Acyclic
    <3>2. \A v \in S : ~ Blocks(u, v)
      BY <2>4, <3>1 DEF Blocks, job_compare_before, job_compare_after
    <3> QED BY <3>1, <3>2 DEF job_is_runnable
  <2> QED BY <2>2, <2>3, <2>4
<1> QED BY <1>1, InvAlways, PTL

-----------------------------------------------------------------------------
(* The order of jobs.                                                      *)

Around(u) == Dep(u, "After") \cup Dep(u, "Before")

\* The units whose jobs the finish frames on the stack s will queue.
Woken(s) == {u \in Units : \E i \in DOMAIN s : s[i].op = "finish" /\ u \in Around(s[i].unit)}

Held(u) == AwaitsChange(u) \/ (u \notin ignore_order /\ \E v \in Installed : Blocks(u, v))

\* NoLostWakeup, in the middle of handlers, too.
WakeInv == \A u \in Waiting \ runq : Held(u) \/ u \in Woken(calls)

\* NoLostGc, likewise.
GcInv == \A u \in (Installed \cap Devices) \ (dbusq \cup tracked) :
             Around(u) \cap Installed = {} => u \in gcq \cup Woken(calls)

\* What RunningConsistent says of one running job.
RunOK(u) == /\ job[u] # "verify"
            /\ job[u] = "start" => ~ IsActiveOrReloading(active[u])
            /\ job[u] \in {"stop", "restart"} => ~ IsInactiveOrFailed(active[u])
            /\ job[u] = "reload" => active[u] \notin {"active", "inactive", "failed"}

NoPerform(s) == \A i \in DOMAIN s : s[i].op # "perform"
Performing(u) == calls = <<[op |-> "perform", unit |-> u]>>

\* No job is just being run, and all is in order.
Settled == NoPerform(calls) /\ WakeInv /\ GcInv /\ \A v \in running : RunOK(v)

\* job_run_and_invalidate is called from the event loop only: its frame is the
\* whole stack, and its job the only one not yet where it belongs.
OrderInv == \/ Settled
            \/ WakeInv /\ GcInv /\ \E u \in Units : Performing(u) /\ \A v \in running \ {u} : RunOK(v)

-----------------------------------------------------------------------------
\* Being ordered around each other is symmetric (module DependencyStore).
LEMMA AroundSymmetric ==
    /\ \A u, v \in Units : u \in Around(v) <=> v \in Around(u)
    /\ \A u \in Units : Around(u) \subseteq Units \ {u}
<1>1. "After" \in Atom /\ "Before" \in Atom
  BY Zenon DEF Atom
<1> QED BY <1>1, DepAssumption, Zenon DEF Around

\* Only the jobs of units ordered around u can block its job.
LEMMA BlocksAround == \A u, v : Blocks(u, v) => v \in Around(u)
BY Zenon DEF Blocks, Around

\* An empty stack wakes nobody.
LEMMA EmptyStack == NoPerform(<<>>) /\ Woken(<<>>) = {}
BY DEF NoPerform, Woken

\* Pushing a frame adds to what will be woken.
LEMMA Push ==
    ASSUME NEW f \in Frame, f.op # "perform", NEW s \in Seq(Frame), NoPerform(s)
    PROVE  /\ NoPerform(<<f>> \o s) /\ Woken(s) \subseteq Woken(<<f>> \o s)
           /\ f.op = "finish" => Around(f.unit) \cap Units \subseteq Woken(<<f>> \o s)
<1> DEFINE c == <<f>> \o s
<1>1. /\ c \in Seq(Frame) /\ Len(c) = Len(s) + 1 /\ c[1] = f
      /\ \A i \in 1 .. Len(s) : c[i + 1] = s[i]
      /\ \A i \in 2 .. Len(c) : i - 1 \in 1 .. Len(s) /\ c[i] = s[i - 1]
  OBVIOUS
<1>2. DOMAIN c = 1 .. Len(c) /\ DOMAIN s = 1 .. Len(s) /\ Len(s) \in Nat
  BY <1>1
<1> HIDE DEF c
<1>3. NoPerform(c)
  <2> SUFFICES ASSUME NEW i \in DOMAIN c PROVE c[i].op # "perform"
    BY Zenon DEF NoPerform
  <2>1. CASE i = 1
    BY <1>1, <2>1, Zenon
  <2>2. CASE i # 1
    <3>1. i \in 2 .. Len(c)
      BY <1>1, <1>2, <2>2
    <3> QED BY <1>1, <1>2, <3>1 DEF NoPerform
  <2> QED BY <2>1, <2>2, Zenon
<1>4. Woken(s) \subseteq Woken(c)
  <2> SUFFICES ASSUME NEW u \in Units, NEW i \in DOMAIN s,
                      s[i].op = "finish" /\ u \in Around(s[i].unit)
               PROVE  u \in Woken(c)
    BY Zenon DEF Woken
  <2>1. i + 1 \in DOMAIN c /\ c[i + 1] = s[i]
    BY <1>1, <1>2
  <2> QED BY <2>1, Zenon DEF Woken
<1>5. f.op = "finish" => Around(f.unit) \cap Units \subseteq Woken(c)
  BY <1>1, <1>2 DEF Woken
<1> QED BY <1>3, <1>4, <1>5, Zenon DEF c

\* Popping one takes away at most what it was going to wake.
LEMMA Pop ==
    ASSUME calls \in Seq(Frame), calls # <<>>, NoPerform(calls)
    PROVE  /\ NoPerform(Tail(calls))
           /\ Top.op # "perform"
           /\ \A u \in Woken(calls) : u \in Woken(Tail(calls)) \/ (Top.op = "finish" /\ u \in Around(Top.unit))
<1> DEFINE s == Tail(calls)
<1>1. /\ s \in Seq(Frame) /\ Len(calls) = Len(s) + 1 /\ calls[1] = Top
      /\ \A i \in 1 .. Len(s) : calls[i + 1] = s[i]
      /\ \A i \in 2 .. Len(calls) : i - 1 \in 1 .. Len(s) /\ calls[i] = s[i - 1]
  BY DEF Top
<1>2. DOMAIN calls = 1 .. Len(calls) /\ DOMAIN s = 1 .. Len(s) /\ Len(s) \in Nat
  BY <1>1
<1> HIDE DEF s
<1>3. NoPerform(s)
  <2> SUFFICES ASSUME NEW i \in DOMAIN s PROVE s[i].op # "perform"
    BY Zenon DEF NoPerform
  <2>1. i + 1 \in DOMAIN calls /\ calls[i + 1] = s[i]
    BY <1>1, <1>2
  <2> QED BY <2>1, Zenon DEF NoPerform
<1>4. Top.op # "perform"
  BY <1>1, <1>2 DEF NoPerform
<1>5. ASSUME NEW u \in Woken(calls)
      PROVE  u \in Woken(s) \/ (Top.op = "finish" /\ u \in Around(Top.unit))
  <2>1. PICK i \in DOMAIN calls : calls[i].op = "finish" /\ u \in Around(calls[i].unit)
    BY Zenon DEF Woken
  <2>2. CASE i = 1
    BY <1>1, <2>1, <2>2, Zenon
  <2>3. CASE i # 1
    <3>1. i \in 2 .. Len(calls)
      BY <1>1, <1>2, <2>3
    <3>2. i - 1 \in DOMAIN s /\ s[i - 1] = calls[i]
      BY <1>1, <1>2, <3>1, Zenon
    <3> QED BY <2>1, <3>2, Zenon DEF Woken
  <2> QED BY <2>2, <2>3, Zenon
<1> QED BY <1>3, <1>4, <1>5, Zenon DEF s

\* Going on with the frame on top keeps it all.
LEMMA GoOn ==
    ASSUME calls \in Seq(Frame), calls # <<>>, NoPerform(calls),
           NEW f \in Frame, f.op = Top.op, Top.op = "finish" => f.unit = Top.unit
    PROVE  /\ <<f>> \o Tail(calls) \in Seq(Frame)
           /\ NoPerform(<<f>> \o Tail(calls))
           /\ Woken(calls) \subseteq Woken(<<f>> \o Tail(calls))
<1>1. Tail(calls) \in Seq(Frame)
  BY TopTyped, Zenon
<1> QED BY <1>1, Pop, Push, PushTyped, ZenonT(30) DEF Woken

-----------------------------------------------------------------------------
(* The calls that change jobs.                                             *)

\* A freed job, or a RESTART patched to START, may have held back others: the
\* finish frame is there to wake them.
LEMMA FinishOrder ==
    ASSUME Inv, WakeInv, GcInv, NEW u \in Units, \A v \in running \ {u} : RunOK(v),
           NEW s \in UnitActiveState, NEW result, NEW recursive,
           NEW rest \in Seq(Frame), NoPerform(rest), Woken(calls) \subseteq Woken(rest),
           job_finish_and_invalidate(u, result, recursive, s, rest),
           \A v \in Units \ {u} : active'[v] = active[v], ratelimited' = ratelimited
    PROVE  Settled'
<1>1. PICK f \in LoopFrame : f.op = "finish" /\ f.unit = u /\ calls' = <<f>> \o rest
  <2>1. \/ calls' = <<RestartFrame(u, s)>> \o rest
        \/ calls' = <<FinishFrame(u, job[u], result, recursive, s)>> \o rest
    BY Zenon DEF job_finish_and_invalidate
  <2> DEFINE a == RestartFrame(u, s)
             b == FinishFrame(u, job[u], result, recursive, s)
             Finishes(f) == f \in LoopFrame /\ f.op = "finish" /\ f.unit = u
  <2>2. /\ a \in LoopFrame /\ a.op = "finish" /\ a.unit = u
        /\ b \in LoopFrame /\ b.op = "finish" /\ b.unit = u
    <3>1. \A t : /\ FinishFrame(u, t, result, recursive, s) \in LoopFrame
                 /\ FinishFrame(u, t, result, recursive, s).op = "finish"
                 /\ FinishFrame(u, t, result, recursive, s).unit = u
      BY FinishFrameTyped, SMTT(30)
    <3>2. a \in LoopFrame /\ a.op = "finish" /\ a.unit = u
      BY FinishFrameTyped, Zenon
    <3> QED BY <3>1, <3>2, Zenon
  <2> HIDE DEF a, b
  <2>3. Finishes(a) /\ Finishes(b)
    BY <2>2, Zenon
  <2> HIDE DEF Finishes
  <2>4. \E f : Finishes(f) /\ calls' = <<f>> \o rest
    BY <2>1, <2>3, Zenon DEF a, b
  <2> QED BY <2>4, Zenon DEF Finishes
<1>2. /\ NoPerform(calls') /\ Woken(calls) \subseteq Woken(calls')
      /\ Around(u) \subseteq Woken(calls')
  <2>1. f \in Frame /\ f.op # "perform"
    BY <1>1, Zenon DEF Frame
  <2>2. Around(u) \subseteq Units
    BY AroundSymmetric, Zenon
  <2> QED BY <1>1, <2>1, <2>2, Push, Zenon
<1>3. /\ \A v \in Units \ {u} : job'[v] = job[v] /\ (v \in ignore_order' <=> v \in ignore_order)
      /\ running' = running \ {u}
      /\ \A v \in Units \ {u} : v \in runq => v \in runq'
      /\ \A v \in Units \ {u} : v \in gcq => v \in gcq'
      /\ \A v \in Units \ {u} : v \in dbusq \cup tracked <=> v \in dbusq' \cup tracked'
      /\ u \in Installed' => u \in runq' /\ (u \in Devices => u \in dbusq')
  BY Zenon DEF job_finish_and_invalidate, Inv, JobsOK, Installed
<1>4. /\ Installed' \subseteq Units /\ Installed \subseteq Units
      /\ \A v \in Units \ {u} : v \in Installed' <=> v \in Installed
  BY <1>3, Zenon DEF Installed
<1>5. \A v \in running' : RunOK(v)'
  <2> SUFFICES ASSUME NEW v \in running' PROVE RunOK(v)'
    BY Zenon
  <2>1. v \in running \ {u} /\ v \in Units
    BY <1>3, <1>4, Zenon DEF Inv, JobsOK, NoDanglingJob
  <2>2. RunOK(v) /\ job'[v] = job[v] /\ active'[v] = active[v]
    BY <1>3, <2>1, Zenon
  <2> QED BY <2>2, Zenon DEF RunOK
<1>6. WakeInv'
  <2> SUFFICES ASSUME NEW v \in Waiting', v \notin runq' PROVE Held(v)' \/ v \in Woken(calls')
    BY Zenon DEF WakeInv
  <2>1. v # u /\ v \in Units /\ v \in Waiting \ runq
    BY <1>3, <1>4, Zenon DEF Waiting
  <2>2. CASE v \in Woken(calls)
    BY <1>2, <2>2, Zenon
  <2>3. CASE AwaitsChange(v)
    BY <1>3, <2>1, <2>3, Zenon DEF Held, AwaitsChange, NotYet
  <2>4. ASSUME v \notin ignore_order, NEW w \in Installed, Blocks(v, w)
        PROVE  Held(v)' \/ v \in Woken(calls')
    <3>1. CASE w = u
      BY <1>2, <2>1, <2>4, <3>1, BlocksAround, AroundSymmetric, Zenon
    <3>2. CASE w # u
      <4>1. w \in Installed' /\ job'[w] = job[w] /\ job'[v] = job[v]
        BY <1>3, <1>4, <2>1, <3>2, Zenon
      <4>2. Blocks(v, w)'
        BY <2>4, <4>1, Zenon DEF Blocks
      <4> QED BY <1>3, <2>1, <2>4, <4>1, <4>2, Zenon DEF Held
    <3> QED BY <3>1, <3>2, Zenon
  <2> QED BY <2>1, <2>2, <2>3, <2>4, Zenon DEF WakeInv, Held
<1>7. GcInv'
  <2> SUFFICES ASSUME NEW v \in Installed', v \in Devices, v \notin dbusq' \cup tracked',
                      Around(v) \cap Installed' = {}
               PROVE  v \in gcq' \cup Woken(calls')
    BY Zenon DEF GcInv
  <2>1. v # u /\ v \in Units /\ v \in Installed /\ v \notin dbusq \cup tracked
    BY <1>3, <1>4, Zenon
  <2>2. CASE u \in Around(v)
    BY <1>2, <2>1, <2>2, AroundSymmetric, Zenon
  <2>3. CASE u \notin Around(v)
    <3>1. Around(v) \cap Installed = {}
      BY <1>4, <2>1, <2>3, Zenon
    <3> QED BY <1>2, <1>3, <2>1, <3>1, Zenon DEF GcInv
  <2> QED BY <2>2, <2>3, Zenon
<1> QED BY <1>2, <1>5, <1>6, <1>7, Zenon DEF Settled

\* A step that leaves jobs and units alone has to keep what will be woken.
LEMMA QuietOrder ==
    ASSUME WakeInv, GcInv, \A v \in running : RunOK(v), UNCHANGED <<active, jobVars>>,
           ratelimited' = ratelimited,
           NoPerform(calls'), Woken(calls) \subseteq Woken(calls')
    PROVE  Settled'
<1>1. Installed' = Installed /\ Waiting' = Waiting
  BY Zenon DEF Installed, Waiting, jobVars
<1>2. \A v : (Held(v)' <=> Held(v)) /\ (RunOK(v)' <=> RunOK(v))
  BY <1>1, ZenonT(30) DEF Held, AwaitsChange, NotYet, Blocks, RunOK, jobVars
<1>3. WakeInv' /\ GcInv'
  BY <1>1, <1>2, Zenon DEF WakeInv, GcInv, jobVars
<1> QED BY <1>2, <1>3, Zenon DEF Settled, jobVars

\* unit_notify ends the job, or queues it if it waits.
LEMMA NotifyOrder ==
    ASSUME Inv, WakeInv, GcInv, NEW u \in Units, \A v \in running \ {u} : RunOK(v),
           u \in running => job[u] # "verify",
           NEW ns \in UnitActiveState, NEW reload_success,
           NEW rest \in Seq(Frame), NoPerform(rest), Woken(calls) \subseteq Woken(rest),
           unit_notify(u, ns, reload_success, rest), ratelimited' = ratelimited
    PROVE  Settled'
<1> DEFINE outcome == JobOutcome(u, ns, reload_success)
           more == <<NotifyFrame(u, ns)>> \o rest
<1>1. active' = [active EXCEPT ![u] = ns]
  BY Zenon DEF unit_notify
<1>2. active'[u] = ns /\ \A v \in Units \ {u} : active'[v] = active[v]
  BY <1>1, Zenon DEF Inv, RestTyped
<1>3. NotifyFrame(u, ns) \in Frame /\ NotifyFrame(u, ns).op # "perform"
  BY NotifyFrameTyped, Zenon DEF Frame, NotifyFrame
<1>4. more \in Seq(Frame) /\ NoPerform(more) /\ Woken(calls) \subseteq Woken(more)
  BY <1>3, Push, PushTyped, Zenon
<1>5. CASE outcome # "none"
  <2>1. job_finish_and_invalidate(u, outcome, TRUE, ns, more)
    BY <1>5, Zenon DEF unit_notify
  <2> HIDE DEF outcome, more
  <2> QED BY <1>2, <1>4, <2>1, FinishOrder, Zenon
<1>6. CASE outcome = "none"
  <2>1. /\ runq' = runq \cup ({u} \cap Waiting) /\ calls' = more
        /\ UNCHANGED <<job, running, irreversible, ignore_order, timer, gcq, dbusq, tracked>>
    BY <1>6, Zenon DEF unit_notify
  <2>2. Installed' = Installed /\ Waiting' = Waiting
    BY <2>1, Zenon DEF Installed, Waiting
  <2>3. \A v \in running' : RunOK(v)'
    <3> SUFFICES ASSUME NEW v \in running PROVE RunOK(v)'
      BY <2>1, Zenon
    <3>1. v \in Units
      BY Zenon DEF Inv, JobsOK, NoDanglingJob, Installed
    <3>2. CASE v # u
      BY <1>2, <2>1, <3>1, <3>2, Zenon DEF RunOK
    <3>3. CASE v = u
      BY <1>2, <1>6, <2>1, <3>3, Zenon DEF RunOK, JobOutcome, unit_process_job, IsActiveOrReloading, IsInactiveOrFailed
    <3> QED BY <3>2, <3>3, Zenon
  <2> HIDE DEF outcome, more
  <2>4. WakeInv'
    <3> SUFFICES ASSUME NEW v \in Waiting, v \notin runq' PROVE Held(v)' \/ v \in Woken(calls')
      BY <2>2, Zenon DEF WakeInv
    <3>1. v # u /\ v \in Units /\ v \notin runq
      BY <2>1, Zenon DEF Waiting, Installed
    <3>2. Held(v) => Held(v)'
      BY <1>2, <2>1, <2>2, <3>1, Zenon DEF Held, AwaitsChange, NotYet, Blocks
    <3> QED BY <1>4, <2>1, <3>1, <3>2, Zenon DEF WakeInv
  <2>5. GcInv'
    BY <1>4, <2>1, <2>2, Zenon DEF GcInv
  <2> QED BY <1>4, <2>1, <2>3, <2>4, <2>5, Zenon DEF Settled
<1> QED BY <1>5, <1>6, Zenon

-----------------------------------------------------------------------------
(* Handlers in progress.                                                   *)

\* Only while a job is being run may its unit be out of step with it.
LEMMA SettledUnlessPerforming == OrderInv /\ ~ InHandler("perform") => Settled
BY DEF OrderInv, Performing, InHandler, Top

\* Failing dependencies pushes finish frames, which wake others.
LEMMA FailDependencyOrder == Inv /\ OrderInv /\ FailDependency => Settled'
<1> SUFFICES ASSUME Inv, OrderInv, FailDependency PROVE Settled'
  BY Zenon
<1>1. Settled /\ calls \in Seq(Frame) /\ calls # <<>> /\ Top.op = "finish" /\ Top \in LoopFrame
  BY SettledUnlessPerforming, TopTyped, Zenon DEF Inv, RestTyped, FailDependency, InHandler
<1>2. PICK o \in Top.fail :
        LET rest == <<[Top EXCEPT !.fail = @ \ {o}]>> \o Tail(calls)
        IN IF job[o] \in {"start", "verify"}
           THEN job_finish_and_invalidate(o, "dependency", TRUE, active[o], rest)
           ELSE calls' = rest /\ UNCHANGED jobVars
  BY Zenon DEF FailDependency
<1> DEFINE f == [Top EXCEPT !.fail = @ \ {o}]
           rest == <<f>> \o Tail(calls)
<1>3. o \in Units /\ f \in Frame /\ f.op = Top.op /\ f.unit = Top.unit
  BY <1>1, LoopFrameGoesOn, Zenon DEF Frame, LoopFrame
<1>4. UNCHANGED active /\ ratelimited' = ratelimited
  BY Zenon DEF FailDependency, envVars
<1>5. \/ job_finish_and_invalidate(o, "dependency", TRUE, active[o], rest)
      \/ calls' = rest /\ UNCHANGED jobVars
  BY <1>2, Zenon
<1> HIDE DEF f
<1>6. rest \in Seq(Frame) /\ NoPerform(rest) /\ Woken(calls) \subseteq Woken(rest)
  BY <1>1, <1>3, GoOn, Zenon DEF Settled
<1> HIDE DEF rest
<1>7. CASE calls' = rest /\ UNCHANGED jobVars
  BY <1>1, <1>4, <1>6, <1>7, QuietOrder, Zenon DEF Settled
<1>8. CASE job_finish_and_invalidate(o, "dependency", TRUE, active[o], rest)
  <2>1. active[o] \in UnitActiveState /\ \A v \in Units \ {o} : active'[v] = active[v]
    BY <1>3, <1>4, Zenon DEF Inv, RestTyped
  <2> QED BY <1>1, <1>3, <1>4, <1>6, <1>8, <2>1, FinishOrder, Zenon DEF Settled
<1> QED BY <1>5, <1>7, <1>8, Zenon

\* manager_add_job leaves jobs alone and pushes a transaction, or nothing.
LEMMA AddJobOrder ==
    ASSUME active \in [Units -> UnitActiveState], NEW type \in JobType, NEW u \in Units,
           NEW mode \in JobMode, NEW rest \in Seq(Frame), NoPerform(rest),
           manager_add_job(type, u, mode, rest)
    PROVE  NoPerform(calls') /\ Woken(rest) \subseteq Woken(calls')
<1>1. CASE calls' = rest
  BY <1>1, Zenon
<1>2. ASSUME NEW tr \in Transactions(type, u, mode), calls' = <<Apply(tr, u, mode)>> \o rest
      PROVE  NoPerform(calls') /\ Woken(rest) \subseteq Woken(calls')
  <2>1. Apply(tr, u, mode) \in Frame /\ Apply(tr, u, mode).op # "perform"
    BY TransactionsTyped, ApplyTyped, ZenonT(30) DEF Frame, Apply
  <2> QED BY <1>2, <2>1, Push, Zenon
<1> QED BY <1>1, <1>2, Zenon DEF manager_add_job

\* Adding jobs for dependencies keeps the frame that adds them.
LEMMA AddDependencyJobOrder == Inv /\ OrderInv /\ AddDependencyJob => Settled'
<1> SUFFICES ASSUME Inv, OrderInv, AddDependencyJob PROVE Settled'
  BY Zenon
<1>1. Settled /\ calls \in Seq(Frame) /\ calls # <<>> /\ Top \in LoopFrame
  BY SettledUnlessPerforming, TopTyped, Zenon DEF Inv, RestTyped, AddDependencyJob, InHandler
<1>2. PICK a \in Top.adds :
        LET how == a[1]
            o == a[2]
            rest == <<[Top EXCEPT !.adds = @ \ {a}]>> \o Tail(calls)
        IN \/ calls' = rest
           \/ manager_add_job(IF how = "stop" THEN "stop" ELSE "start", o,
                              IF how \in {"start-fail", "on-success"} THEN "fail" ELSE "replace",
                              rest)
  BY Zenon DEF AddDependencyJob
<1> DEFINE f == [Top EXCEPT !.adds = @ \ {a}]
           rest == <<f>> \o Tail(calls)
           type == IF a[1] = "stop" THEN "stop" ELSE "start"
           mode == IF a[1] \in {"start-fail", "on-success"} THEN "fail" ELSE "replace"
<1>3. a[2] \in Units /\ f \in Frame /\ f.op = Top.op /\ f.unit = Top.unit
  BY <1>1, LoopFrameGoesOn, Zenon DEF Frame, LoopFrame
<1>4. type \in JobType /\ mode \in JobMode
  BY Zenon DEF JobType, TransactionTypes, MergingTypes, JobMode
<1>5. calls' = rest \/ manager_add_job(type, a[2], mode, rest)
  BY <1>2, Zenon
<1> HIDE DEF f, type, mode
<1>6. rest \in Seq(Frame) /\ NoPerform(rest) /\ Woken(calls) \subseteq Woken(rest)
  BY <1>1, <1>3, GoOn, Zenon DEF Settled
<1> HIDE DEF rest
<1>7. NoPerform(calls') /\ Woken(calls) \subseteq Woken(calls')
  BY <1>3, <1>4, <1>5, <1>6, AddJobOrder, Zenon DEF Inv, RestTyped
<1>8. UNCHANGED <<active, jobVars>> /\ ratelimited' = ratelimited
  BY Zenon DEF AddDependencyJob, envVars
<1> QED BY <1>1, <1>7, <1>8, QuietOrder, Zenon DEF Settled

\* Notifying a triggering unit keeps the frame that does it.
LEMMA TriggerNotifyOrder == Inv /\ OrderInv /\ TriggerNotify => Settled'
<1> SUFFICES ASSUME Inv, OrderInv, TriggerNotify PROVE Settled'
  BY Zenon
<1>1. Settled /\ calls \in Seq(Frame) /\ calls # <<>> /\ Top \in LoopFrame
  BY SettledUnlessPerforming, TopTyped, Zenon DEF Inv, RestTyped, TriggerNotify, InHandler
<1>2. PICK o \in Top.trigger :
        LET rest == <<[Top EXCEPT !.trigger = @ \ {o}]>> \o Tail(calls)
        IN \/ calls' = rest /\ UNCHANGED <<active, jobVars>>
           \/ \E ns \in TriggerStates : unit_notify(o, ns, TRUE, rest)
  BY Zenon DEF TriggerNotify
<1> DEFINE f == [Top EXCEPT !.trigger = @ \ {o}]
           rest == <<f>> \o Tail(calls)
<1>3. o \in Units /\ f \in Frame /\ f.op = Top.op /\ f.unit = Top.unit
  BY <1>1, LoopFrameGoesOn, Zenon DEF Frame, LoopFrame
<1>4. \/ calls' = rest /\ UNCHANGED <<active, jobVars>>
      \/ \E ns \in TriggerStates : unit_notify(o, ns, TRUE, rest)
  BY <1>2, Zenon
<1> HIDE DEF f
<1>5. rest \in Seq(Frame) /\ NoPerform(rest) /\ Woken(calls) \subseteq Woken(rest)
  BY <1>1, <1>3, GoOn, Zenon DEF Settled
<1> HIDE DEF rest
<1>6. ratelimited' = ratelimited
  BY Zenon DEF TriggerNotify, envVars
<1>7. CASE calls' = rest /\ UNCHANGED <<active, jobVars>>
  BY <1>1, <1>5, <1>6, <1>7, QuietOrder, Zenon DEF Settled
<1>8. ASSUME NEW ns \in TriggerStates, unit_notify(o, ns, TRUE, rest) PROVE Settled'
  <2>1. ns \in UnitActiveState
    BY Zenon DEF TriggerStates, UnitActiveState
  <2>2. o \in running => job[o] # "verify"
    BY <1>1, Zenon DEF Settled, RunOK
  <2> QED BY <1>1, <1>3, <1>5, <1>6, <1>8, <2>1, <2>2, NotifyOrder, Zenon DEF Settled
<1> QED BY <1>4, <1>7, <1>8, Zenon

\* A device job without neighbours in the order may be collected.
LEMMA LonelyMayGc ==
    ASSUME NEW v \in Devices, NEW dbus, NEW clients, v \notin dbus \cup clients,
           Around(v) \cap Installed = {}
    PROVE  job_may_gc(v, dbus, clients)
BY Zenon DEF job_may_gc, HoldsUpNobody, Around

\* The "finish" label queues what the frame promised.
LEMMA FinishEndOrder == Inv /\ OrderInv /\ FinishEnd => Settled'
<1> SUFFICES ASSUME Inv, OrderInv, FinishEnd PROVE Settled'
  BY Zenon
<1>1. Settled /\ calls \in Seq(Frame) /\ calls # <<>> /\ Top.op = "finish"
  BY SettledUnlessPerforming, Zenon DEF Inv, RestTyped, FinishEnd, InHandler
<1> DEFINE u == Top.unit
<1>2. /\ runq' = runq \cup (Around(u) \cap Installed)
      /\ gcq' = gcq \cup {v \in Around(u) \cap Installed : job_may_gc(v, dbusq, tracked)}
      /\ calls' = Tail(calls) /\ ratelimited' = ratelimited
      /\ UNCHANGED <<active, job, running, irreversible, ignore_order, timer, dbusq, tracked, nop>>
  BY Zenon DEF FinishEnd, Around, envVars
<1>3. NoPerform(calls') /\ \A v \in Woken(calls) : v \in Woken(calls') \/ v \in Around(u)
  BY <1>1, <1>2, Pop, Zenon DEF Settled
<1> HIDE DEF u
<1>4. Installed' = Installed /\ Waiting' = Waiting
  BY <1>2, Zenon DEF Installed, Waiting
<1>5. \A v : (Held(v)' <=> Held(v)) /\ (RunOK(v)' <=> RunOK(v))
  BY <1>2, <1>4, ZenonT(30) DEF Held, AwaitsChange, NotYet, Blocks, RunOK
<1>6. WakeInv'
  BY <1>1, <1>2, <1>3, <1>4, <1>5, Zenon DEF WakeInv, Settled, Waiting
<1>7. GcInv'
  <2> SUFFICES ASSUME NEW v \in Installed, v \in Devices, v \notin dbusq \cup tracked,
                      Around(v) \cap Installed = {}
               PROVE  v \in gcq' \cup Woken(calls')
    BY <1>2, <1>4, Zenon DEF GcInv
  <2>1. job_may_gc(v, dbusq, tracked)
    BY LonelyMayGc, Zenon
  <2> QED BY <1>1, <1>2, <1>3, <2>1, Zenon DEF Settled, GcInv
<1> QED BY <1>1, <1>2, <1>3, <1>5, <1>6, <1>7, Zenon DEF Settled

\* The other handlers end without anything to wake.
LEMMA EndOrder ==
    ASSUME Inv, OrderInv, calls # <<>>, Top.op \notin {"finish", "perform"},
           calls' = Tail(calls), UNCHANGED <<active, jobVars>>, ratelimited' = ratelimited
    PROVE  Settled'
<1>1. Settled /\ calls \in Seq(Frame)
  BY SettledUnlessPerforming, Zenon DEF Inv, RestTyped, InHandler
<1>2. NoPerform(calls') /\ Woken(calls) \subseteq Woken(calls')
  BY <1>1, Pop, Zenon DEF Settled
<1> QED BY <1>1, <1>2, QuietOrder, Zenon DEF Settled

\* Finishing a NOP job wakes more, never less.
LEMMA FinishNopOrder ==
    ASSUME Inv, Settled, NEW u \in Units, FinishNop(u, calls), UNCHANGED <<active, jobVars>>,
           ratelimited' = ratelimited
    PROVE  Settled'
<1> DEFINE f == FinishFrame(u, "nop", "done", FALSE, active[u])
<1>1. active[u] \in UnitActiveState /\ calls \in Seq(Frame)
  BY Zenon DEF Inv, RestTyped
<1>2. f \in Frame /\ f.op # "perform"
  BY <1>1, FinishFrameTyped, Zenon DEF Frame
<1>3. calls' = <<f>> \o calls
  BY Zenon DEF FinishNop
<1> HIDE DEF f
<1>4. NoPerform(calls') /\ Woken(calls) \subseteq Woken(calls')
  BY <1>1, <1>2, <1>3, Push, Zenon DEF Settled
<1> QED BY <1>4, QuietOrder, Zenon DEF Settled

\* Canceling a job in the middle of a handler.
LEMMA CancelOrder ==
    ASSUME Inv, Settled, NEW u \in Units, NEW rest \in Seq(Frame), NoPerform(rest),
           Woken(calls) \subseteq Woken(rest),
           job_finish_and_invalidate(u, "canceled", FALSE, active[u], rest),
           UNCHANGED active, ratelimited' = ratelimited
    PROVE  Settled'
<1>1. active[u] \in UnitActiveState /\ \A v \in Units \ {u} : active'[v] = active[v]
  BY Zenon DEF Inv, RestTyped
<1> QED BY <1>1, FinishOrder, Zenon DEF Settled

\* Canceling jobs when isolating wakes those that waited for them.
LEMMA ApplyFlushOrder == Inv /\ OrderInv /\ ApplyFlush => Settled'
<1> SUFFICES ASSUME Inv, OrderInv, ApplyFlush PROVE Settled'
  BY Zenon
<1>1. Settled /\ calls \in Seq(Frame) /\ calls # <<>> /\ Top \in ApplyFrame /\ Top.op = "apply"
  BY SettledUnlessPerforming, TopTyped, Zenon DEF Inv, RestTyped, ApplyFlush, InHandler
<1>2. PICK u \in Top.flush :
        IF job[u] # "none"
        THEN /\ job_finish_and_invalidate(u, "canceled", FALSE, active[u], calls)
             /\ UNCHANGED nop
        ELSE IF u \in nop THEN FinishNop(u, calls) /\ UNCHANGED jobVars
        ELSE /\ calls' = <<[Top EXCEPT !.flush = @ \ {u}]>> \o Tail(calls)
             /\ UNCHANGED <<jobVars, nop>>
  BY Zenon DEF ApplyFlush
<1>3. u \in Units
  BY <1>1, Zenon DEF ApplyFrame
<1>4. UNCHANGED active /\ ratelimited' = ratelimited
  BY Zenon DEF ApplyFlush, envVars
<1>5. CASE job[u] # "none"
  BY <1>1, <1>2, <1>3, <1>4, <1>5, CancelOrder, Zenon DEF Settled
<1>6. CASE job[u] = "none" /\ u \in nop
  BY <1>1, <1>2, <1>3, <1>4, <1>6, FinishNopOrder, Zenon
<1>7. CASE job[u] = "none" /\ u \notin nop
  <2> DEFINE f == [Top EXCEPT !.flush = @ \ {u}]
  <2>1. calls' = <<f>> \o Tail(calls) /\ UNCHANGED <<active, jobVars>>
    BY <1>2, <1>4, <1>7, Zenon
  <2>2. f \in Frame /\ f.op = Top.op
    BY <1>1, <1>3, ApplyFrameGoesOn, Zenon DEF Frame, ApplyFrame
  <2> HIDE DEF f
  <2>3. NoPerform(calls') /\ Woken(calls) \subseteq Woken(calls')
    BY <1>1, <2>1, <2>2, GoOn, Zenon DEF Settled
  <2> QED BY <1>1, <1>4, <2>1, <2>3, QuietOrder, Zenon DEF Settled
<1> QED BY <1>5, <1>6, <1>7, Zenon

\* A job that is installed or merged is queued itself, and one that merges
\* never stops blocking what it blocked.
LEMMA InstallOrder ==
    ASSUME Inv, Settled, NEW u \in Units, JobInstalled(u), UNCHANGED active,
           ratelimited' = ratelimited, NoPerform(calls'), Woken(calls) \subseteq Woken(calls')
    PROVE  Settled'
<1>1. Installed' = Installed \cup {u} /\ Installed \subseteq Units
  BY Zenon DEF JobInstalled, Installed
<1>2. WakeInv'
  <2> SUFFICES ASSUME NEW v \in Waiting', v \notin runq' PROVE Held(v)' \/ v \in Woken(calls')
    BY Zenon DEF WakeInv
  <2>1. v # u /\ v \in Units /\ v \in Waiting \ runq
    BY <1>1, Zenon DEF JobInstalled, Waiting
  <2>2. job'[v] = job[v] /\ (v \in ignore_order' <=> v \in ignore_order)
    BY <2>1, Zenon DEF JobInstalled
  <2>3. CASE v \in Woken(calls)
    BY <2>3, Zenon
  <2>4. CASE AwaitsChange(v)
    BY <2>2, <2>4, Zenon DEF Held, AwaitsChange, NotYet
  <2>5. ASSUME v \notin ignore_order, NEW w \in Installed, Blocks(v, w) PROVE Held(v)'
    <3>1. Downwards(job[w]) => Downwards(job'[w])
      <4>1. CASE w = u
        BY <4>1, Zenon DEF JobInstalled, Installed
      <4>2. CASE w # u
        BY <1>1, <4>2, ZenonT(30) DEF JobInstalled
      <4> QED BY <4>1, <4>2, Zenon
    <3>2. Blocks(v, w)'
      BY <2>2, <2>5, <3>1, SMTT(30) DEF Blocks, job_compare_before, job_compare_after
    <3> QED BY <1>1, <2>2, <2>5, <3>2, Zenon DEF Held
  <2> QED BY <2>1, <2>3, <2>4, <2>5, Zenon DEF Settled, WakeInv, Held
<1>3. GcInv'
  BY <1>1 DEF JobInstalled, Settled, GcInv
<1>4. \A v \in running' : RunOK(v)'
  <2> SUFFICES ASSUME NEW v \in running' PROVE RunOK(v)'
    BY Zenon
  <2>1. v \in running /\ v \in Units /\ job'[v] = job[v]
    BY <1>1, Zenon DEF JobInstalled, Inv, JobsOK, NoDanglingJob
  <2> QED BY <2>1, Zenon DEF Settled, RunOK
<1> QED BY <1>2, <1>3, <1>4, Zenon DEF Settled

\* job_install queues the job, or cancels one and wakes those that waited.
LEMMA ApplyJobOrder == Inv /\ OrderInv /\ ApplyJob => Settled'
<1> SUFFICES ASSUME Inv, OrderInv, ApplyJob PROVE Settled'
  BY Zenon
<1>1. Settled /\ calls \in Seq(Frame) /\ calls # <<>> /\ Top.op = "apply"
  BY SettledUnlessPerforming, Zenon DEF Inv, RestTyped, ApplyJob, InHandler
<1>2. ASSUME NEW f \in ApplyFrame, f.op = "apply"
      PROVE  /\ <<f>> \o Tail(calls) \in Seq(Frame) /\ NoPerform(<<f>> \o Tail(calls))
             /\ Woken(calls) \subseteq Woken(<<f>> \o Tail(calls))
  BY <1>1, <1>2, GoOn, Zenon DEF Frame, Settled
<1>3. PICK u \in Units :
         \/ /\ nop' = nop \cup {u} /\ UNCHANGED jobVars
            /\ \E f \in ApplyFrame : f.op = "apply" /\ calls' = <<f>> \o Tail(calls)
         \/ \E f \in ApplyFrame :
              /\ f.op = "apply" /\ UNCHANGED nop
              /\ job_finish_and_invalidate(u, "canceled", FALSE, active[u], <<f>> \o Tail(calls))
         \/ JobInstalled(u)
  BY ApplyJobCases, Zenon
<1>4. UNCHANGED active /\ ratelimited' = ratelimited
  BY Zenon DEF ApplyJob, envVars
<1>5. ASSUME NEW f \in ApplyFrame, f.op = "apply", UNCHANGED jobVars, calls' = <<f>> \o Tail(calls)
      PROVE  Settled'
  BY <1>1, <1>2, <1>4, <1>5, QuietOrder, Zenon DEF Settled
<1>6. ASSUME NEW f \in ApplyFrame, f.op = "apply",
             job_finish_and_invalidate(u, "canceled", FALSE, active[u], <<f>> \o Tail(calls))
      PROVE  Settled'
  BY <1>1, <1>2, <1>4, <1>6, CancelOrder, Zenon
<1>7. CASE JobInstalled(u)
  <2>1. NoPerform(calls') /\ Woken(calls) \subseteq Woken(calls')
    BY <1>2, <1>7, Zenon DEF JobInstalled
  <2> QED BY <1>1, <1>4, <1>7, <2>1, InstallOrder, Zenon
<1> QED BY <1>3, <1>5, <1>6, <1>7, Zenon

\* Canceling all jobs wakes those that are left.
LEMMA ClearStepOrder == Inv /\ OrderInv /\ ClearStep => Settled'
<1> SUFFICES ASSUME Inv, OrderInv, ClearStep PROVE Settled'
  BY Zenon
<1>1. Settled /\ calls \in Seq(Frame) /\ calls # <<>> /\ Top.op = "clear"
  BY SettledUnlessPerforming, Zenon DEF Inv, RestTyped, ClearStep, InHandler
<1>2. UNCHANGED active /\ ratelimited' = ratelimited
  BY Zenon DEF ClearStep, envVars
<1>3. ASSUME NEW u \in Installed, job_finish_and_invalidate(u, "canceled", FALSE, active[u], calls)
      PROVE  Settled'
  <2>1. u \in Units
    BY Zenon DEF Installed
  <2> QED BY <1>1, <1>2, <1>3, <2>1, CancelOrder, Zenon DEF Settled
<1>4. ASSUME NEW u \in nop, FinishNop(u, calls), UNCHANGED jobVars PROVE Settled'
  <2>1. u \in Units
    BY Zenon DEF Inv, RestTyped
  <2> QED BY <1>1, <1>2, <1>4, <2>1, FinishNopOrder, Zenon
<1>5. CASE calls' = Tail(calls) /\ UNCHANGED jobVars
  BY <1>1, <1>2, <1>5, EndOrder, Zenon
<1> QED BY <1>3, <1>4, <1>5, Zenon DEF ClearStep

\* The job that was just made RUNNING is waiting again, on its way or finished.
LEMMA PerformOrder == Inv /\ OrderInv /\ Perform => Settled'
<1> SUFFICES ASSUME Inv, OrderInv, Perform PROVE Settled'
  BY Zenon
<1> DEFINE u == Top.unit
           rest == Tail(calls)
<1>1. ~ Settled
  <2>1. calls \in Seq(Frame) /\ calls # <<>> /\ Top.op = "perform"
    BY Zenon DEF Perform, InHandler, Inv, RestTyped
  <2> QED BY <2>1, Pop, Zenon DEF Settled
<1>2. PICK w \in Units : Performing(w) /\ \A v \in running \ {w} : RunOK(v)
  BY <1>1, Zenon DEF OrderInv
<1>3. WakeInv /\ GcInv
  BY <1>1, Zenon DEF OrderInv
<1>4. u = w /\ rest = <<>>
  BY <1>2 DEF Performing, Top
<1>5. u \in Units /\ (\A v \in running \ {u} : RunOK(v)) /\ active[u] \in UnitActiveState
  BY <1>2, <1>4, Zenon DEF Inv, RestTyped
<1>6. Woken(calls) = {}
  BY <1>2 DEF Performing, Woken
<1>7. rest \in Seq(Frame) /\ NoPerform(rest) /\ Woken(calls) \subseteq Woken(rest)
  <2> HIDE DEF rest
  <2>1. <<>> \in Seq(Frame)
    OBVIOUS
  <2> QED BY <1>4, <1>6, <2>1, EmptyStack, Zenon
<1>8. ratelimited' = ratelimited
  BY Zenon DEF Perform, envVars
<1>9. \/ /\ NotReady(u) /\ running' = running \ {u} /\ calls' = rest
         /\ UNCHANGED <<active, job, irreversible, ignore_order, timer, runq, gcq, dbusq, tracked>>
      \/ JustWaits(u) /\ calls' = rest /\ UNCHANGED <<active, jobVars>>
      \/ \E r \in ImmediateResults(u) :
             job_finish_and_invalidate(u, r, TRUE, active[u], rest) /\ UNCHANGED active
      \/ \E ns \in MethodStates(u), reload_success \in BOOLEAN :
             unit_notify(u, ns, reload_success, rest)
  BY Zenon DEF Perform
<1> HIDE DEF u, rest
<1>10. CASE /\ NotReady(u) /\ running' = running \ {u} /\ calls' = rest
            /\ UNCHANGED <<active, job, irreversible, ignore_order, timer, runq, gcq, dbusq, tracked>>
  <2>1. Installed' = Installed /\ \A v \in Waiting' : v = u \/ v \in Waiting
    BY <1>10, Zenon DEF Installed, Waiting
  <2>2. \A v : (Held(v)' <=> Held(v)) /\ (RunOK(v)' <=> RunOK(v))
    BY <1>8, <1>10, <2>1, ZenonT(30) DEF Held, AwaitsChange, NotYet, Blocks, RunOK
  <2>3. Held(u)
    BY <1>10, Zenon DEF NotReady, Held
  <2>4. WakeInv'
    BY <1>3, <1>7, <1>10, <2>1, <2>2, <2>3, Zenon DEF WakeInv
  <2>5. GcInv'
    BY <1>3, <1>7, <1>10, <2>1, Zenon DEF GcInv
  <2> QED BY <1>5, <1>7, <1>10, <2>2, <2>4, <2>5, Zenon DEF Settled
<1>11. CASE JustWaits(u) /\ calls' = rest /\ UNCHANGED <<active, jobVars>>
  <2>1. RunOK(u)
    BY <1>11, Zenon DEF JustWaits, OnItsWay, RunOK, IsActiveOrReloading, IsInactiveOrFailed
  <2> QED BY <1>3, <1>5, <1>7, <1>8, <1>11, <2>1, QuietOrder, Zenon
<1>12. ASSUME NEW r \in ImmediateResults(u), UNCHANGED active,
              job_finish_and_invalidate(u, r, TRUE, active[u], rest)
       PROVE  Settled'
  <2>1. \A v \in Units \ {u} : active'[v] = active[v]
    BY <1>12, Zenon
  <2> QED BY <1>3, <1>5, <1>7, <1>8, <1>12, <2>1, FinishOrder, Zenon
<1>13. ASSUME NEW ns \in MethodStates(u), NEW reload_success \in BOOLEAN,
              unit_notify(u, ns, reload_success, rest)
       PROVE  Settled'
  <2>1. ns \in UnitActiveState /\ job[u] # "verify"
    BY SetsAssumption, Zenon DEF MethodStates, MethodTargets
  <2> QED BY <1>3, <1>5, <1>7, <1>8, <1>13, <2>1, NotifyOrder, Zenon
<1> QED BY <1>9, <1>10, <1>11, <1>12, <1>13, Zenon

\* The steps of handlers keep the invariant.
LEMMA HandlerStepOrder == Inv /\ OrderInv /\ HandlerStep => OrderInv'
<1>1. ASSUME Inv, OrderInv, NotifyEnd \/ ApplyEnd PROVE Settled'
  <2>1. /\ calls # <<>> /\ Top.op \notin {"finish", "perform"} /\ calls' = Tail(calls)
        /\ UNCHANGED <<active, jobVars>> /\ ratelimited' = ratelimited
    BY <1>1, Zenon DEF NotifyEnd, ApplyEnd, InHandler, envVars
  <2> QED BY <1>1, <2>1, EndOrder, Zenon
<1>2. Settled' => OrderInv'
  BY Zenon DEF OrderInv
<1> QED BY <1>1, <1>2, FailDependencyOrder, AddDependencyJobOrder, TriggerNotifyOrder,
           FinishEndOrder, ApplyFlushOrder, ApplyJobOrder, ClearStepOrder, PerformOrder, ZenonT(30)
        DEF HandlerStep

-----------------------------------------------------------------------------
(* Events.                                                                 *)

\* Nothing is left to be woken between two events.
LEMMA IdleOrder ==
    ASSUME Inv, OrderInv, calls = <<>>
    PROVE  /\ Settled /\ Woken(calls) = {} /\ <<>> \in Seq(Frame)
           /\ NoPerform(<<>>) /\ Woken(calls) \subseteq Woken(<<>>)
<1>1. Settled
  BY SettledUnlessPerforming, Zenon DEF InHandler
<1> QED BY <1>1, EmptyStack

\* A request changes no job yet.
LEMMA RequestOrder == ASSUME Inv, OrderInv, NEW r \in Requests, Request(r) PROVE Settled'
<1>1. calls = <<>> /\ UNCHANGED <<active, jobVars>> /\ ratelimited' = ratelimited
  BY Zenon DEF Request, envVars
<1>2. r.type \in JobType /\ r.unit \in Units /\ r.mode \in JobMode
  BY RequestsAssumption, Zenon
<1>3. PICK tr \in Transactions(r.type, r.unit, r.mode) : calls' = <<Apply(tr, r.unit, r.mode)>>
  BY Zenon DEF Request
<1> DEFINE f == Apply(tr, r.unit, r.mode)
<1>4. f \in Frame /\ f.op # "perform"
  BY <1>2, <1>3, TransactionsTyped, ApplyTyped, ZenonT(30) DEF Frame, Inv, RestTyped, Apply
<1>5. calls' = <<f>>
  BY <1>3, Zenon
<1> HIDE DEF f
<1>6. NoPerform(calls')
  BY <1>4, <1>5 DEF NoPerform
<1>7. Settled /\ Woken(calls) = {}
  BY <1>1, IdleOrder, Zenon
<1> QED BY <1>1, <1>6, <1>7, QuietOrder, Zenon DEF Settled

\* A job taken out of the run queue is run, or is held back.
LEMMA RunJobOrder == ASSUME Inv, OrderInv, NEW u \in Units, RunJob(u) PROVE OrderInv'
<1>1. calls = <<>> /\ runq' = runq \ {u} /\ ratelimited' = ratelimited
      /\ UNCHANGED <<active, job, irreversible, ignore_order, gcq, tracked>>
  BY Zenon DEF RunJob, envVars
<1>2. Settled /\ Woken(calls) = {}
  BY <1>1, IdleOrder, Zenon
<1>3. Installed' = Installed
  BY <1>1, ZenonT(30) DEF Installed
<1>4. \A v : (Held(v)' <=> Held(v)) /\ (RunOK(v)' <=> RunOK(v))
  BY <1>1, <1>3 DEF Held, AwaitsChange, NotYet, Blocks, RunOK
<1>5. CASE u \in Waiting /\ job_is_runnable(u)
  <2>1. /\ running' = running \cup {u} /\ dbusq' = dbusq \cup ({u} \cap Devices)
        /\ calls' = <<[op |-> "perform", unit |-> u]>>
    BY <1>5, Zenon DEF RunJob
  <2>2. Waiting' = Waiting \ {u}
    BY <1>3, <2>1, Zenon DEF Waiting
  <2>3. WakeInv'
    BY <1>1, <1>2, <1>4, <2>2, Zenon DEF Settled, WakeInv
  <2>4. GcInv'
    BY <1>1, <1>2, <1>3, <2>1, Zenon DEF Settled, GcInv
  <2>5. Performing(u)'
    BY <2>1, Zenon DEF Performing
  <2>6. \A v \in running' \ {u} : RunOK(v)'
    BY <1>2, <1>4, <2>1, Zenon DEF Settled
  <2> QED BY <2>3, <2>4, <2>5, <2>6, Zenon DEF OrderInv
<1>6. CASE ~ (u \in Waiting /\ job_is_runnable(u))
  <2>1. UNCHANGED <<timer, running, dbusq, calls>>
    BY <1>6, Zenon DEF RunJob
  <2>2. Waiting' = Waiting
    BY <1>3, <2>1, Zenon DEF Waiting
  <2>3. u \in Waiting => Held(u)
    BY <1>6, Zenon DEF job_is_runnable, Held
  <2>4. WakeInv'
    BY <1>1, <1>2, <1>4, <2>2, <2>3, Zenon DEF Settled, WakeInv
  <2>5. GcInv'
    BY <1>1, <1>2, <1>3, <2>1, Zenon DEF Settled, GcInv
  <2>6. Settled'
    BY <1>2, <1>4, <2>1, <2>4, <2>5, Zenon DEF Settled
  <2> QED BY <2>6, Zenon DEF OrderInv
<1> QED BY <1>5, <1>6, Zenon

\* A unit change ends the job or queues it.
LEMMA UnitChangeOrder == ASSUME Inv, OrderInv, NEW u \in Units, UnitChange(u) PROVE Settled'
<1>1. calls = <<>> /\ ratelimited' = ratelimited
  BY Zenon DEF UnitChange, envVars
<1>2. /\ Settled /\ <<>> \in Seq(Frame) /\ NoPerform(<<>>)
      /\ Woken(calls) \subseteq Woken(<<>>)
  BY <1>1, IdleOrder, Zenon
<1>3. PICK ns \in States, reload_success \in BOOLEAN : unit_notify(u, ns, reload_success, <<>>)
  BY Zenon DEF UnitChange
<1>4. ns \in UnitActiveState /\ (u \in running => job[u] # "verify")
  BY <1>2, SetsAssumption, Zenon DEF Settled, RunOK
<1> QED BY <1>1, <1>2, <1>3, <1>4, NotifyOrder, Zenon DEF Settled

\* Timeouts, clients and the gc end jobs; others are woken.
LEMMA EndJobOrder ==
    ASSUME Inv, OrderInv, NEW u \in Units, NEW result, NEW recursive, EndJob(u, result, recursive)
    PROVE  Settled'
<1>1. /\ calls = <<>> /\ UNCHANGED active /\ ratelimited' = ratelimited
      /\ job_finish_and_invalidate(u, result, recursive, active[u], <<>>)
  BY Zenon DEF EndJob, envVars
<1>2. /\ Settled /\ <<>> \in Seq(Frame) /\ NoPerform(<<>>)
      /\ Woken(calls) \subseteq Woken(<<>>)
  BY <1>1, IdleOrder, Zenon
<1>3. active[u] \in UnitActiveState /\ \A v \in Units \ {u} : active'[v] = active[v]
  BY <1>1, Zenon DEF Inv, RestTyped
<1> QED BY <1>1, <1>2, <1>3, FinishOrder, Zenon DEF Settled

\* The events that change nothing but the queues of device jobs.
LEMMA GcEventsOrder ==
    ASSUME Inv, OrderInv, NEW u \in Units,
           GcJob(u) \/ SendChangeSignal(u) \/ TrackJob(u) \/ bus_job_track_handler(u)
    PROVE  Settled'
<1>1. CASE GcJob(u) /\ job_may_gc(u, dbusq, tracked)
  BY <1>1, EndJobOrder, Zenon DEF GcJob
<1>2. CASE ~ (GcJob(u) /\ job_may_gc(u, dbusq, tracked))
  <2>1. /\ calls = <<>> /\ ratelimited' = ratelimited
        /\ UNCHANGED <<active, job, running, ignore_order, runq, calls>>
    BY <1>2, Zenon DEF GcJob, SendChangeSignal, TrackJob, bus_job_track_handler, envVars
  <2>2. Settled /\ Woken(calls) = {}
    BY <2>1, IdleOrder, Zenon
  <2>3. Installed' = Installed /\ Waiting' = Waiting
    BY <2>1, Zenon DEF Installed, Waiting
  <2>4. \A v : (Held(v)' <=> Held(v)) /\ (RunOK(v)' <=> RunOK(v))
    BY <2>1, <2>3, ZenonT(30) DEF Held, AwaitsChange, NotYet, Blocks, RunOK
  <2>5. WakeInv'
    BY <2>1, <2>2, <2>3, <2>4, Zenon DEF Settled, WakeInv
  <2>6. GcInv'
    <3> SUFFICES ASSUME NEW v \in Installed, v \in Devices, v \notin dbusq' \cup tracked',
                        Around(v) \cap Installed = {}
                 PROVE  v \in gcq'
      BY <2>3, Zenon DEF GcInv
    <3>1. v \notin dbusq \cup tracked => v \in gcq
      BY <2>2, Zenon DEF Settled, GcInv
    <3>2. CASE GcJob(u)
      <4>1. gcq' = gcq \ {u} /\ UNCHANGED <<dbusq, tracked>> /\ ~ job_may_gc(u, dbusq, tracked)
        BY <1>2, <3>2, Zenon DEF GcJob
      <4>2. job_may_gc(v, dbusq, tracked)
        BY <4>1, LonelyMayGc, Zenon
      <4> QED BY <3>1, <4>1, <4>2, Zenon
    <3>3. CASE SendChangeSignal(u)
      <4>1. /\ dbusq' = dbusq \ {u} /\ UNCHANGED tracked
            /\ gcq' = gcq \cup {w \in {u} : job_may_gc(w, dbusq \ {w}, tracked)}
        BY <3>3, Zenon DEF SendChangeSignal
      <4>2. CASE v = u
        <5>1. job_may_gc(v, dbusq \ {v}, tracked)
          BY <4>1, <4>2, LonelyMayGc, Zenon
        <5> QED BY <4>1, <4>2, <5>1, Zenon
      <4>3. CASE v # u
        BY <3>1, <4>1, <4>3, Zenon
      <4> QED BY <4>2, <4>3, Zenon
    <3>4. CASE TrackJob(u)
      BY <3>1, <3>4, Zenon DEF TrackJob
    <3>5. CASE bus_job_track_handler(u)
      <4>1. /\ tracked' = tracked \ {u} /\ UNCHANGED dbusq
            /\ gcq' = gcq \cup {w \in {u} : job_may_gc(w, dbusq, tracked \ {w})}
        BY <3>5, Zenon DEF bus_job_track_handler
      <4>2. CASE v = u
        <5>1. job_may_gc(v, dbusq, tracked \ {v})
          BY <4>1, <4>2, LonelyMayGc, Zenon
        <5> QED BY <4>1, <4>2, <5>1, Zenon
      <4>3. CASE v # u
        BY <3>1, <4>1, <4>3, Zenon
      <4> QED BY <4>2, <4>3, Zenon
    <3> QED BY <3>2, <3>3, <3>4, <3>5, Zenon
  <2> QED BY <2>1, <2>2, <2>4, <2>5, <2>6, Zenon DEF Settled
<1> QED BY <1>1, <1>2, Zenon

\* The automatic queues change no job yet.
LEMMA DispatchAutoOrder ==
    ASSUME Inv, OrderInv, NEW q \in AutoQueue, DispatchAuto(q) PROVE Settled'
<1>1. calls = <<>> /\ UNCHANGED <<active, jobVars>> /\ ratelimited' = ratelimited
  BY Zenon DEF DispatchAuto
<1>2. /\ Settled /\ <<>> \in Seq(Frame) /\ NoPerform(<<>>)
      /\ Woken(calls) \subseteq Woken(<<>>) /\ Woken(calls) = {}
  BY <1>1, IdleOrder, Zenon
<1> DEFINE type == IF q = "upheld" THEN "start" ELSE "stop"
           mode == IF q = "bound" THEN "replace" ELSE "fail"
<1>3. PICK u \in autoq[q] : calls' = calls \/ manager_add_job(type, u, mode, <<>>)
  BY Zenon DEF DispatchAuto
<1>4. u \in Units
  BY Zenon DEF Inv, RestTyped
<1>5. type \in JobType /\ mode \in JobMode
  BY Zenon DEF JobType, TransactionTypes, MergingTypes, JobMode
<1> HIDE DEF type, mode
<1>6. NoPerform(calls')
  BY <1>2, <1>3, <1>4, <1>5, AddJobOrder, Zenon DEF Inv, RestTyped, Settled
<1> QED BY <1>1, <1>2, <1>6, QuietOrder, Zenon DEF Settled

\* The mount ratelimit holds back jobs, and queues them when it expires.
LEMMA RatelimitOrder ==
    ASSUME Inv, OrderInv, MonitorRatelimited \/ mount_on_ratelimit_expire PROVE Settled'
<1>1. /\ calls = <<>> /\ runq \subseteq runq'
      /\ UNCHANGED <<active, job, running, ignore_order, gcq, dbusq, tracked, calls>>
  BY Zenon DEF MonitorRatelimited, mount_on_ratelimit_expire, jobVars
<1>2. Settled /\ Woken(calls) = {}
  BY <1>1, IdleOrder, Zenon
<1>3. Installed' = Installed /\ Waiting' = Waiting
  BY <1>1, Zenon DEF Installed, Waiting
<1>4. \A v : (RunOK(v)' <=> RunOK(v)) /\ (\A w : Blocks(v, w)' <=> Blocks(v, w))
  BY <1>1, Zenon DEF Blocks, RunOK
<1>5. ASSUME NEW v \in Waiting, v \notin runq', AwaitsChange(v) PROVE AwaitsChange(v)'
  <2>1. CASE MonitorRatelimited
    <3>1. ratelimited'
      BY <2>1, Zenon DEF MonitorRatelimited
    <3> QED BY <1>1, <1>5, <3>1, Zenon DEF AwaitsChange, NotYet
  <2>2. CASE mount_on_ratelimit_expire
    <3>1. v \notin Mounts
      BY <1>5, <2>2, Zenon DEF mount_on_ratelimit_expire, Waiting
    <3> QED BY <1>1, <1>5, <3>1, Zenon DEF AwaitsChange, NotYet
  <2> QED BY <2>1, <2>2, Zenon
<1>6. WakeInv'
  BY <1>1, <1>2, <1>3, <1>4, <1>5, Zenon DEF Settled, WakeInv, Held
<1>7. GcInv'
  BY <1>1, <1>2, <1>3, Zenon DEF Settled, GcInv
<1> QED BY <1>1, <1>2, <1>4, <1>6, <1>7, Zenon DEF Settled

\* job_coldplug queues every waiting job.
LEMMA ReloadOrder == Inv /\ OrderInv /\ manager_reload => Settled'
<1> SUFFICES ASSUME Inv, OrderInv, manager_reload PROVE Settled'
  BY Zenon
<1>1. /\ calls = <<>> /\ runq' = Waiting /\ dbusq' = {}
      /\ gcq' = {u \in Installed : job_may_gc(u, {}, tracked)}
      /\ UNCHANGED <<active, job, running, ignore_order, tracked, ratelimited, calls>>
  BY Zenon DEF manager_reload
<1>2. Settled
  BY <1>1, IdleOrder, Zenon
<1>3. Installed' = Installed /\ Waiting' = Waiting
  BY <1>1, Zenon DEF Installed, Waiting
<1>4. \A v : RunOK(v)' <=> RunOK(v)
  BY <1>1, Zenon DEF RunOK
<1>5. WakeInv'
  BY <1>1, <1>3, Zenon DEF WakeInv
<1>6. GcInv'
  <2> SUFFICES ASSUME NEW v \in Installed, v \in Devices, v \notin tracked,
                      Around(v) \cap Installed = {}
               PROVE  v \in gcq'
    BY <1>1, <1>3, Zenon DEF GcInv
  <2>1. job_may_gc(v, {}, tracked)
    BY LonelyMayGc, Zenon
  <2> QED BY <1>1, <2>1, Zenon
<1> QED BY <1>1, <1>2, <1>4, <1>5, <1>6, Zenon DEF Settled

\* A NOP job, a client's request to clear all jobs, a ratelimit that expires:
\* nothing but the stack and the automatic queues changes.
LEMMA StackEventsOrder ==
    ASSUME Inv, OrderInv,
           manager_clear_jobs \/ \E u \in Units : RunNop(u) \/ manager_ratelimit_requeue(u)
    PROVE  Settled'
<1>1. calls = <<>> /\ UNCHANGED <<active, jobVars>> /\ ratelimited' = ratelimited
  BY Zenon DEF manager_clear_jobs, RunNop, manager_ratelimit_requeue, envVars
<1>2. Settled /\ Woken(calls) = {}
  BY <1>1, IdleOrder, Zenon
<1>3. CASE manager_clear_jobs
  <2>1. NoPerform(calls')
    BY <1>3 DEF manager_clear_jobs, NoPerform
  <2> QED BY <1>1, <1>2, <2>1, QuietOrder, Zenon DEF Settled
<1>4. ASSUME NEW u \in Units, RunNop(u) PROVE Settled'
  <2>1. FinishNop(u, calls)
    BY <1>1, <1>4, Zenon DEF RunNop
  <2> QED BY <1>1, <1>2, <2>1, FinishNopOrder, Zenon
<1>5. ASSUME NEW u \in Units, manager_ratelimit_requeue(u) PROVE Settled'
  <2>1. calls' = calls
    BY <1>5, Zenon DEF manager_ratelimit_requeue
  <2> QED BY <1>1, <1>2, <2>1, QuietOrder, Zenon DEF Settled
<1> QED BY <1>3, <1>4, <1>5, Zenon

\* Events keep the invariant.
LEMMA EventOrder == Inv /\ OrderInv /\ Event => OrderInv'
<1> SUFFICES ASSUME Inv, OrderInv, Event PROVE OrderInv'
  BY Zenon
<1>1. Settled' => OrderInv'
  BY Zenon DEF OrderInv
<1>2. CASE \E r \in Requests : Request(r)
  BY <1>1, <1>2, RequestOrder, Zenon
<1>3. ASSUME NEW u \in Units,
             \/ RunJob(u) \/ RunNop(u) \/ UnitChange(u) \/ job_dispatch_timer(u)
             \/ bus_job_method_cancel(u) \/ GcJob(u) \/ SendChangeSignal(u) \/ TrackJob(u)
             \/ bus_job_track_handler(u) \/ manager_ratelimit_requeue(u)
      PROVE  OrderInv'
  BY <1>1, <1>3, RunJobOrder, StackEventsOrder, UnitChangeOrder, EndJobOrder, GcEventsOrder, Zenon
     DEF job_dispatch_timer, bus_job_method_cancel
<1>4. CASE \E q \in AutoQueue : DispatchAuto(q)
  BY <1>1, <1>4, DispatchAutoOrder, Zenon
<1>5. CASE manager_clear_jobs \/ MonitorRatelimited \/ mount_on_ratelimit_expire \/ manager_reload
  BY <1>1, <1>5, StackEventsOrder, RatelimitOrder, ReloadOrder, ZenonT(30)
<1> QED BY <1>2, <1>3, <1>4, <1>5, Zenon DEF Event

-----------------------------------------------------------------------------
\* There is no job to wake at first.
LEMMA InitOrder == Init => OrderInv
<1> SUFFICES ASSUME Init PROVE Settled
  BY Zenon DEF OrderInv
<1>1. Installed = {} /\ Waiting = {}
  BY Zenon DEF Init, Installed, Waiting
<1> QED BY <1>1 DEF Init, Settled, WakeInv, GcInv, NoPerform

\* Steps of others change nothing.
LEMMA StutterOrder == OrderInv /\ UNCHANGED vars => OrderInv'
<1> SUFFICES ASSUME OrderInv, UNCHANGED vars PROVE OrderInv'
  BY Zenon
<1>1. /\ UNCHANGED <<active, job, running, ignore_order, runq, gcq, dbusq, tracked, calls>>
      /\ ratelimited' = ratelimited
  BY Zenon DEF vars, jobVars, envVars
<1>2. Installed' = Installed /\ Waiting' = Waiting
  BY <1>1, Zenon DEF Installed, Waiting
<1>3. \A v : /\ Held(v)' <=> Held(v)
             /\ RunOK(v)' <=> RunOK(v)
             /\ Performing(v)' <=> Performing(v)
  BY <1>1, <1>2, ZenonT(30) DEF Held, AwaitsChange, NotYet, Blocks, RunOK, Performing
<1>4. (WakeInv' <=> WakeInv) /\ (GcInv' <=> GcInv)
  BY <1>1, <1>2, <1>3, Zenon DEF WakeInv, GcInv
<1> QED BY <1>1, <1>3, <1>4, Zenon DEF OrderInv, Settled

\* The invariant behind the theorems below.
THEOREM OrderInvAlways == Spec => []OrderInv
<1>1. Inv /\ OrderInv /\ [Next]_vars => OrderInv'
  BY HandlerStepOrder, EventOrder, StutterOrder, Zenon DEF Next
<1> QED BY <1>1, InitOrder, InvAlways, PTL DEF Spec

\* A RUNNING job's unit is still on its way, which late merges rely on.
THEOREM RunningConsistentAlways == Spec => []RunningConsistent
<1>1. OrderInv => RunningConsistent
  <2> SUFFICES ASSUME OrderInv, NEW u \in running, ~ Performing(u) PROVE RunOK(u)
    BY Zenon DEF RunningConsistent, RunOK, Performing
  <2>1. CASE Settled
    BY <2>1, Zenon DEF Settled
  <2>2. ASSUME NEW w \in Units, Performing(w), \A v \in running \ {w} : RunOK(v) PROVE RunOK(u)
    BY <2>2, Zenon
  <2> QED BY <2>1, <2>2, Zenon DEF OrderInv
<1> QED BY <1>1, OrderInvAlways, PTL

\* No wakeup of a waiting job is lost, however handlers nest: the job that held
\* it back ends with a finish frame that queues it.
THEOREM NoLostWakeupAlways == Spec => []NoLostWakeup
<1>1. Inv /\ OrderInv => NoLostWakeup
  <2> SUFFICES ASSUME Inv, OrderInv, calls = <<>>, NEW u \in Waiting \ runq PROVE Held(u)
    BY Zenon DEF NoLostWakeup, Held
  <2> QED BY IdleOrder, Zenon DEF Settled, WakeInv
<1> QED BY <1>1, InvAlways, OrderInvAlways, PTL

\* No device job is left behind that nobody tracks and nothing waits for.
THEOREM NoLostGcAlways == Spec => []NoLostGc
<1>1. Inv /\ OrderInv => NoLostGc
  <2> SUFFICES ASSUME Inv, OrderInv, calls = <<>>,
                      NEW u \in (Installed \cap Devices) \ (dbusq \cup tracked),
                      Around(u) \cap Installed = {}
               PROVE  u \in gcq
    BY Zenon DEF NoLostGc, Around
  <2> QED BY IdleOrder, Zenon DEF Settled, GcInv
<1> QED BY <1>1, InvAlways, OrderInvAlways, PTL

-----------------------------------------------------------------------------
(* The assertion of job_install.                                           *)

\* Nothing triggers u: no socket, path, timer or automount unit.
Untriggered(u) == Dep(u, "TriggeredBy") = {}

\* job_install is canceling the job of such a unit on behalf of frame f.
Cancels(f) == f.op = "apply" /\ \E u \in f.canceled : Untriggered(u)

NoCancel(s) == \A i \in DOMAIN s : ~ Cancels(s[i])

\* job_install goes on, and finds no job on it.
Goes(f) == f.op = "apply" /\ f.flush = {} /\ \A u \in f.canceled : Untriggered(u) => job[u] = "none"

\* A finish frame that has only the jobs ordered around the unit left to wake.
Bare(f) == f.op = "finish" /\ f.fail = {} /\ f.adds = {} /\ f.trigger = {}

\* While job_install cancels such a job, nothing comes between the two.
CancelInv ==
    \/ NoCancel(calls)
    \/ calls # <<>> /\ Goes(Top) /\ NoCancel(Tail(calls))
    \/ /\ calls # <<>> /\ Tail(calls) # <<>> /\ Bare(Top)
       /\ Goes(Head(Tail(calls))) /\ NoCancel(Tail(Tail(calls)))

\* Pushing a frame that cancels nothing,
LEMMA PushNoCancel ==
    ASSUME NEW f \in Frame, ~ Cancels(f), NEW s \in Seq(Frame), NoCancel(s)
    PROVE  NoCancel(<<f>> \o s)
<1> DEFINE c == <<f>> \o s
<1>1. /\ DOMAIN c = 1 .. Len(s) + 1 /\ DOMAIN s = 1 .. Len(s) /\ Len(s) \in Nat /\ c[1] = f
      /\ \A i \in 2 .. Len(s) + 1 : c[i] = s[i - 1]
  OBVIOUS
<1> HIDE DEF c
<1> SUFFICES ASSUME NEW i \in DOMAIN c PROVE ~ Cancels(c[i])
  BY Zenon DEF NoCancel, c
<1>2. CASE i = 1
  BY <1>1, <1>2, Zenon
<1>3. CASE i # 1
  <2>1. i \in 2 .. Len(s) + 1 /\ i - 1 \in DOMAIN s
    BY <1>1, <1>3
  <2>2. c[i] = s[i - 1]
    BY <1>1, <2>1, Zenon
  <2> QED BY <2>1, <2>2, Zenon DEF NoCancel
<1> QED BY <1>2, <1>3, Zenon

\* and popping one, leave nothing to cancel.
LEMMA PopNoCancel ==
    ASSUME calls \in Seq(Frame), calls # <<>>, NoCancel(calls)
    PROVE  NoCancel(Tail(calls)) /\ ~ Cancels(Top) /\ Tail(calls) \in Seq(Frame)
<1> DEFINE s == Tail(calls)
<1>1. /\ s \in Seq(Frame) /\ DOMAIN s = 1 .. Len(s) /\ Len(s) \in Nat /\ DOMAIN calls = 1 .. Len(s) + 1
      /\ calls[1] = Top /\ \A i \in 1 .. Len(s) : calls[i + 1] = s[i]
  BY DEF Top
<1> HIDE DEF s
<1>2. ~ Cancels(Top)
  <2>1. 1 \in DOMAIN calls
    BY <1>1
  <2> QED BY <1>1, <2>1, Zenon DEF NoCancel
<1>3. NoCancel(s)
  <2> SUFFICES ASSUME NEW i \in DOMAIN s PROVE ~ Cancels(s[i])
    BY Zenon DEF NoCancel
  <2>1. i + 1 \in DOMAIN calls
    BY <1>1
  <2>2. calls[i + 1] = s[i]
    BY <1>1, Zenon
  <2> QED BY <2>1, <2>2, Zenon DEF NoCancel
<1> QED BY <1>1, <1>2, <1>3, Zenon DEF s

\* Loop frames cancel nothing.
LEMMA LoopNoCancel == ASSUME NEW f \in LoopFrame PROVE f \in Frame /\ ~ Cancels(f)
<1>1. f.op # "apply"
  BY DEF LoopFrame
<1> QED BY <1>1, Zenon DEF Frame, Cancels

\* The calls that push frames: the end of a job,
LEMMA FinishNoCancel ==
    ASSUME NEW u \in Units, NEW s \in UnitActiveState, NEW result, NEW recursive,
           NEW rest \in Seq(Frame), NoCancel(rest),
           job_finish_and_invalidate(u, result, recursive, s, rest)
    PROVE  NoCancel(calls')
<1> DEFINE a == RestartFrame(u, s)
           b == FinishFrame(u, job[u], result, recursive, s)
<1>1. calls' = <<a>> \o rest \/ calls' = <<b>> \o rest
  BY Zenon DEF job_finish_and_invalidate
<1>2. a \in LoopFrame
  BY FinishFrameTyped, Zenon
<1>3. b \in LoopFrame
  BY FinishFrameTyped, Zenon
<1> HIDE DEF a, b
<1> QED BY <1>1, <1>2, <1>3, LoopNoCancel, PushNoCancel, Zenon

\* ... of a NOP job,
LEMMA NopNoCancel ==
    ASSUME Inv, NEW u \in Units, NEW rest \in Seq(Frame), NoCancel(rest), FinishNop(u, rest)
    PROVE  NoCancel(calls')
<1> DEFINE b == FinishFrame(u, "nop", "done", FALSE, active[u])
<1>1. calls' = <<b>> \o rest
  BY Zenon DEF FinishNop
<1>2. active[u] \in UnitActiveState
  BY Zenon DEF Inv, RestTyped
<1>3. b \in LoopFrame
  BY <1>2, FinishFrameTyped, Zenon
<1> HIDE DEF b
<1> QED BY <1>1, <1>3, LoopNoCancel, PushNoCancel, Zenon

\* a change of a unit's state,
LEMMA NotifyNoCancel ==
    ASSUME NEW u \in Units, NEW ns \in UnitActiveState, NEW reload_success,
           NEW rest \in Seq(Frame), NoCancel(rest), unit_notify(u, ns, reload_success, rest)
    PROVE  NoCancel(calls')
<1> DEFINE f == NotifyFrame(u, ns)
           more == <<f>> \o rest
<1>1. \/ calls' = more
      \/ \E outcome : job_finish_and_invalidate(u, outcome, TRUE, ns, more)
  BY Zenon DEF unit_notify
<1>2. f \in LoopFrame
  BY NotifyFrameTyped, Zenon
<1> HIDE DEF f
<1>3. NoCancel(more)
  BY <1>2, LoopNoCancel, PushNoCancel, Zenon
<1>4. more \in Seq(Frame)
  BY <1>2, LoopNoCancel, PushTyped, Zenon
<1> HIDE DEF more
<1> QED BY <1>1, <1>3, <1>4, FinishNoCancel, Zenon

\* a new transaction.
LEMMA AddJobNoCancel ==
    ASSUME active \in [Units -> UnitActiveState], NEW type \in JobType, NEW u \in Units,
           NEW mode \in JobMode, NEW rest \in Seq(Frame), NoCancel(rest),
           manager_add_job(type, u, mode, rest)
    PROVE  NoCancel(calls')
<1>1. ASSUME NEW tr \in Transactions(type, u, mode), calls' = <<Apply(tr, u, mode)>> \o rest
      PROVE  NoCancel(calls')
  <2>1. Apply(tr, u, mode) \in Frame
    BY TransactionsTyped, ApplyTyped, Zenon DEF Frame
  <2>2. ~ Cancels(Apply(tr, u, mode))
    BY Zenon DEF Apply, Cancels
  <2> QED BY <1>1, <2>1, <2>2, PushNoCancel, Zenon
<1> QED BY <1>1, Zenon DEF manager_add_job

\* The steps of loops: they go on with their frame, and push others.
LEMMA LoopStepNoCancel ==
    ASSUME Inv, NoCancel(calls), FailDependency \/ AddDependencyJob \/ TriggerNotify
    PROVE  NoCancel(calls')
<1>1. calls \in Seq(Frame) /\ calls # <<>> /\ Top \in LoopFrame
  BY TopTyped, Zenon DEF Inv, RestTyped, FailDependency, AddDependencyJob, TriggerNotify, InHandler
<1>2. NoCancel(Tail(calls)) /\ Tail(calls) \in Seq(Frame)
  BY <1>1, PopNoCancel, Zenon
<1>3. ASSUME NEW f \in LoopFrame PROVE NoCancel(<<f>> \o Tail(calls)) /\ <<f>> \o Tail(calls) \in Seq(Frame)
  BY <1>2, LoopNoCancel, PushNoCancel, PushTyped, Zenon
<1>4. CASE FailDependency
  <2>1. PICK o \in Top.fail :
          LET rest == <<[Top EXCEPT !.fail = @ \ {o}]>> \o Tail(calls)
          IN \/ job_finish_and_invalidate(o, "dependency", TRUE, active[o], rest)
             \/ calls' = rest
    BY <1>4, Zenon DEF FailDependency
  <2> DEFINE f == [Top EXCEPT !.fail = @ \ {o}]
             rest == <<f>> \o Tail(calls)
  <2>2. o \in Units /\ f \in LoopFrame
    BY <1>1, LoopFrameGoesOn, Zenon DEF LoopFrame
  <2>3. job_finish_and_invalidate(o, "dependency", TRUE, active[o], rest) \/ calls' = rest
    BY <2>1, Zenon
  <2> HIDE DEF f
  <2>4. NoCancel(rest) /\ rest \in Seq(Frame)
    BY <1>3, <2>2, Zenon
  <2>5. active[o] \in UnitActiveState
    BY <2>2, Zenon DEF Inv, RestTyped
  <2> HIDE DEF rest
  <2> QED BY <2>2, <2>3, <2>4, <2>5, FinishNoCancel, Zenon
<1>5. CASE AddDependencyJob
  <2>1. PICK a \in Top.adds :
          LET rest == <<[Top EXCEPT !.adds = @ \ {a}]>> \o Tail(calls)
          IN \/ calls' = rest
             \/ manager_add_job(IF a[1] = "stop" THEN "stop" ELSE "start", a[2],
                                IF a[1] \in {"start-fail", "on-success"} THEN "fail" ELSE "replace", rest)
    BY <1>5, Zenon DEF AddDependencyJob
  <2> DEFINE f == [Top EXCEPT !.adds = @ \ {a}]
             rest == <<f>> \o Tail(calls)
             type == IF a[1] = "stop" THEN "stop" ELSE "start"
             mode == IF a[1] \in {"start-fail", "on-success"} THEN "fail" ELSE "replace"
  <2>2. a[2] \in Units /\ f \in LoopFrame
    BY <1>1, LoopFrameGoesOn, Zenon DEF LoopFrame
  <2>3. type \in JobType /\ mode \in JobMode
    BY Zenon DEF JobType, TransactionTypes, MergingTypes, JobMode
  <2>4. calls' = rest \/ manager_add_job(type, a[2], mode, rest)
    BY <2>1, Zenon
  <2> HIDE DEF f, type, mode
  <2>5. NoCancel(rest) /\ rest \in Seq(Frame)
    BY <1>3, <2>2, Zenon
  <2> HIDE DEF rest
  <2> QED BY <2>2, <2>3, <2>4, <2>5, AddJobNoCancel, Zenon DEF Inv, RestTyped
<1>6. CASE TriggerNotify
  <2>1. PICK o \in Top.trigger :
          LET rest == <<[Top EXCEPT !.trigger = @ \ {o}]>> \o Tail(calls)
          IN calls' = rest \/ \E ns \in TriggerStates : unit_notify(o, ns, TRUE, rest)
    BY <1>6, Zenon DEF TriggerNotify
  <2> DEFINE f == [Top EXCEPT !.trigger = @ \ {o}]
             rest == <<f>> \o Tail(calls)
  <2>2. o \in Units /\ f \in LoopFrame
    BY <1>1, LoopFrameGoesOn, Zenon DEF LoopFrame
  <2>3. calls' = rest \/ \E ns \in TriggerStates : unit_notify(o, ns, TRUE, rest)
    BY <2>1, Zenon
  <2> HIDE DEF f
  <2>4. NoCancel(rest) /\ rest \in Seq(Frame)
    BY <1>3, <2>2, Zenon
  <2> HIDE DEF rest
  <2>5. TriggerStates \subseteq UnitActiveState
    BY Zenon DEF TriggerStates, UnitActiveState
  <2> QED BY <2>2, <2>3, <2>4, <2>5, NotifyNoCancel, Zenon
<1> QED BY <1>4, <1>5, <1>6, Zenon

\* The other steps of handlers but job_install.
LEMMA OtherStepNoCancel ==
    ASSUME Inv, NoCancel(calls), FinishEnd \/ NotifyEnd \/ ApplyFlush \/ ApplyEnd \/ ClearStep \/ Perform
    PROVE  NoCancel(calls')
<1>1. calls \in Seq(Frame) /\ calls # <<>>
  BY Zenon DEF Inv, RestTyped, FinishEnd, NotifyEnd, ApplyFlush, ApplyEnd, ClearStep, Perform, InHandler
<1>2. NoCancel(Tail(calls)) /\ Tail(calls) \in Seq(Frame) /\ ~ Cancels(Top)
  BY <1>1, PopNoCancel, Zenon
<1>3. \A u \in Units : active[u] \in UnitActiveState
  BY Zenon DEF Inv, RestTyped
<1>4. CASE FinishEnd \/ NotifyEnd \/ ApplyEnd
  BY <1>2, <1>4, Zenon DEF FinishEnd, NotifyEnd, ApplyEnd
<1>5. CASE ApplyFlush
  <2>1. Top \in ApplyFrame
    BY <1>5, TopTyped, Zenon DEF Inv, RestTyped, ApplyFlush, InHandler
  <2>2. PICK u \in Top.flush :
          \/ job_finish_and_invalidate(u, "canceled", FALSE, active[u], calls)
          \/ FinishNop(u, calls)
          \/ calls' = <<[Top EXCEPT !.flush = @ \ {u}]>> \o Tail(calls)
    BY <1>5, Zenon DEF ApplyFlush
  <2> DEFINE f == [Top EXCEPT !.flush = @ \ {u}]
  <2>3. u \in Units
    BY <2>1, Zenon DEF ApplyFrame
  <2>4. f \in ApplyFrame
    BY <2>1, <2>3, ApplyFrameGoesOn, Zenon
  <2>5. f.op = Top.op /\ f.canceled = Top.canceled
    BY <2>1, Zenon DEF ApplyFrame
  <2> HIDE DEF f
  <2>6. f \in Frame /\ ~ Cancels(f)
    BY <1>2, <2>4, <2>5, Zenon DEF Frame, Cancels
  <2>7. NoCancel(<<f>> \o Tail(calls))
    BY <1>2, <2>6, PushNoCancel, Zenon
  <2> QED BY <1>1, <1>3, <2>2, <2>3, <2>7, FinishNoCancel, NopNoCancel, ZenonT(30) DEF f
<1>6. CASE ClearStep
  <2>1. \/ \E u \in Installed : job_finish_and_invalidate(u, "canceled", FALSE, active[u], calls)
        \/ \E u \in nop : FinishNop(u, calls)
        \/ calls' = Tail(calls)
    BY <1>6, Zenon DEF ClearStep
  <2>2. Installed \subseteq Units /\ nop \subseteq Units
    BY Zenon DEF Installed, Inv, RestTyped
  <2> QED BY <1>1, <1>2, <1>3, <2>1, <2>2, FinishNoCancel, NopNoCancel, Zenon
<1>7. CASE Perform
  <2> DEFINE u == Top.unit
  <2>1. u \in Units
    BY <1>1, <1>7, TopTyped DEF Perform, InHandler, PerformFrame
  <2>2. \/ calls' = Tail(calls)
        \/ \E r : job_finish_and_invalidate(u, r, TRUE, active[u], Tail(calls))
        \/ \E ns \in MethodStates(u), reload_success \in BOOLEAN : unit_notify(u, ns, reload_success, Tail(calls))
    BY <1>7, Zenon DEF Perform
  <2> HIDE DEF u
  <2>3. MethodStates(u) \subseteq UnitActiveState
    BY SetsAssumption, Zenon DEF MethodStates
  <2> QED BY <1>2, <1>3, <2>1, <2>2, <2>3, FinishNoCancel, NotifyNoCancel, ZenonT(30)
<1> QED BY <1>4, <1>5, <1>6, <1>7, Zenon

\* job_install has the job canceled, and goes on once that is done.
LEMMA ApplyJobCancels ==
    ASSUME Inv, ApplyJob, NoCancel(Tail(calls)), ~ Cancels(Top) \/ Goes(Top)
    PROVE  CancelInv'
<1> DEFINE s == Tail(calls)
<1>1. Top \in ApplyFrame /\ s \in Seq(Frame) /\ Top.flush = {} /\ Top.op = "apply"
  BY TopTyped, Zenon DEF Inv, RestTyped, ApplyJob, InHandler
<1>2. PICK u \in Units :
         \/ calls' = <<[Top EXCEPT !.jobs[u] = "none"]>> \o Tail(calls) /\ UNCHANGED jobVars
         \/ job_finish_and_invalidate(u, "canceled", FALSE, active[u], <<[Top EXCEPT !.canceled = {u}]>> \o Tail(calls))
         \/ calls' = <<[Top EXCEPT !.jobs[u] = "none", !.canceled = {}]>> \o Tail(calls)
  BY Zenon DEF ApplyJob
<1> DEFINE f == [Top EXCEPT !.jobs[u] = "none"]
           g == [Top EXCEPT !.canceled = {u}]
           h == [Top EXCEPT !.jobs[u] = "none", !.canceled = {}]
<1>3. f \in ApplyFrame /\ g \in ApplyFrame /\ h \in ApplyFrame
  BY <1>1, ApplyFrameGoesOn, Zenon
<1>4. /\ f.op = "apply" /\ f.flush = {} /\ f.canceled = Top.canceled
      /\ g.op = "apply" /\ g.flush = {} /\ g.canceled = {u} /\ h.canceled = {}
  BY <1>1, Zenon DEF ApplyFrame
<1>5. \/ calls' = <<f>> \o s /\ UNCHANGED jobVars
      \/ job_finish_and_invalidate(u, "canceled", FALSE, active[u], <<g>> \o s)
      \/ calls' = <<h>> \o s
  BY <1>2, Zenon
<1> HIDE DEF f, g, h
<1>6. f \in Frame /\ g \in Frame /\ h \in Frame
  BY <1>3, Zenon DEF Frame
<1>7. NoCancel(s)
  BY Zenon
<1> HIDE DEF s
<1>8. ASSUME NEW x \in Frame, calls' = <<x>> \o s, ~ Cancels(x) PROVE CancelInv'
  BY <1>1, <1>7, <1>8, PushNoCancel, Zenon DEF CancelInv
<1>9. CASE calls' = <<f>> \o s /\ UNCHANGED jobVars
  <2>1. CASE ~ Cancels(Top)
    BY <1>1, <1>4, <1>6, <1>8, <1>9, <2>1, Zenon DEF Cancels
  <2>2. CASE Goes(Top)
    <3>1. calls' # <<>> /\ Top' = f /\ Tail(calls') = s
      BY <1>1, <1>6, <1>9, PushTyped, Zenon DEF Top
    <3>2. job' = job
      BY <1>9, Zenon DEF jobVars
    <3>3. Goes(Top)'
      BY <1>4, <2>2, <3>1, <3>2, Zenon DEF Goes
    <3> QED BY <1>7, <3>1, <3>3, Zenon DEF CancelInv
  <2> QED BY <2>1, <2>2, Zenon
<1>10. CASE job_finish_and_invalidate(u, "canceled", FALSE, active[u], <<g>> \o s)
  <2> DEFINE b == FinishFrame(u, job[u], "canceled", FALSE, active[u])
  <2>1. calls' = <<b>> \o (<<g>> \o s) /\ job' = [job EXCEPT ![u] = "none"]
    BY <1>10, Zenon DEF job_finish_and_invalidate
  <2>2. active[u] \in UnitActiveState /\ job'[u] = "none"
    BY <2>1, Zenon DEF Inv, RestTyped, JobsOK
  <2>3. b \in LoopFrame
    BY <2>2, FinishFrameTyped, Zenon
  <2>4. b.op = "finish" /\ b.fail = {} /\ b.adds = {} /\ b.trigger = Dep(u, "TriggeredBy")
    BY Zenon DEF FinishFrame
  <2> HIDE DEF b
  <2>5. b \in Frame /\ ~ Cancels(b)
    BY <2>3, LoopNoCancel, Zenon
  <2> DEFINE c == <<g>> \o s
  <2>6. c \in Seq(Frame) /\ c # <<>> /\ Head(c) = g /\ Tail(c) = s
    BY <1>1, <1>6, PushTyped, Zenon
  <2>7. calls' = <<b>> \o c
    BY <2>1, Zenon
  <2>8. CASE Untriggered(u)
    <3> HIDE DEF c
    <3>1. calls' # <<>> /\ Top' = b /\ Tail(calls') = c
      BY <2>5, <2>6, <2>7, PushTyped, Zenon DEF Top
    <3>2. Bare(b)
      BY <2>4, <2>8, Zenon DEF Bare, Untriggered
    <3>3. \A v \in g.canceled : job'[v] = "none"
      BY <1>4, <2>2, Zenon
    <3>4. Bare(Top)' /\ Head(Tail(calls')) = g /\ Tail(Tail(calls')) = s /\ Tail(calls') # <<>>
      BY <2>6, <3>1, <3>2, Zenon DEF Bare
    <3>5. Goes(Head(Tail(calls)))'
      BY <1>4, <3>3, <3>4, Zenon DEF Goes
    <3> QED BY <1>7, <3>1, <3>4, <3>5, Zenon DEF CancelInv
  <2>9. CASE ~ Untriggered(u)
    <3>1. ~ Cancels(g)
      BY <1>4, <2>9, Zenon DEF Cancels
    <3>2. NoCancel(c)
      BY <1>1, <1>6, <1>7, <3>1, PushNoCancel, ZenonT(30)
    <3> HIDE DEF c
    <3>3. NoCancel(<<b>> \o c)
      BY <2>5, <2>6, <3>2, PushNoCancel, Zenon
    <3> QED BY <2>7, <3>3, Zenon DEF CancelInv
  <2> QED BY <2>8, <2>9, Zenon
<1>11. CASE calls' = <<h>> \o s
  <2>1. ~ Cancels(h)
    BY <1>4, Zenon DEF Cancels
  <2> QED BY <1>6, <1>8, <1>11, <2>1, Zenon
<1> QED BY <1>5, <1>9, <1>10, <1>11, Zenon

\* No handler comes in between.
LEMMA HandlerCancels == ASSUME Inv, CancelInv, HandlerStep PROVE CancelInv'
<1>1. calls \in Seq(Frame)
  BY Zenon DEF Inv, RestTyped
<1>2. NoCancel(calls') => CancelInv'
  BY Zenon DEF CancelInv
<1>3. CASE NoCancel(calls)
  <2>1. CASE ApplyJob
    <3>1. calls # <<>>
      BY <2>1, Zenon DEF ApplyJob, InHandler
    <3> QED BY <1>1, <1>3, <2>1, <3>1, PopNoCancel, ApplyJobCancels, ZenonT(30)
  <2> QED BY <1>2, <1>3, <2>1, LoopStepNoCancel, OtherStepNoCancel, Zenon DEF HandlerStep
<1>4. CASE calls # <<>> /\ Goes(Top) /\ NoCancel(Tail(calls))
  <2>1. Top.op = "apply" /\ Top.flush = {}
    BY <1>4, Zenon DEF Goes
  <2>2. ApplyJob \/ ApplyEnd
    BY <2>1, Zenon DEF HandlerStep, FailDependency, AddDependencyJob, TriggerNotify, FinishEnd, NotifyEnd,
                       ApplyFlush, ClearStep, Perform, InHandler
  <2>3. CASE ApplyJob
    BY <1>4, <2>3, ApplyJobCancels, Zenon
  <2>4. CASE ApplyEnd
    BY <1>2, <1>4, <2>4, Zenon DEF ApplyEnd
  <2> QED BY <2>2, <2>3, <2>4, Zenon
<1>5. CASE /\ calls # <<>> /\ Tail(calls) # <<>> /\ Bare(Top)
           /\ Goes(Head(Tail(calls))) /\ NoCancel(Tail(Tail(calls)))
  <2>1. Top.op = "finish" /\ Top.fail = {} /\ Top.adds = {} /\ Top.trigger = {}
    BY <1>5, Zenon DEF Bare
  <2>2. FinishEnd
    BY <2>1, Zenon DEF HandlerStep, FailDependency, AddDependencyJob, TriggerNotify, NotifyEnd,
                       ApplyFlush, ApplyJob, ApplyEnd, ClearStep, Perform, InHandler
  <2>3. calls' = Tail(calls) /\ job' = job
    BY <2>2, Zenon DEF FinishEnd
  <2>4. calls' # <<>> /\ Top' = Head(Tail(calls)) /\ Tail(calls') = Tail(Tail(calls))
    BY <1>5, <2>3, Zenon DEF Top
  <2>5. Goes(Top)'
    BY <1>5, <2>3, <2>4, Zenon DEF Goes
  <2> QED BY <1>5, <2>4, <2>5, Zenon DEF CancelInv
<1> QED BY <1>3, <1>4, <1>5, Zenon DEF CancelInv

\* Events begin with an empty stack.
LEMMA EventCancels == ASSUME Inv, Event PROVE NoCancel(calls')
<1>1. calls = <<>> /\ <<>> \in Seq(Frame) /\ NoCancel(<<>>)
  <2>1. calls = <<>>
    BY Zenon DEF Event, Request, RunJob, RunNop, UnitChange, job_dispatch_timer, bus_job_method_cancel, EndJob, GcJob,
                 SendChangeSignal, TrackJob, bus_job_track_handler, manager_ratelimit_requeue, DispatchAuto,
                 manager_clear_jobs, MonitorRatelimited, mount_on_ratelimit_expire, manager_reload
  <2>2. <<>> \in Seq(Frame) /\ NoCancel(<<>>)
    BY DEF NoCancel
  <2> QED BY <2>1, <2>2, Zenon
<1>2. active \in [Units -> UnitActiveState] /\ \A u \in Units : active[u] \in UnitActiveState
  BY Zenon DEF Inv, RestTyped
<1>3. ASSUME NEW r \in Requests, Request(r) PROVE NoCancel(calls')
  <2>1. r.type \in JobType /\ r.unit \in Units /\ r.mode \in JobMode
    BY RequestsAssumption, Zenon
  <2>2. PICK tr \in Transactions(r.type, r.unit, r.mode) : calls' = <<Apply(tr, r.unit, r.mode)>>
    BY <1>3, Zenon DEF Request
  <2> DEFINE f == Apply(tr, r.unit, r.mode)
  <2>3. f \in Frame /\ ~ Cancels(f)
    BY <1>2, <2>1, <2>2, TransactionsTyped, ApplyTyped, Zenon DEF Frame, Apply, Cancels
  <2>4. calls' = <<f>>
    BY <2>2, Zenon
  <2> HIDE DEF f
  <2> QED BY <2>3, <2>4 DEF NoCancel
<1>4. ASSUME NEW u \in Units, NEW result, NEW recursive, EndJob(u, result, recursive) PROVE NoCancel(calls')
  BY <1>1, <1>2, <1>4, FinishNoCancel, Zenon DEF EndJob
<1>5. ASSUME NEW u \in Units, RunJob(u) PROVE NoCancel(calls')
  <2> DEFINE f == [op |-> "perform", unit |-> u]
  <2>1. ~ Cancels(f)
    BY Zenon DEF Cancels
  <2>2. calls' = calls \/ calls' = <<f>>
    BY <1>5, Zenon DEF RunJob
  <2> HIDE DEF f
  <2>3. CASE calls' = <<f>>
    BY <2>1, <2>3 DEF NoCancel
  <2> QED BY <1>1, <2>2, <2>3, Zenon
<1>6. ASSUME NEW u \in Units, RunNop(u) \/ UnitChange(u) PROVE NoCancel(calls')
  BY <1>1, <1>2, <1>6, SetsAssumption, NopNoCancel, NotifyNoCancel, Zenon DEF RunNop, UnitChange
<1>7. ASSUME NEW u \in Units, GcJob(u) PROVE NoCancel(calls')
  BY <1>1, <1>4, <1>7, Zenon DEF GcJob
<1>8. ASSUME NEW q \in AutoQueue, DispatchAuto(q) PROVE NoCancel(calls')
  <2>1. PICK u \in autoq[q] :
          calls' = calls \/ manager_add_job(IF q = "upheld" THEN "start" ELSE "stop", u,
                                            IF q = "bound" THEN "replace" ELSE "fail", <<>>)
    BY <1>8, Zenon DEF DispatchAuto
  <2> DEFINE type == IF q = "upheld" THEN "start" ELSE "stop"
             mode == IF q = "bound" THEN "replace" ELSE "fail"
  <2>2. u \in Units
    BY <1>8, Zenon DEF Inv, RestTyped
  <2>3. type \in JobType /\ mode \in JobMode
    BY Zenon DEF JobType, TransactionTypes, MergingTypes, JobMode
  <2>4. calls' = calls \/ manager_add_job(type, u, mode, <<>>)
    BY <2>1, Zenon
  <2> HIDE DEF type, mode
  <2> QED BY <1>1, <1>2, <2>2, <2>3, <2>4, AddJobNoCancel, ZenonT(30)
<1>9. CASE manager_clear_jobs
  <2> DEFINE f == [op |-> "clear"]
  <2>1. ~ Cancels(f) /\ calls' = <<f>>
    BY <1>9, Zenon DEF Cancels, manager_clear_jobs
  <2> HIDE DEF f
  <2> QED BY <2>1 DEF NoCancel
<1>10. CASE \/ MonitorRatelimited \/ mount_on_ratelimit_expire \/ manager_reload
            \/ \E u \in Units : \/ SendChangeSignal(u) \/ TrackJob(u) \/ bus_job_track_handler(u)
                                \/ manager_ratelimit_requeue(u)
  BY <1>1, <1>10, Zenon DEF MonitorRatelimited, mount_on_ratelimit_expire, manager_reload, SendChangeSignal, TrackJob,
                            bus_job_track_handler, manager_ratelimit_requeue
<1> QED BY <1>3, <1>4, <1>5, <1>6, <1>7, <1>8, <1>9, <1>10, ZenonT(30) DEF Event, job_dispatch_timer, bus_job_method_cancel

\* The invariant behind the next theorem.
THEOREM CancelInvAlways == Spec => []CancelInv
<1>1. Init => CancelInv
  BY DEF Init, CancelInv, NoCancel
<1>2. Inv /\ CancelInv /\ [Next]_vars => CancelInv'
  <2> SUFFICES ASSUME Inv, CancelInv, [Next]_vars PROVE CancelInv'
    BY Zenon
  <2>1. CASE UNCHANGED vars
    <3>1. calls' = calls /\ job' = job
      BY <2>1, Zenon DEF vars, jobVars
    <3> QED BY <3>1, Zenon DEF CancelInv, Top, Bare, Goes
  <2>2. CASE Event
    BY <2>2, EventCancels, Zenon DEF CancelInv
  <2> QED BY <2>1, <2>2, HandlerCancels, Zenon DEF Next
<1> QED BY <1>1, <1>2, InvAlways, PTL DEF Spec

\* The assertion of job_install holds if no unit triggers another
\* (InstallAssertion): with result "canceled" and recursive = false,
\* job_finish_and_invalidate fails no dependencies and starts no OnFailure=
\* units, and what is left to run before job_install goes on are the
\* trigger_notify methods.  More than that, it can fail only on a unit that is
\* itself triggered.
THEOREM InstallAssertionUntriggered ==
    Spec => [](/\ (\A u \in Units : Untriggered(u)) => InstallAssertion
               /\ InHandler("apply") => \A u \in Top.canceled : Untriggered(u) => job[u] = "none")
<1>1. Inv /\ CancelInv /\ InHandler("apply") => \A u \in Top.canceled : Untriggered(u) => job[u] = "none"
  <2> SUFFICES ASSUME Inv, CancelInv, InHandler("apply"), NEW u \in Top.canceled, Untriggered(u) PROVE job[u] = "none"
    BY Zenon
  <2>1. calls \in Seq(Frame) /\ calls # <<>> /\ Top.op = "apply"
    BY Zenon DEF Inv, RestTyped, InHandler
  <2>2. CASE NoCancel(calls)
    BY <2>1, <2>2, PopNoCancel, Zenon DEF Cancels
  <2> QED BY <2>1, <2>2, Zenon DEF CancelInv, Goes, Bare
<1>2. Inv /\ InHandler("apply") => Top.canceled \subseteq Units
  BY TopTyped, Zenon DEF Inv, RestTyped, InHandler, ApplyFrame
<1>3. Inv /\ CancelInv /\ (\A u \in Units : Untriggered(u)) => InstallAssertion
  BY <1>1, <1>2, Zenon DEF InstallAssertion
<1> QED BY <1>1, <1>3, InvAlways, CancelInvAlways, PTL

=============================================================================
