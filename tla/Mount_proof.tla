----------------------------- MODULE Mount_proof ----------------------------
(***************************************************************************)
(* The safety properties of a mount unit, for any unit files, any number   *)
(* of tries and of mounts on top of each other.  Good(w) says what holds   *)
(* of the Mount object whenever PID 1 waits for an event: it has a helper  *)
(* and a timer just in the states that wait for one (Sound), and its state *)
(* agrees with what was last read from the kernel's table (Agrees).  The   *)
(* latter is stronger than MirrorsKernel: of the two states of a mount in  *)
(* progress, too, each belongs to one content of the table.                *)
(*                                                                         *)
(* The second part shows that the mount implements UnitContract, the third *)
(* that its fields have their types.                                       *)
(***************************************************************************)
EXTENDS MountContract, TLAPS

\* The fields of a Mount object.
Fields == {"state", "result", "reload_result", "n_retry_umount", "from_proc_self_mountinfo",
           "invalidated_state", "control", "timer", "job", "run", "notified", "tick", "armed", "moved",
           "aborted"}

\* The object while a function is at work on it.
Busy(w) ==
    /\ w = [k \in Fields |-> w[k]]
    /\ ~ w.aborted /\ w.from_proc_self_mountinfo \in BOOLEAN

\* A helper goes with the state, and a timer with the helper.
Sound(w) ==
    /\ Busy(w)
    /\ w.state \in MountState
    /\ w.state \in MOUNT_STATE_WITH_PROCESS <=> w.control # "none"
    /\ w.timer => w.state \in MOUNT_STATE_WITH_PROCESS
    /\ conf.timeout /\ w.state \in MOUNT_STATE_WITH_PROCESS \ {"cleaning"} => w.timer
    /\ Mirroring => w.state # "cleaning"

\* State s is one to wait in when the table was last found to have the mount (from)
\* or not to have it.
Fits(s, from) ==
    Mirroring => IF from THEN s \notin {"dead", "failed", "mounting"} ELSE s \notin {"mounted", "mounting-done"}

Agrees(w) == Fits(w.state, w.from_proc_self_mountinfo)

Good(w) == Sound(w) /\ Agrees(w)

\* x is w but for other fields.
Like(x, w) ==
    /\ x.state = w.state /\ x.control = w.control /\ x.timer = w.timer
    /\ x.from_proc_self_mountinfo = w.from_proc_self_mountinfo /\ x.aborted = w.aborted

\* What has been read is up to date.
UpToDate(x) == x.from_proc_self_mountinfo = (stacked > 0)

\* The inductive invariant: what has been read is up to date unless an event is
\* pending.
Inv == Good(mnt) /\ stacked \in Nat /\ event \in BOOLEAN /\ (~ event => UpToDate(mnt))

-----------------------------------------------------------------------------
(* Entering states.                                                        *)

\* Fields the invariant does not mention do not matter to it.
LEMMA LikeGood ==
  ASSUME NEW w, NEW x, Busy(x), Like(x, w)
  PROVE  (Sound(w) => Sound(x)) /\ (Good(w) => Good(x))
  BY Zenon DEF Like, Sound, Good, Agrees

\* Recording a result changes no field the invariant mentions,
LEMMA BlameLike == ASSUME NEW w, NEW f, Busy(w) PROVE Busy(Blame(w, f)) /\ Like(Blame(w, f), w)
  BY Zenon DEF Blame, Busy, Fields, Like

\* ... nor does clearing it,
LEMMA ClearLike == ASSUME NEW w, Busy(w) PROVE Busy(mount_cycle_clear(w)) /\ Like(mount_cycle_clear(w), w)
  BY Zenon DEF mount_cycle_clear, Busy, Fields, Like

\* or the result of a reload.
LEMMA ReloadResultLike ==
  ASSUME NEW w, NEW f, Busy(w) PROVE Busy(mount_set_reload_result(w, f)) /\ Like(mount_set_reload_result(w, f), w)
  BY Zenon DEF mount_set_reload_result, Busy, Fields, Like

\* Neither does telling the job about a new state.
LEMMA NotifyLike == ASSUME NEW w, NEW ns, Busy(w) PROVE Busy(unit_notify(w, ns)) /\ Like(unit_notify(w, ns), w)
  BY ZenonT(30) DEF unit_notify, job_finish, Busy, Fields, Like

\* Neither does a job that ends or is tried again.
LEMMA JobLike ==
  ASSUME NEW w, NEW x, Busy(w), x \in {job_finish(w), TryAgain(w)}
  PROVE  Busy(x) /\ Like(x, w)
  BY ZenonT(30) DEF job_finish, TryAgain, Busy, Fields, Like

\* mount_set_state() puts the mount in a state to wait in, provided that the helper
\* and the timer the state needs are there.
LEMMA SetState ==
  ASSUME NEW w, Busy(w), NEW s \in MountState,
         s \in MOUNT_STATE_WITH_PROCESS => w.control # "none",
         conf.timeout /\ s \in MOUNT_STATE_WITH_PROCESS \ {"cleaning"} => w.timer,
         Mirroring => s # "cleaning",
         Fits(s, w.from_proc_self_mountinfo)
  PROVE  LET x == mount_set_state(w, s)
         IN /\ Good(x) /\ x.state = s /\ x.from_proc_self_mountinfo = w.from_proc_self_mountinfo
            /\ s \in MOUNT_STATE_WITH_PROCESS => x.control = w.control
<1> DEFINE v == [w EXCEPT !.state = s, !.moved = TRUE,
                          !.timer = @ /\ s \in MOUNT_STATE_WITH_PROCESS,
                          !.control = IF s \in MOUNT_STATE_WITH_PROCESS THEN @ ELSE "none"]
           x == mount_set_state(w, s)
<1>1. v = [k \in Fields |-> v[k]]
  BY Zenon DEF Busy
<1>2. /\ v.state = s
      /\ v.timer <=> w.timer /\ s \in MOUNT_STATE_WITH_PROCESS
      /\ v.control = IF s \in MOUNT_STATE_WITH_PROCESS THEN w.control ELSE "none"
      /\ v.from_proc_self_mountinfo = w.from_proc_self_mountinfo /\ v.aborted = w.aborted
  BY Zenon DEF Busy, Fields
<1>3. x = unit_notify(v, mount_active_state(s))
  BY Zenon DEF mount_set_state
<1> HIDE DEF v, x
<1>4. Busy(v)
  BY <1>1, <1>2, Zenon DEF Busy
<1>5. Good(v)
  BY <1>2, <1>4, Zenon DEF Good, Sound, Agrees
<1>6. Busy(x) /\ Like(x, v)
  BY <1>3, <1>4, NotifyLike, Zenon
<1>7. Good(x)
  BY <1>5, <1>6, LikeGood, Zenon
<1> QED BY <1>2, <1>6, <1>7, Zenon DEF Like, x

\* mount_enter_dead(), called when the mount is known to be gone
LEMMA EnterDead ==
  ASSUME NEW w, Busy(w), NEW f, NEW flush_result, Fits("dead", w.from_proc_self_mountinfo)
  PROVE  LET x == mount_enter_dead(w, f, flush_result)
         IN Good(x) /\ x.from_proc_self_mountinfo = w.from_proc_self_mountinfo
<1> DEFINE v == IF flush_result THEN [w EXCEPT !.result = f] ELSE Blame(w, f)
           s == IF v.result = "success" THEN "dead" ELSE "failed"
<1>1. Busy(v) /\ v.from_proc_self_mountinfo = w.from_proc_self_mountinfo
  <2>1. CASE flush_result
    BY <2>1, Zenon DEF Busy, Fields
  <2>2. CASE ~ flush_result
    BY <2>2, BlameLike, Zenon DEF Like
  <2> QED BY <2>1, <2>2, Zenon
<1>2. mount_enter_dead(w, f, flush_result) = mount_set_state(v, s)
  BY Zenon DEF mount_enter_dead
<1>3. s \in {"dead", "failed"}
  BY Zenon
<1> HIDE DEF v, s
<1>4. /\ s \in MountState /\ s \notin MOUNT_STATE_WITH_PROCESS
      /\ Fits(s, v.from_proc_self_mountinfo)
  BY <1>1, <1>3, Zenon DEF MountState, MOUNT_STATE_WITH_PROCESS, Mounting, RemountSignal, Unmounting, Fits
<1> QED BY <1>1, <1>2, <1>3, <1>4, SetState

\* mount_enter_mounted(), called when it is known to be there
LEMMA EnterMounted ==
  ASSUME NEW w, Busy(w), NEW f, Fits("mounted", w.from_proc_self_mountinfo)
  PROVE  LET x == mount_enter_mounted(w, f)
         IN Good(x) /\ x.from_proc_self_mountinfo = w.from_proc_self_mountinfo
<1>1. Busy(Blame(w, f)) /\ Like(Blame(w, f), w)
  BY BlameLike, Zenon
<1>2. "mounted" \in MountState /\ "mounted" \notin MOUNT_STATE_WITH_PROCESS
  BY Zenon DEF MountState, MOUNT_STATE_WITH_PROCESS, Mounting, RemountSignal, Unmounting
<1> QED BY <1>1, <1>2, SetState, Zenon DEF mount_enter_mounted, Like

\* mount_enter_dead_or_mounted() needs no condition: it looks.
LEMMA EnterDeadOrMounted ==
  ASSUME NEW w, Busy(w), NEW f, NEW flush_result
  PROVE  LET x == mount_enter_dead_or_mounted(w, f, flush_result)
         IN Good(x) /\ x.from_proc_self_mountinfo = w.from_proc_self_mountinfo
<1>1. CASE w.from_proc_self_mountinfo
  BY <1>1, EnterMounted, Zenon DEF mount_enter_dead_or_mounted, Fits
<1>2. CASE ~ w.from_proc_self_mountinfo
  BY <1>2, EnterDead, Zenon DEF mount_enter_dead_or_mounted, Fits
<1> QED BY <1>1, <1>2, Zenon

\* The states mount_enter_signal() enters and those of a helper just spawned.
Signals == RemountSignal \cup {"unmounting-sigterm", "unmounting-sigkill"}
Spawned == {"mounting", "remounting", "unmounting"}

\* They wait for a helper, but not for one that cleans.
LEMMA StatesWithProcess ==
  \A s \in Signals \cup Spawned : s \in MOUNT_STATE_WITH_PROCESS /\ s \in MountState /\ s # "cleaning"
  BY Zenon DEF Signals, Spawned, MountState, MOUNT_STATE_WITH_PROCESS, Mounting, RemountSignal, Unmounting

\* mount_arm_timer() sets the timer and nothing else.
LEMMA ArmTimer ==
  ASSUME NEW w, Busy(w), NEW finite
  PROVE  LET x == mount_arm_timer(w, finite)
         IN /\ Busy(x) /\ x.timer = finite /\ x.control = w.control
            /\ x.from_proc_self_mountinfo = w.from_proc_self_mountinfo
  BY Zenon DEF mount_arm_timer, Busy, Fields

\* A helper gets a signal and is waited for again, or is given up.
LEMMA EnterSignal ==
  ASSUME NEW w, Busy(w), w.control # "none", NEW state \in Signals, NEW f,
         NEW x \in mount_enter_signal(w, state, f)
  PROVE  Good(x) /\ x.from_proc_self_mountinfo = w.from_proc_self_mountinfo
<1> DEFINE v == Blame(w, f)
<1>1. Busy(v) /\ Like(v, w)
  BY BlameLike, Zenon
<1>2. \A g : LET y == mount_enter_dead_or_mounted(v, g, FALSE)
             IN Good(y) /\ y.from_proc_self_mountinfo = v.from_proc_self_mountinfo
  BY <1>1, EnterDeadOrMounted, Zenon
<1>3. CASE conf.kill_mode = "none"
  <2>1. Fits("mounted", v.from_proc_self_mountinfo)
    BY <1>3, Zenon DEF Fits, Mirroring
  <2>2. x \in {mount_enter_mounted(v, "success"), mount_enter_dead_or_mounted(v, "success", FALSE)}
    BY <1>3, Zenon DEF mount_enter_signal
  <2> QED BY <1>1, <1>2, <2>1, <2>2, EnterMounted, ZenonT(30) DEF Like
<1>4. CASE conf.kill_mode # "none"
  <2> DEFINE y == mount_arm_timer(v, conf.timeout)
  <2>1. /\ Busy(y) /\ y.timer = conf.timeout /\ y.control # "none"
        /\ y.from_proc_self_mountinfo = w.from_proc_self_mountinfo
    BY <1>1, ArmTimer DEF Like
  <2>2. state \in MountState /\ state # "cleaning" /\ Fits(state, y.from_proc_self_mountinfo)
    BY StatesWithProcess, Zenon DEF Fits, Signals, RemountSignal
  <2>3. x \in {mount_set_state(y, state), mount_enter_dead_or_mounted(v, "resources", FALSE)}
    BY <1>4, Zenon DEF mount_enter_signal
  <2> HIDE DEF y
  <2>4. LET z == mount_set_state(y, state)
        IN Good(z) /\ z.from_proc_self_mountinfo = y.from_proc_self_mountinfo
    BY <2>1, <2>2, SetState
  <2> QED BY <1>1, <1>2, <2>1, <2>3, <2>4, Zenon DEF Like
<1> QED BY <1>3, <1>4, Zenon

\* A helper is spawned with its timeout set.
LEMMA Spawn ==
  ASSUME NEW w, Busy(w), NEW state \in Spawned, Fits(state, w.from_proc_self_mountinfo)
  PROVE  LET x == mount_spawn(w, state)
         IN Good(x) /\ x.from_proc_self_mountinfo = w.from_proc_self_mountinfo
<1> DEFINE v == [w EXCEPT !.control = "running"]
           y == mount_arm_timer(v, conf.timeout)
<1>1. Busy(v) /\ v.control = "running" /\ v.from_proc_self_mountinfo = w.from_proc_self_mountinfo
  BY Zenon DEF Busy, Fields
<1>2. mount_spawn(w, state) = mount_set_state(y, state)
  BY Zenon DEF mount_spawn
<1> HIDE DEF v
<1>3. /\ Busy(y) /\ y.timer = conf.timeout /\ y.control # "none"
      /\ y.from_proc_self_mountinfo = w.from_proc_self_mountinfo
  BY <1>1, ArmTimer, ZenonT(30)
<1>4. state \in MountState /\ state # "cleaning"
  BY StatesWithProcess, Zenon
<1> HIDE DEF y
<1> QED BY <1>2, <1>3, <1>4, SetState

\* umount is run, or cannot be.
LEMMA EnterUnmounting ==
  ASSUME NEW w, Busy(w), NEW x \in mount_enter_unmounting(w)
  PROVE  Good(x) /\ x.from_proc_self_mountinfo = w.from_proc_self_mountinfo
<1> DEFINE v == IF w.state \in Unmounting THEN w ELSE [w EXCEPT !.n_retry_umount = 0]
<1>1. Busy(v) /\ v.from_proc_self_mountinfo = w.from_proc_self_mountinfo
  BY Zenon DEF Busy, Fields
<1>2. x \in {mount_spawn(v, "unmounting"), mount_enter_dead_or_mounted(v, "resources", FALSE)}
  BY Zenon DEF mount_enter_unmounting
<1> HIDE DEF v
<1>3. Fits("unmounting", v.from_proc_self_mountinfo)
  BY Zenon DEF Fits
<1>4. LET y == mount_spawn(v, "unmounting")
      IN Good(y) /\ y.from_proc_self_mountinfo = w.from_proc_self_mountinfo
  BY <1>1, <1>3, Spawn, Zenon DEF Spawned
<1>5. LET y == mount_enter_dead_or_mounted(v, "resources", FALSE)
      IN Good(y) /\ y.from_proc_self_mountinfo = w.from_proc_self_mountinfo
  BY <1>1, EnterDeadOrMounted, Zenon
<1> QED BY <1>2, <1>4, <1>5, Zenon

\* mount is run, or cannot be.
LEMMA EnterMounting ==
  ASSUME NEW w, Busy(w), Fits("mounting", w.from_proc_self_mountinfo), NEW x \in mount_enter_mounting(w)
  PROVE  Good(x) /\ x.from_proc_self_mountinfo = w.from_proc_self_mountinfo
<1>1. x \in {mount_spawn(w, "mounting"), mount_enter_dead_or_mounted(w, "resources", FALSE)}
  BY Zenon DEF mount_enter_mounting
<1>2. LET y == mount_spawn(w, "mounting")
      IN Good(y) /\ y.from_proc_self_mountinfo = w.from_proc_self_mountinfo
  BY Spawn, Zenon DEF Spawned
<1>3. LET y == mount_enter_dead_or_mounted(w, "resources", FALSE)
      IN Good(y) /\ y.from_proc_self_mountinfo = w.from_proc_self_mountinfo
  BY EnterDeadOrMounted, Zenon
<1> QED BY <1>1, <1>2, <1>3, Zenon

\* mount -o remount is run, or cannot be.
LEMMA EnterRemounting ==
  ASSUME NEW w, Busy(w), NEW x \in mount_enter_remounting(w)
  PROVE  Good(x) /\ x.from_proc_self_mountinfo = w.from_proc_self_mountinfo
<1> DEFINE v == [w EXCEPT !.reload_result = "success"]
           y == mount_set_reload_result(v, "resources")
<1>1. Busy(v) /\ v.from_proc_self_mountinfo = w.from_proc_self_mountinfo
  BY Zenon DEF Busy, Fields
<1>2. x \in {mount_spawn(v, "remounting"), mount_enter_dead_or_mounted(y, "success", FALSE)}
  BY Zenon DEF mount_enter_remounting
<1> HIDE DEF v
<1>3. Busy(y) /\ y.from_proc_self_mountinfo = w.from_proc_self_mountinfo
  BY <1>1, ReloadResultLike, Zenon DEF Like
<1>4. Fits("remounting", v.from_proc_self_mountinfo)
  BY Zenon DEF Fits
<1>5. LET z == mount_spawn(v, "remounting")
      IN Good(z) /\ z.from_proc_self_mountinfo = w.from_proc_self_mountinfo
  BY <1>1, <1>4, Spawn, Zenon DEF Spawned
<1>6. LET z == mount_enter_dead_or_mounted(y, "success", FALSE)
      IN Good(z) /\ z.from_proc_self_mountinfo = w.from_proc_self_mountinfo
  BY <1>3, EnterDeadOrMounted, Zenon
<1> HIDE DEF y
<1> QED BY <1>2, <1>5, <1>6, Zenon

-----------------------------------------------------------------------------
(* /proc/self/mountinfo.                                                   *)

\* Setting the flag that says what was read changes no other field.
LEMMA SetFrom ==
  ASSUME NEW w, Busy(w), NEW b \in BOOLEAN
  PROVE  LET v == [w EXCEPT !.from_proc_self_mountinfo = b]
         IN /\ Busy(v) /\ v.from_proc_self_mountinfo = b
            /\ v.state = w.state /\ v.control = w.control /\ v.timer = w.timer
  BY Zenon DEF Busy, Fields

\* The table read while a helper is at work leaves it at work.
Reads(x, w) == w.control # "none" => x.control = w.control

\* What the unit comes to if the mount is not in the table
LEMMA NotMountedGood ==
  ASSUME NEW w, Good(w)
  PROVE  LET x == NotMounted(w) IN Good(x) /\ x.from_proc_self_mountinfo = FALSE /\ Reads(x, w)
<1> DEFINE v == [w EXCEPT !.from_proc_self_mountinfo = FALSE]
           x == NotMounted(w)
<1>1. /\ Busy(v) /\ v.from_proc_self_mountinfo = FALSE
      /\ v.state = w.state /\ v.control = w.control /\ v.timer = w.timer
  BY SetFrom, Zenon DEF Good, Sound
<1>2. x = IF v.state = "mounted" THEN mount_enter_dead(mount_cycle_clear(v), "success", TRUE)
          ELSE IF v.state = "mounting-done" THEN mount_set_state(v, "mounting") ELSE v
  BY Zenon DEF NotMounted
<1> HIDE DEF v, x
<1>3. Sound(v)
  BY <1>1, Zenon DEF Good, Sound
<1>4. CASE v.state = "mounted"
  <2>1. /\ Busy(mount_cycle_clear(v)) /\ Like(mount_cycle_clear(v), v)
        /\ Fits("dead", mount_cycle_clear(v).from_proc_self_mountinfo)
    BY <1>1, ClearLike, Zenon DEF Like, Fits
  <2>2. w.control = "none"
    BY <1>1, <1>4, Zenon DEF Good, Sound, MOUNT_STATE_WITH_PROCESS, Mounting, RemountSignal, Unmounting
  <2>3. LET y == mount_enter_dead(mount_cycle_clear(v), "success", TRUE)
        IN Good(y) /\ y.from_proc_self_mountinfo = FALSE
    BY <1>1, <2>1, EnterDead, ZenonT(30) DEF Like
  <2> QED BY <1>2, <1>4, <2>2, <2>3, Zenon DEF Reads, x
<1>5. CASE v.state = "mounting-done"
  <2>1. "mounting-done" \in MOUNT_STATE_WITH_PROCESS /\ "mounting" \in MOUNT_STATE_WITH_PROCESS
    BY Zenon DEF MOUNT_STATE_WITH_PROCESS, Mounting
  <2>2. "mounting" \in MountState /\ Fits("mounting", FALSE)
    BY Zenon DEF MountState, MOUNT_STATE_WITH_PROCESS, Mounting, Fits
  <2>3. v.control # "none" /\ (conf.timeout => v.timer)
    BY <1>3, <1>5, <2>1, Zenon DEF Sound
  <2>4. LET y == mount_set_state(v, "mounting")
        IN /\ Good(y) /\ y.from_proc_self_mountinfo = v.from_proc_self_mountinfo
           /\ y.control = v.control
    BY <1>1, <2>1, <2>2, <2>3, SetState, Zenon
  <2> QED BY <1>1, <1>2, <1>5, <2>4, Zenon DEF Reads, x
<1>6. CASE v.state \notin {"mounted", "mounting-done"}
  BY <1>1, <1>2, <1>3, <1>6, Zenon DEF Good, Agrees, Fits, Reads, x
<1> QED BY <1>4, <1>5, <1>6, Zenon

\* ... and if it is
LEMMA IsMountedGood ==
  ASSUME NEW w, Good(w), NEW changed
  PROVE  LET x == IsMounted(w, changed) IN Good(x) /\ x.from_proc_self_mountinfo = TRUE /\ Reads(x, w)
<1> DEFINE v == [w EXCEPT !.from_proc_self_mountinfo = TRUE]
           s == IF v.state = "mounting" THEN "mounting-done" ELSE v.state
           x == IsMounted(w, changed)
<1>1. /\ Busy(v) /\ v.from_proc_self_mountinfo = TRUE
      /\ v.state = w.state /\ v.control = w.control /\ v.timer = w.timer
  BY SetFrom, Zenon DEF Good, Sound
<1>2. x = IF ~ (JustMounted(w) \/ changed) THEN v
          ELSE IF v.state \in {"dead", "failed"} THEN mount_enter_mounted(mount_cycle_clear(v), "success")
          ELSE mount_set_state(v, s)
  BY Zenon DEF IsMounted
<1> HIDE DEF v, x
<1>3. Sound(v)
  BY <1>1, Zenon DEF Good, Sound
<1>4. CASE ~ (JustMounted(w) \/ changed)
  <2>1. x = v /\ w.from_proc_self_mountinfo
    BY <1>2, <1>4, Zenon DEF JustMounted
  <2> QED BY <1>1, <1>3, <2>1, Zenon DEF Good, Agrees, Fits, Reads, x
<1>5. CASE (JustMounted(w) \/ changed) /\ v.state \in {"dead", "failed"}
  <2>1. /\ Busy(mount_cycle_clear(v)) /\ Like(mount_cycle_clear(v), v)
        /\ Fits("mounted", mount_cycle_clear(v).from_proc_self_mountinfo)
    BY <1>1, ClearLike, Zenon DEF Like, Fits
  <2>2. w.control = "none"
    BY <1>1, <1>5, Zenon DEF Good, Sound, MOUNT_STATE_WITH_PROCESS, Mounting, RemountSignal, Unmounting
  <2>3. LET y == mount_enter_mounted(mount_cycle_clear(v), "success")
        IN Good(y) /\ y.from_proc_self_mountinfo = TRUE
    BY <1>1, <2>1, EnterMounted, Zenon DEF Like
  <2> QED BY <1>2, <1>5, <2>2, <2>3, Zenon DEF Reads, x
<1>6. CASE (JustMounted(w) \/ changed) /\ v.state \notin {"dead", "failed"}
  <2>1. s \in MountState /\ s \notin {"dead", "failed", "mounting"} /\ (s = "cleaning" => v.state = "cleaning")
    BY <1>3, <1>6, Zenon DEF Sound, MountState, MOUNT_STATE_WITH_PROCESS, Mounting
  <2>2. s \in MOUNT_STATE_WITH_PROCESS <=> v.state \in MOUNT_STATE_WITH_PROCESS
    BY Zenon DEF MOUNT_STATE_WITH_PROCESS, Mounting
  <2>3. x = mount_set_state(v, s)
    BY <1>2, <1>6, Zenon
  <2>4. v.state = "cleaning" => s = "cleaning"
    BY Zenon
  <2> HIDE DEF s
  <2>5. Fits(s, v.from_proc_self_mountinfo)
    BY <1>1, <2>1, Zenon DEF Fits
  <2>6. LET y == mount_set_state(v, s)
        IN /\ Good(y) /\ y.from_proc_self_mountinfo = v.from_proc_self_mountinfo
           /\ s \in MOUNT_STATE_WITH_PROCESS => y.control = v.control
    BY <1>1, <1>3, <2>1, <2>2, <2>4, <2>5, SetState, Zenon DEF Sound
  <2> QED BY <1>1, <1>3, <2>2, <2>3, <2>6, Zenon DEF Sound, Reads, x
<1> QED BY <1>4, <1>5, <1>6, Zenon

\* mount_process_proc_self_mountinfo() leaves the unit up to date.
LEMMA Process ==
  ASSUME NEW w, Good(w), stacked \in Nat, ~ event => UpToDate(w), NEW x \in mount_process_proc_self_mountinfo(w)
  PROVE  Good(x) /\ UpToDate(x) /\ Reads(x, w)
<1> DEFINE v == [w EXCEPT !.invalidated_state = FALSE]
<1>1. Busy(v) /\ Like(v, w)
  BY Zenon DEF Good, Sound, Busy, Fields, Like
<1>2. x \in IF ~ event THEN {w}
            ELSE IF stacked = 0 THEN {NotMounted(v)} ELSE {IsMounted(v, changed) : changed \in BOOLEAN}
  BY Zenon DEF mount_process_proc_self_mountinfo
<1> HIDE DEF v
<1>3. Good(v)
  BY <1>1, LikeGood, Zenon
<1>4. CASE ~ event
  BY <1>2, <1>4, Zenon DEF Reads
<1>5. CASE event /\ stacked = 0
  <2>1. x = NotMounted(v)
    BY <1>2, <1>5, Zenon
  <2>2. Good(x) /\ x.from_proc_self_mountinfo = FALSE /\ Reads(x, v)
    BY <1>3, <2>1, NotMountedGood, Zenon
  <2>3. (stacked > 0) = FALSE
    BY <1>5
  <2> QED BY <1>1, <2>2, <2>3, Zenon DEF UpToDate, Reads, Like
<1>6. CASE event /\ stacked # 0
  <2>1. PICK changed \in BOOLEAN : x = IsMounted(v, changed)
    BY <1>2, <1>6, Zenon
  <2>2. Good(x) /\ x.from_proc_self_mountinfo = TRUE /\ Reads(x, v)
    BY <1>3, <2>1, IsMountedGood, Zenon
  <2>3. stacked > 0
    BY <1>6
  <2> QED BY <1>1, <2>2, <2>3, Zenon DEF UpToDate, Reads, Like
<1> QED BY <1>4, <1>5, <1>6, Zenon

-----------------------------------------------------------------------------
(* Jobs.                                                                   *)

\* x is what w came to, without a look at the table.
After(x, w) == Good(x) /\ x.from_proc_self_mountinfo = w.from_proc_self_mountinfo

\* A mount is started in the states it may be started in.
LEMMA StartGood ==
  ASSUME NEW w, Good(w), NEW x \in unit_start(w) PROVE After(x, w)
<1> DEFINE v == mount_cycle_clear(w)
<1>1. Busy(w)
  BY Zenon DEF Good, Sound
<1>2. Busy(v) /\ Like(v, w)
  BY <1>1, ClearLike, Zenon
<1>3. ASSUME NEW y \in {w, job_finish(w), TryAgain(w)} PROVE After(y, w)
  <2>1. CASE y = w
    BY <2>1, Zenon DEF After
  <2>2. CASE y \in {job_finish(w), TryAgain(w)}
    BY <1>1, <2>2, JobLike, LikeGood, Zenon DEF After, Like
  <2> QED BY <2>1, <2>2, <1>3, Zenon
<1>4. CASE x \in {job_finish(w), TryAgain(w)}
  BY <1>3, <1>4, Zenon
<1>5. CASE conf.start_limit /\ x = mount_enter_dead(w, "start-limit-hit", FALSE)
  <2>1. Fits("dead", w.from_proc_self_mountinfo)
    BY <1>5, Zenon DEF Fits, Mirroring
  <2> QED BY <1>1, <1>5, <2>1, EnterDead, Zenon DEF After
<1>6. CASE /\ x \in mount_start(w)
           /\ ~ IsActiveOrReloading(mount_active_state(w.state)) /\ mount_active_state(w.state) # "maintenance"
  <2>1. w.state \in {"dead", "failed"} \cup Mounting \cup Unmounting
    BY <1>6, Zenon DEF Good, Sound, MountState, MOUNT_STATE_WITH_PROCESS, Mounting, Unmounting, RemountSignal,
                mount_active_state, IsActiveOrReloading
  <2>2. CASE w.state \in Mounting \cup Unmounting
    <3>1. x \in {w, TryAgain(w)}
      BY <1>6, <2>2, Zenon DEF mount_start, Mounting, Unmounting
    <3> QED BY <1>3, <3>1, Zenon
  <2>3. CASE w.state \in {"dead", "failed"}
    <3>1. x \in mount_enter_mounting(v)
      BY <1>6, <2>3, Zenon DEF mount_start, Mounting, Unmounting
    <3>2. Fits("mounting", v.from_proc_self_mountinfo)
      BY <1>2, <2>3, Zenon DEF Good, Agrees, Fits, Like
    <3> QED BY <1>2, <3>1, <3>2, EnterMounting, Zenon DEF After, Like
  <2> QED BY <2>1, <2>2, <2>3, Zenon
<1> QED BY <1>4, <1>5, <1>6, Zenon DEF unit_start

\* ... and stopped in any.
LEMMA MountStopGood ==
  ASSUME NEW w, Good(w), NEW x \in mount_stop(w) PROVE After(x, w)
<1>1. Busy(w) /\ w.state \in MountState /\ (w.state \in MOUNT_STATE_WITH_PROCESS => w.control # "none")
  BY Zenon DEF Good, Sound
<1>2. CASE w.state \in Mounting \cup {"remounting", "cleaning"}
  <2>1. PICK s \in Signals : x \in mount_enter_signal(w, s, "success")
    BY <1>2, Zenon DEF mount_stop, Signals, Mounting
  <2>2. w.control # "none"
    BY <1>1, <1>2, Zenon DEF MOUNT_STATE_WITH_PROCESS, Mounting
  <2> QED BY <1>1, <2>1, <2>2, EnterSignal, Zenon DEF After
<1>3. CASE w.state \in RemountSignal
  <2>1. PICK s \in {"unmounting-sigterm", "unmounting-sigkill"} : x = mount_set_state(w, s)
    BY <1>3, Zenon DEF mount_stop, RemountSignal, Mounting
  <2>2. w.control # "none" /\ (conf.timeout => w.timer)
    BY <1>3, Zenon DEF Good, Sound, MOUNT_STATE_WITH_PROCESS, RemountSignal
  <2>3. s \in MountState /\ s # "cleaning" /\ Fits(s, w.from_proc_self_mountinfo)
    BY StatesWithProcess, Zenon DEF Signals, Fits
  <2> QED BY <1>1, <2>1, <2>2, <2>3, SetState, Zenon DEF After
<1>4. CASE w.state = "mounted"
  <2>1. x \in mount_enter_unmounting(w)
    BY <1>4, Zenon DEF mount_stop, Mounting
  <2> QED BY <1>1, <2>1, EnterUnmounting, Zenon DEF After
<1>5. CASE w.state \in {"dead", "failed"} \cup Unmounting
  BY <1>5, Zenon DEF mount_stop, Mounting, Unmounting, After
<1> QED BY <1>1, <1>2, <1>3, <1>4, <1>5, Zenon DEF MountState, MOUNT_STATE_WITH_PROCESS

\* unit_stop()
LEMMA StopGood ==
  ASSUME NEW w, Good(w), NEW x \in unit_stop(w) PROVE After(x, w)
<1>1. Busy(w)
  BY Zenon DEF Good, Sound
<1>2. CASE x = job_finish(w)
  BY <1>1, <1>2, JobLike, LikeGood, Zenon DEF After, Like
<1>3. CASE x \in mount_stop(w)
  BY <1>3, MountStopGood, Zenon
<1> QED BY <1>2, <1>3, Zenon DEF unit_stop

\* ... and reloaded in the one it may be reloaded in.
LEMMA ReloadGood ==
  ASSUME NEW w, Good(w), NEW x \in unit_reload(w) PROVE After(x, w)
<1>1. Busy(w)
  BY Zenon DEF Good, Sound
<1>2. CASE x \in {job_finish(w), TryAgain(w)}
  BY <1>1, <1>2, JobLike, LikeGood, Zenon DEF After, Like
<1>3. CASE mount_active_state(w.state) = "active" /\ x \in mount_reload(w)
  <2>1. w.state = "mounted"
    BY <1>3, Zenon DEF mount_active_state
  <2>2. x \in mount_enter_remounting(w)
    BY <1>3, <2>1, Zenon DEF mount_reload
  <2> QED BY <1>1, <2>2, EnterRemounting, Zenon DEF After
<1> QED BY <1>2, <1>3, Zenon DEF unit_reload

-----------------------------------------------------------------------------
(* The helper, its timeout and daemon-reload.                              *)

\* A helper ends in a state that waits for one.
LEMMA HelperExitedGood ==
  ASSUME NEW u, Good(u), u.control # "none", NEW f, NEW x \in HelperExited(u, f) PROVE After(x, u)
<1> DEFINE v == [u EXCEPT !.control = "none"]
           w == IF v.state \in {"remounting"} \cup RemountSignal THEN mount_set_reload_result(v, f)
                ELSE IF v.state \in {"mounting", "unmounting"} THEN v ELSE Blame(v, f)
<1>1. Busy(v) /\ v.state = u.state /\ v.from_proc_self_mountinfo = u.from_proc_self_mountinfo
  BY Zenon DEF Good, Sound, Busy, Fields
<1>2. Busy(w) /\ Like(w, v)
  BY <1>1, BlameLike, ReloadResultLike, ZenonT(30) DEF Like
<1>3. u.state \in MOUNT_STATE_WITH_PROCESS
  BY Zenon DEF Good, Sound
<1>4. x \in IF w.state = "mounting" THEN {mount_enter_dead(w, IF f = "success" THEN "protocol" ELSE f, FALSE)}
            ELSE IF w.state = "mounting-done" THEN {mount_enter_mounted(w, f)}
            ELSE IF w.state \in {"remounting"} \cup RemountSignal
            THEN {mount_enter_dead_or_mounted(w, "success", FALSE)}
            ELSE IF w.state = "unmounting" /\ f = "success" /\ w.from_proc_self_mountinfo
            THEN IF TriesLeft(w)
                 THEN mount_enter_unmounting([w EXCEPT !.n_retry_umount = @ + 1])
                 ELSE {mount_enter_mounted(w, "protocol")}
            ELSE IF w.state = "unmounting" /\ f = "exit-code" /\ ~ w.from_proc_self_mountinfo
            THEN {mount_enter_dead(w, "success", TRUE)}
            ELSE IF w.state = "unmounting" THEN {mount_enter_dead_or_mounted(w, f, TRUE)}
            ELSE IF w.state \in Unmounting THEN {mount_enter_dead_or_mounted(w, f, FALSE)}
            ELSE IF w.state = "cleaning" THEN {mount_enter_dead(w, "success", FALSE)}
            ELSE Abort(w)
  BY Zenon DEF HelperExited
<1> HIDE DEF v, w
<1>5. w.state = u.state /\ w.from_proc_self_mountinfo = u.from_proc_self_mountinfo
  BY <1>1, <1>2, Zenon DEF Like
<1>6. CASE \E g, fl : x = mount_enter_dead(w, g, fl) /\ Fits("dead", w.from_proc_self_mountinfo)
  BY <1>2, <1>5, <1>6, EnterDead DEF After
<1>7. CASE \E g : x = mount_enter_mounted(w, g) /\ Fits("mounted", w.from_proc_self_mountinfo)
  BY <1>2, <1>5, <1>7, EnterMounted, Zenon DEF After
<1>8. CASE \E g, fl : x = mount_enter_dead_or_mounted(w, g, fl)
  BY <1>2, <1>5, <1>8, EnterDeadOrMounted DEF After
<1>9. CASE x \in mount_enter_unmounting([w EXCEPT !.n_retry_umount = @ + 1])
  <2> DEFINE y == [w EXCEPT !.n_retry_umount = @ + 1]
  <2>1. Busy(y) /\ y.from_proc_self_mountinfo = w.from_proc_self_mountinfo
    BY <1>2, Zenon DEF Busy, Fields
  <2> QED BY <1>5, <1>9, <2>1, EnterUnmounting, Zenon DEF After
<1>10. CASE u.state = "mounting"
  <2>1. Fits("dead", w.from_proc_self_mountinfo)
    BY <1>5, <1>10, Zenon DEF Good, Agrees, Fits
  <2> QED BY <1>4, <1>5, <1>6, <1>10, <2>1, Zenon
<1>11. CASE u.state = "mounting-done"
  <2>1. Fits("mounted", w.from_proc_self_mountinfo)
    BY <1>5, <1>11, Zenon DEF Good, Agrees, Fits
  <2> QED BY <1>4, <1>5, <1>7, <1>11, <2>1, Zenon
<1>12. CASE u.state \in {"remounting"} \cup RemountSignal
  BY <1>4, <1>5, <1>8, <1>12, Zenon DEF RemountSignal
<1>13. CASE u.state = "unmounting"
  <2>1. w.from_proc_self_mountinfo => Fits("mounted", w.from_proc_self_mountinfo)
    BY Zenon DEF Fits
  <2>2. ~ w.from_proc_self_mountinfo => Fits("dead", w.from_proc_self_mountinfo)
    BY Zenon DEF Fits
  <2> QED BY <1>4, <1>5, <1>6, <1>7, <1>8, <1>9, <1>13, <2>1, <2>2, Zenon DEF RemountSignal
<1>14. CASE u.state \in {"unmounting-sigterm", "unmounting-sigkill"}
  BY <1>4, <1>5, <1>8, <1>14, Zenon DEF RemountSignal, Unmounting
<1>15. CASE u.state = "cleaning"
  <2>1. Fits("dead", w.from_proc_self_mountinfo)
    BY <1>15, Zenon DEF Good, Sound, Fits
  <2> QED BY <1>4, <1>5, <1>6, <1>15, <2>1, Zenon DEF RemountSignal, Unmounting
<1> QED BY <1>3, <1>10, <1>11, <1>12, <1>13, <1>14, <1>15, Zenon DEF MOUNT_STATE_WITH_PROCESS, Mounting, Unmounting

\* So does its timeout elapse.
LEMMA TimedOutGood ==
  ASSUME NEW w, Busy(w), w.state \in MOUNT_STATE_WITH_PROCESS, w.control # "none", NEW x \in TimedOut(w)
  PROVE  After(x, w)
<1> DEFINE reload == mount_set_reload_result(w, "timeout")
<1>1. Busy(reload) /\ Like(reload, w)
  BY ReloadResultLike, Zenon
<1>2. CASE \E s \in Signals : \E f : x \in mount_enter_signal(w, s, f)
  BY <1>2, EnterSignal, Zenon DEF After
<1>3. CASE \E s \in Signals : \E f : x \in mount_enter_signal(reload, s, f)
  BY <1>1, <1>3, EnterSignal, Zenon DEF After, Like
<1>4. CASE x = mount_enter_dead_or_mounted(reload, "success", FALSE)
  BY <1>1, <1>4, EnterDeadOrMounted, Zenon DEF After, Like
<1>5. CASE x = mount_enter_dead_or_mounted(w, "timeout", FALSE)
  BY <1>5, EnterDeadOrMounted, Zenon DEF After
<1> HIDE DEF reload
<1>6. CASE w.state \in Mounting \cup {"unmounting", "cleaning"}
  BY <1>2, <1>6, Zenon DEF TimedOut, Mounting, Unmounting, RemountSignal, Signals
<1>7. CASE w.state \in {"remounting"} \cup RemountSignal
  BY <1>3, <1>4, <1>7, Zenon DEF TimedOut, Mounting, RemountSignal, Signals, reload
<1>8. CASE w.state \in {"unmounting-sigterm", "unmounting-sigkill"}
  BY <1>2, <1>5, <1>8, Zenon DEF TimedOut, Mounting, Unmounting, RemountSignal, Signals
<1> QED BY <1>6, <1>7, <1>8, Zenon DEF MOUNT_STATE_WITH_PROCESS, Unmounting

\* mount_catchup() makes any state that was read back agree with the table.
LEMMA CatchupGood ==
  ASSUME NEW w, Sound(w), NEW x \in mount_catchup(w) PROVE After(x, w)
<1> DEFINE clear == mount_cycle_clear(w)
<1>1. Busy(w) /\ Busy(clear) /\ Like(clear, w)
  BY ClearLike, Zenon DEF Sound
<1>2. CASE w.from_proc_self_mountinfo /\ w.state \in {"dead", "failed"}
  <2>1. w.control = "none"
    BY <1>2, Zenon DEF Sound, MOUNT_STATE_WITH_PROCESS, Mounting, RemountSignal, Unmounting
  <2>2. x = mount_enter_mounted(clear, "success") /\ Fits("mounted", clear.from_proc_self_mountinfo)
    BY <1>1, <1>2, <2>1, Zenon DEF mount_catchup, Fits, Like
  <2> QED BY <1>1, <2>2, EnterMounted, Zenon DEF After, Like
<1>3. CASE ~ w.from_proc_self_mountinfo /\ w.state = "mounted"
  <2>1. w.control = "none"
    BY <1>3, Zenon DEF Sound, MOUNT_STATE_WITH_PROCESS, Mounting, RemountSignal, Unmounting
  <2>2. x = mount_enter_dead(w, "success", FALSE) /\ Fits("dead", w.from_proc_self_mountinfo)
    BY <1>3, <2>1, Zenon DEF mount_catchup, Fits
  <2> QED BY <1>1, <2>2, EnterDead, Zenon DEF After
<1>4. ASSUME NEW s \in Mounting, NEW t \in Mounting, w.state = t, x = mount_set_state(w, s),
             Fits(s, w.from_proc_self_mountinfo)
      PROVE  After(x, w)
  <2>1. w.control # "none" /\ (conf.timeout => w.timer)
    BY <1>4, Zenon DEF Sound, MOUNT_STATE_WITH_PROCESS, Mounting
  <2>2. s \in MountState /\ s # "cleaning"
    BY <1>4, Zenon DEF MountState, MOUNT_STATE_WITH_PROCESS, Mounting
  <2> QED BY <1>1, <1>4, <2>1, <2>2, SetState, Zenon DEF After
<1>5. CASE w.from_proc_self_mountinfo /\ w.state = "mounting"
  <2>1. x = mount_set_state(w, "mounting-done")
    BY <1>5, Zenon DEF mount_catchup, Sound, MOUNT_STATE_WITH_PROCESS, Mounting
  <2> QED BY <1>4, <1>5, <2>1, Zenon DEF Mounting, Fits
<1>6. CASE ~ w.from_proc_self_mountinfo /\ w.state = "mounting-done"
  <2>1. x = mount_set_state(w, "mounting")
    BY <1>6, Zenon DEF mount_catchup, Sound, MOUNT_STATE_WITH_PROCESS, Mounting
  <2> QED BY <1>4, <1>6, <2>1, Zenon DEF Mounting, Fits
<1>7. CASE IF w.from_proc_self_mountinfo THEN w.state \notin {"dead", "failed", "mounting"}
           ELSE w.state \notin {"mounted", "mounting-done"}
  <2>1. x = w
    BY <1>7, Zenon DEF mount_catchup
  <2> QED BY <1>7, <2>1, Zenon DEF After, Good, Agrees, Fits
<1> QED BY <1>2, <1>3, <1>5, <1>6, <1>7, Zenon

-----------------------------------------------------------------------------
(* Steps.                                                                  *)

\* The handler finds the object as PID 1 left it.
LEMMA CalledGood == ASSUME Inv PROVE Good(Called) /\ Like(Called, mnt)
<1>1. Busy(Called) /\ Like(Called, mnt)
  BY Zenon DEF Inv, Good, Sound, Busy, Fields, Called, Like
<1> QED BY <1>1, LikeGood, Zenon DEF Inv

\* The unit file, and with it what Good means, does not change.
LEMMA GoodNext == ASSUME NEW x, Good(x), conf' = conf, mnt' = x PROVE Good(mnt)'
  BY Zenon DEF Good, Sound, Agrees, Fits, Mirroring, Busy

\* A handler that does not read the table keeps the invariant if what the mount
\* comes to is Good and keeps what was read.
LEMMA QuietInv ==
  ASSUME Inv, NEW outcomes, Quietly(outcomes), \A x \in outcomes : After(x, mnt)
  PROVE  Inv'
<1>1. After(mnt', mnt) /\ conf' = conf /\ stacked' = stacked /\ event' = event
  BY Zenon DEF Quietly, Step
<1>2. Good(mnt)'
  BY <1>1, GoodNext, Zenon DEF After
<1> QED BY <1>1, <1>2, Zenon DEF Inv, After, UpToDate

\* One that does leaves the unit up to date.
LEMMA ReadInv ==
  ASSUME Inv, NEW outcomes, Step(outcomes), event' \in BOOLEAN, \A x \in outcomes : Good(x) /\ UpToDate(x)
  PROVE  Inv'
<1>1. Good(mnt') /\ UpToDate(mnt') /\ conf' = conf /\ stacked' = stacked
  BY Zenon DEF Step
<1>2. Good(mnt)'
  BY <1>1, GoodNext, Zenon
<1> QED BY <1>1, <1>2, Zenon DEF Inv, UpToDate

\* The inductive invariant holds in the initial states,
LEMMA InitInv == ASSUME Init PROVE Inv
<1>1. mnt.state = "dead" /\ mnt.control = "none" /\ mnt.timer = FALSE
  BY Zenon DEF Init
<1>2. Busy(mnt)
  BY Zenon DEF Init, Busy, Fields
<1>3. Sound(mnt)
  BY <1>1, <1>2, Zenon DEF Sound, MountState, MOUNT_STATE_WITH_PROCESS, Mounting, RemountSignal, Unmounting
<1>4. mnt.from_proc_self_mountinfo = FALSE /\ stacked = 0 /\ event = FALSE
  BY Zenon DEF Init
<1>5. (stacked > 0) = FALSE
  BY <1>4
<1> QED BY <1>1, <1>3, <1>4, <1>5, Zenon DEF Inv, Good, Agrees, Fits, UpToDate

\* and changes of the table,
LEMMA TableInv == ASSUME Inv, Kernel \/ mount_invalidate_state_by_path PROVE Inv'
<1>1. CASE Kernel
  <2>1. mnt' = Called /\ conf' = conf /\ event' = TRUE /\ stacked' \in Nat
    BY <1>1, BoundsAssumption DEF Kernel
  <2>2. Good(mnt)'
    BY <2>1, CalledGood, GoodNext, Zenon
  <2> QED BY <2>1, <2>2, Zenon DEF Inv
<1>2. CASE mount_invalidate_state_by_path
  <2> DEFINE x == [Called EXCEPT !.invalidated_state = TRUE]
  <2>1. mnt' = x /\ conf' = conf /\ event' = TRUE /\ stacked' \in Nat
    BY <1>2 DEF mount_invalidate_state_by_path, Inv
  <2>2. Busy(x) /\ Like(x, Called)
    BY CalledGood, Zenon DEF Good, Sound, Busy, Fields, Like
  <2>3. Good(x)
    BY <2>2, CalledGood, LikeGood, Zenon
  <2>4. Good(mnt)'
    BY <2>1, <2>3, GoodNext, Zenon
  <2> QED BY <2>1, <2>4, Zenon DEF Inv
<1> QED BY <1>1, <1>2, Zenon

\* its being read,
LEMMA ProcessInv ==
  ASSUME Inv, NEW x \in mount_process_proc_self_mountinfo(Called)
  PROVE  Good(x) /\ UpToDate(x) /\ Reads(x, Called)
<1>1. Good(Called) /\ (~ event => UpToDate(Called)) /\ stacked \in Nat
  BY CalledGood, Zenon DEF Inv, Like, UpToDate
<1> QED BY <1>1, Process, Zenon

\* ... by itself,
LEMMA DispatchIoInv == ASSUME Inv, mount_dispatch_io PROVE Inv'
  BY ProcessInv, ReadInv, Zenon DEF mount_dispatch_io

\* requests and their cancellation,
LEMMA JobInv == ASSUME Inv, Cancel \/ \E t \in Requests : Request(t) PROVE Inv'
<1>1. ASSUME NEW x, Busy(x), Like(x, Called) PROVE After(x, mnt)
  BY <1>1, CalledGood, LikeGood, Zenon DEF After, Like
<1>2. CASE Cancel
  <2> DEFINE x == [Called EXCEPT !.job = "none", !.run = FALSE]
  <2>1. Busy(x) /\ Like(x, Called)
    BY CalledGood, Zenon DEF Good, Sound, Busy, Fields, Like
  <2>2. Quietly({x})
    BY <1>2, Zenon DEF Cancel
  <2> HIDE DEF x
  <2> QED BY <1>1, <2>1, <2>2, QuietInv, Zenon
<1>3. ASSUME NEW t \in Requests, Request(t) PROVE Inv'
  <2> DEFINE x == job_install(Called, mount_active_state(mnt.state), t)
  <2>1. Busy(x) /\ Like(x, Called)
    BY CalledGood, Zenon DEF job_install, Good, Sound, Busy, Fields, Like
  <2>2. Quietly({x})
    BY <1>3, Zenon DEF Request
  <2> HIDE DEF x
  <2> QED BY <1>1, <2>1, <2>2, QuietInv, Zenon
<1> QED BY <1>2, <1>3, Zenon

\* a job being run,
LEMMA RunJobInv == ASSUME Inv, RunJob PROVE Inv'
<1> DEFINE w == [Called EXCEPT !.run = TRUE]
           read == w.job \in {"stop", "restart"} /\ w.invalidated_state
                   /\ ~ IsInactiveOrFailed(mount_active_state(w.state))
           stops == UNION {mount_stop(x) : x \in mount_process_proc_self_mountinfo(w)}
           verified == verify_active(w, mount_active_state(w.state))
           outcomes == IF w.job = "start" THEN unit_start(w)
                       ELSE IF w.job = "verify" THEN verified
                       ELSE IF w.job = "reload" THEN unit_reload(w)
                       ELSE IF read THEN stops ELSE unit_stop(w)
<1>1. Busy(w) /\ Like(w, Called)
  BY CalledGood, Zenon DEF Good, Sound, Busy, Fields, Like
<1>2. event' = (event /\ ~ read) /\ Step(outcomes)
  BY Zenon DEF RunJob
<1> HIDE DEF w
<1>3. Good(w) /\ w.from_proc_self_mountinfo = mnt.from_proc_self_mountinfo
  BY <1>1, CalledGood, LikeGood, Zenon DEF Like
<1>4. CASE w.job \in {"start", "verify", "reload"} \/ ~ read
  <2>1. Quietly(outcomes)
    <3>1. ~ read
      BY <1>4, Zenon
    <3>2. event' = event
      BY <1>2, <3>1, Zenon DEF Inv
    <3> QED BY <1>2, <3>2, Zenon DEF Quietly
  <2>2. ASSUME NEW x \in outcomes PROVE After(x, mnt)
    <3>1. x \in unit_start(w) \/ x \in verified \/ x \in unit_reload(w) \/ x \in unit_stop(w)
      BY <1>4, Zenon
    <3>2. ASSUME x \in verified PROVE After(x, w)
      <4>1. x \in {job_finish(w), TryAgain(w)}
        BY <3>2, Zenon DEF verify_active
      <4> QED BY <1>3, <4>1, JobLike, LikeGood DEF Good, Sound, After, Like
    <3>3. After(x, w)
      BY <1>3, <3>1, <3>2, StartGood, ReloadGood, StopGood, Zenon
    <3> QED BY <1>3, <3>3, Zenon DEF After
  <2> HIDE DEF outcomes
  <2> QED BY <2>1, <2>2, QuietInv, Zenon
<1>5. CASE w.job \notin {"start", "verify", "reload"} /\ read
  <2>1. outcomes = stops
    BY <1>5, Zenon
  <2>2. ~ event => UpToDate(w)
    BY <1>3, Zenon DEF Inv, UpToDate
  <2>3. ASSUME NEW x \in mount_process_proc_self_mountinfo(w), NEW y \in mount_stop(x)
        PROVE  Good(y) /\ UpToDate(y)
    <3>1. Good(x) /\ UpToDate(x)
      BY <1>3, <2>2, Process, Zenon DEF Inv
    <3>2. After(y, x)
      BY <3>1, MountStopGood, Zenon
    <3> QED BY <3>1, <3>2, Zenon DEF After, UpToDate
  <2>4. \A y \in stops : Good(y) /\ UpToDate(y)
    BY <2>3, Zenon
  <2>5. Step(stops) /\ event' \in BOOLEAN
    BY <1>2, <2>1, Zenon
  <2> HIDE DEF stops
  <2> QED BY <2>4, <2>5, ReadInv, Zenon
<1> QED BY <1>4, <1>5, Zenon

\* the helper's exit,
LEMMA HelperInv == ASSUME Inv, Exit \/ \E f \in Exits : mount_sigchld_event(f) PROVE Inv'
<1>1. CASE Exit
  <2> DEFINE x == [Called EXCEPT !.control = "exited"]
  <2>1. mnt.control = "running" /\ Quietly({x})
    BY <1>1, Zenon DEF Exit
  <2>2. /\ Busy(x) /\ x.state = Called.state /\ x.timer = Called.timer /\ x.control = "exited"
        /\ x.from_proc_self_mountinfo = Called.from_proc_self_mountinfo
    BY CalledGood, Zenon DEF Good, Sound, Busy, Fields
  <2>3. Called.control # "none"
    BY <2>1, CalledGood, Zenon DEF Like
  <2> HIDE DEF x
  <2>4. After(x, mnt)
    BY <2>2, <2>3, CalledGood, Zenon DEF After, Good, Sound, Agrees, Like
  <2> QED BY <2>1, <2>4, QuietInv, Zenon
<1>2. ASSUME NEW f \in Exits, mount_sigchld_event(f) PROVE Inv'
  <2> DEFINE outcomes == UNION {HelperExited(w, f) : w \in mount_process_proc_self_mountinfo(Called)}
  <2>1. mnt.control = "exited" /\ event' = FALSE /\ Step(outcomes)
    BY <1>2, Zenon DEF mount_sigchld_event
  <2>2. Called.control # "none"
    BY <2>1, CalledGood, Zenon DEF Like
  <2>3. ASSUME NEW w \in mount_process_proc_self_mountinfo(Called), NEW x \in HelperExited(w, f)
        PROVE  Good(x) /\ UpToDate(x)
    <3>1. Good(w) /\ UpToDate(w) /\ w.control # "none"
      BY <2>2, ProcessInv, Zenon DEF Reads
    <3>2. After(x, w)
      BY <3>1, HelperExitedGood, Zenon
    <3> QED BY <3>1, <3>2, Zenon DEF After, UpToDate
  <2>4. \A x \in outcomes : Good(x) /\ UpToDate(x)
    BY <2>3, Zenon
  <2> HIDE DEF outcomes
  <2> QED BY <2>1, <2>4, ReadInv, Zenon
<1> QED BY <1>1, <1>2, Zenon

\* its timeout,
LEMMA TimerInv == ASSUME Inv, mount_dispatch_timer PROVE Inv'
<1> DEFINE w == [Called EXCEPT !.timer = FALSE, !.tick = TRUE]
<1>1. mnt.timer /\ Quietly(TimedOut(w))
  BY Zenon DEF mount_dispatch_timer
<1>2. /\ Busy(w) /\ w.state = Called.state /\ w.control = Called.control
      /\ w.from_proc_self_mountinfo = Called.from_proc_self_mountinfo
  BY CalledGood, Zenon DEF Good, Sound, Busy, Fields
<1>3. Called.state \in MOUNT_STATE_WITH_PROCESS /\ Called.control # "none"
  BY <1>1, CalledGood, Zenon DEF Good, Sound, Like
<1> HIDE DEF w
<1>4. ASSUME NEW x \in TimedOut(w) PROVE After(x, mnt)
  <2>1. After(x, w)
    BY <1>2, <1>3, TimedOutGood, Zenon
  <2> QED BY <1>2, <2>1, CalledGood, Zenon DEF After, Like
<1> QED BY <1>1, <1>4, QuietInv, Zenon

\* and reset-failed, clean and daemon-reload keep it.
LEMMA OtherInv == ASSUME Inv, mount_reset_failed \/ mount_clean \/ Reload PROVE Inv'
<1>0. /\ Good(Called) /\ Busy(Called) /\ Like(Called, mnt)
  BY CalledGood, Zenon DEF Good, Sound
<1>1. CASE mount_reset_failed
  <2> DEFINE w == IF mnt.state = "failed" THEN mount_set_state(Called, "dead") ELSE Called
  <2>1. Quietly({mount_cycle_clear(w)})
    BY <1>1, Zenon DEF mount_reset_failed
  <2>2. After(w, mnt)
    <3>1. CASE mnt.state = "failed"
      <4>1. "dead" \in MountState /\ "dead" \notin MOUNT_STATE_WITH_PROCESS
        BY Zenon DEF MountState, MOUNT_STATE_WITH_PROCESS, Mounting, RemountSignal, Unmounting
      <4>2. Fits("dead", Called.from_proc_self_mountinfo)
        BY <1>0, <3>1, Zenon DEF Good, Agrees, Fits, Like
      <4>3. LET y == mount_set_state(Called, "dead")
            IN Good(y) /\ y.from_proc_self_mountinfo = Called.from_proc_self_mountinfo
        BY <1>0, <4>1, <4>2, SetState, Zenon
      <4> QED BY <1>0, <3>1, <4>3, Zenon DEF After, Like
    <3>2. CASE mnt.state # "failed"
      BY <1>0, <3>2, Zenon DEF After, Like
    <3> QED BY <3>1, <3>2, Zenon
  <2> HIDE DEF w
  <2>3. Busy(mount_cycle_clear(w)) /\ Like(mount_cycle_clear(w), w)
    BY <2>2, ClearLike, Zenon DEF After, Good, Sound
  <2>4. After(mount_cycle_clear(w), mnt)
    BY <2>2, <2>3, LikeGood, Zenon DEF After, Like
  <2> QED BY <2>1, <2>4, QuietInv, Zenon
<1>2. CASE mount_clean
  <2> DEFINE v == [Called EXCEPT !.control = "running"]
             w == mount_arm_timer(v, conf.timeout_clean)
             x == mount_set_state(w, "cleaning")
  <2>1. conf.clean /\ mnt.state = "dead" /\ Quietly({x})
    BY <1>2, Zenon DEF mount_clean
  <2>2. Busy(v) /\ v.control = "running" /\ v.from_proc_self_mountinfo = Called.from_proc_self_mountinfo
    BY <1>0, Zenon DEF Busy, Fields
  <2> HIDE DEF v
  <2>3. Busy(w) /\ w.control = "running" /\ w.from_proc_self_mountinfo = Called.from_proc_self_mountinfo
    BY <2>2, ArmTimer, Zenon
  <2>4. ~ Mirroring /\ Fits("cleaning", w.from_proc_self_mountinfo) /\ "cleaning" \in MountState
    BY <2>1, Zenon DEF Mirroring, Fits, MountState, MOUNT_STATE_WITH_PROCESS
  <2> HIDE DEF w
  <2>5. Good(x) /\ x.from_proc_self_mountinfo = w.from_proc_self_mountinfo
    BY <2>3, <2>4, SetState, Zenon
  <2> HIDE DEF x
  <2>6. After(x, mnt)
    BY <1>0, <2>3, <2>5, Zenon DEF After, Like
  <2> QED BY <2>1, <2>6, QuietInv, Zenon
<1>3. CASE Reload
  <2> DEFINE w == [Called EXCEPT !.from_proc_self_mountinfo = stacked > 0,
                                 !.invalidated_state = FALSE,
                                 !.timer = conf.timeout /\ mnt.control # "none",
                                 !.armed = mnt.moved, !.moved = FALSE]
  <2>1. Quietly(mount_catchup(w))
    BY <1>3, Zenon DEF Reload
  <2>2. w = [k \in Fields |-> w[k]]
    BY <1>0, Zenon DEF Busy
  <2>3. /\ w.state = Called.state /\ w.control = Called.control /\ w.aborted = Called.aborted
        /\ w.from_proc_self_mountinfo = (stacked > 0)
        /\ w.timer <=> conf.timeout /\ mnt.control # "none"
    BY <1>0, Zenon DEF Busy, Fields
  <2> HIDE DEF w
  <2>4. Sound(w)
    <3>1. w.from_proc_self_mountinfo \in BOOLEAN
      BY <2>3
    <3>2. ~ w.aborted
      BY <1>0, <2>3, Zenon DEF Busy
    <3>3. Busy(w)
      BY <2>2, <3>1, <3>2, Zenon DEF Busy
    <3> QED BY <1>0, <2>3, <3>3, Zenon DEF Good, Sound, Like
  <2>5. \A x \in mount_catchup(w) : Good(x) /\ UpToDate(x)
    BY <2>3, <2>4, CatchupGood, Zenon DEF After, UpToDate
  <2>6. Step(mount_catchup(w)) /\ event' \in BOOLEAN
    BY <2>1, Zenon DEF Quietly, Inv
  <2> QED BY <2>5, <2>6, ReadInv, Zenon
<1> QED BY <1>1, <1>2, <1>3, Zenon

\* The invariant is inductive.
LEMMA NextInv == ASSUME Inv, [Next]_vars PROVE Inv'
<1>1. CASE UNCHANGED vars
  BY <1>1, Zenon DEF vars, Inv, Good, Sound, Agrees, Fits, Mirroring, Busy, UpToDate
<1> QED BY <1>1, TableInv, DispatchIoInv, JobInv, RunJobInv, HelperInv, TimerInv, OtherInv, Zenon DEF Next

\* Helper, timer, state and what was read from the table go together at all times,
\* in every order of the events that mount.c handles.
THEOREM InvAlways == Spec => []Inv
<1>1. Init => Inv
  BY InitInv, Zenon
<1>2. Inv /\ [Next]_vars => Inv'
  BY NextInv, Zenon
<1> QED BY <1>1, <1>2, PTL DEF Spec

\* A state that fits an up-to-date flag fits the table.
LEMMA FitsTable ==
  ASSUME NEW s, NEW b, stacked \in Nat, b = (stacked > 0), Mirroring, Fits(s, b)
  PROVE  (s = "mounted" => stacked > 0) /\ (s \in {"dead", "failed"} => stacked = 0)
<1>1. CASE stacked > 0
  <2>1. b = TRUE
    BY <1>1, Zenon
  <2> QED BY <1>1, <2>1, Zenon DEF Fits
<1>2. CASE ~ (stacked > 0)
  <2>1. stacked = 0
    BY <1>2
  <2>2. (stacked > 0) = FALSE
    BY <2>1
  <2>3. b = FALSE
    BY <2>2, Zenon
  <2> QED BY <2>1, <2>3, Zenon DEF Fits
<1> QED BY <1>1, <1>2, Zenon

\* The state mirrors the kernel's (MirrorsKernel) whenever the table has been read,
\* whoever mounts and unmounts in between.
THEOREM MirrorsKernelAlways == Spec => []MirrorsKernel
<1>1. Inv => MirrorsKernel
  BY FitsTable, Zenon DEF Inv, Good, Agrees, UpToDate, MirrorsKernel
<1> QED BY <1>1, InvAlways, PTL

\* No assertion of mount.c fails (NoAssertion).
THEOREM NoAssertionAlways == Spec => []NoAssertion
<1>1. Inv => NoAssertion
  BY Zenon DEF Inv, Good, Sound, Busy, NoAssertion
<1> QED BY <1>1, InvAlways, PTL

\* A helper is waited for in the states that have one, with the timer set if
\* TimeoutSec= is (TimeoutArmed).
THEOREM TimeoutArmedAlways == Spec => []TimeoutArmed
<1>1. Inv => TimeoutArmed
  BY Zenon DEF Inv, Good, Sound, TimeoutArmed
<1> QED BY <1>1, InvAlways, PTL

\* mount_sigchld_event() decides by what is mounted when it runs (ExitSeesTable),
\* although SIGCHLD may be dispatched before the event of the table.
THEOREM ExitSeesTableAlways == Spec => ExitSeesTable
<1>1. ASSUME Inv, Inv', NEW f \in Exits, mount_sigchld_event(f), Mirroring
      PROVE  /\ mnt'.state = "mounted" => stacked > 0
             /\ mnt'.state \in {"dead", "failed"} => stacked = 0
  <2>1. event' = FALSE /\ stacked' = stacked /\ conf' = conf
    BY <1>1, Zenon DEF mount_sigchld_event, Step
  <2>2. Mirroring'
    BY <1>1, <2>1, Zenon DEF Mirroring
  <2>3. Agrees(mnt)' /\ UpToDate(mnt)'
    BY <1>1, <2>1, Zenon DEF Inv, Good
  <2>4. mnt'.from_proc_self_mountinfo = (stacked > 0)
    BY <2>1, <2>3, Zenon DEF UpToDate
  <2>5. stacked \in Nat
    BY <1>1, Zenon DEF Inv
  <2>6. Fits(mnt'.state, mnt'.from_proc_self_mountinfo)
    BY <1>1, <2>2, <2>3, Zenon DEF Agrees, Fits
  <2> QED BY <1>1, <2>4, <2>5, <2>6, FitsTable, Zenon
<1>2. Inv /\ Inv' => [\A f \in Exits : mount_sigchld_event(f) /\ Mirroring
                          => /\ mnt'.state = "mounted" => stacked > 0
                             /\ mnt'.state \in {"dead", "failed"} => stacked = 0]_vars
  BY <1>1, Zenon
<1> QED BY <1>2, InvAlways, PTL DEF ExitSeesTable

-----------------------------------------------------------------------------
(* The refinement of UnitContract: every function of mount.c changes the   *)
(* state and the job only by mount_set_state(), that is, by a report.      *)

Object(w) == w = [k \in Fields |-> w[k]]
Job(w) == <<w.job, w.run>>
Active(w) == mount_active_state(w.state)

\* x is w as far as the job engine can tell,
Silent(w, x) == x.state = w.state /\ x.job = w.job /\ x.run = w.run /\ x.notified = w.notified

\* w after a call of unit_notify(),
Reports(w, x) == x.notified = Append(w.notified, Active(x)) /\ Job(x) \in Contract!Told(Job(w), Active(x))

\* or one of the two.
Tells(w, x) == Object(x) /\ (Silent(w, x) \/ Reports(w, x))

\* A report that follows nothing of note.
LEMMA SilentFirst ==
  ASSUME NEW w, NEW v, NEW x, Silent(w, v)
  PROVE  (Reports(v, x) => Reports(w, x)) /\ (Tells(v, x) => Tells(w, x))
  BY Zenon DEF Silent, Reports, Tells, Job

\* The job types of the contract are those of the mount.
LEMMA SameJobTypes ==
  /\ \A t, run, ns, ok : Contract!unit_process_job(t, run, ns, ok) = unit_process_job(t, run, ns, ok)
  /\ \A t, s : Contract!MethodTargets(t, s) = MethodTargets(t, s)
  /\ \A t, s : Contract!OnItsWay(t, s) <=> OnItsWay(t, s)
  /\ \A a, b : Contract!job_type_is_conflicting(a, b) <=> job_type_is_conflicting(a, b)
  /\ \A a, b, s : Contract!job_type_merge_and_collapse(a, b, s) = job_type_merge_and_collapse(a, b, s)
  /\ \A s : Contract!IsInactiveOrFailed(s) <=> IsInactiveOrFailed(s)
  /\ Contract!MergingTypes = MergingTypes
<1>1. \A t, run, ns, ok : Contract!unit_process_job(t, run, ns, ok) = unit_process_job(t, run, ns, ok)
  BY ZenonT(30) DEF Contract!unit_process_job, unit_process_job, Contract!IsInactiveOrFailed, IsInactiveOrFailed,
         Contract!IsActiveOrReloading, IsActiveOrReloading
<1>2. \A t, s : Contract!MethodTargets(t, s) = MethodTargets(t, s)
  BY Zenon DEF Contract!MethodTargets, MethodTargets, Contract!UnitActiveState, UnitActiveState,
         Contract!IsInactiveOrFailed, IsInactiveOrFailed
<1>3. \A t, s : Contract!OnItsWay(t, s) <=> OnItsWay(t, s)
  BY Zenon DEF Contract!OnItsWay, OnItsWay
<1>4. \A a, b : Contract!job_type_is_conflicting(a, b) <=> job_type_is_conflicting(a, b)
  BY Zenon DEF Contract!job_type_is_conflicting, job_type_is_conflicting, Contract!job_type_is_mergeable,
         job_type_is_mergeable, Contract!job_type_lookup_merge, job_type_lookup_merge
<1>5. \A a, b, s : Contract!job_type_merge_and_collapse(a, b, s) = job_type_merge_and_collapse(a, b, s)
  BY DEF Contract!job_type_merge_and_collapse, job_type_merge_and_collapse, Contract!job_type_collapse,
         job_type_collapse, Contract!job_type_lookup_merge, job_type_lookup_merge,
         Contract!IsActiveOrReloading, IsActiveOrReloading, Contract!IsActiveOrActivating, IsActiveOrActivating
<1>6. \A s : Contract!IsInactiveOrFailed(s) <=> IsInactiveOrFailed(s)
  BY Zenon DEF Contract!IsInactiveOrFailed, IsInactiveOrFailed
<1>7. Contract!MergingTypes = MergingTypes
  BY Zenon DEF Contract!MergingTypes, MergingTypes
<1> QED BY <1>1, <1>2, <1>3, <1>4, <1>5, <1>6, <1>7, Zenon

\* mount_set_state() is a report.
LEMMA SetStateReports ==
  ASSUME NEW w, Object(w), NEW s
  PROVE  LET x == mount_set_state(w, s) IN Object(x) /\ x.state = s /\ Reports(w, x)
<1> DEFINE v == [w EXCEPT !.state = s, !.moved = TRUE,
                          !.timer = @ /\ s \in MOUNT_STATE_WITH_PROCESS,
                          !.control = IF s \in MOUNT_STATE_WITH_PROCESS THEN @ ELSE "none"]
           ns == mount_active_state(s)
           ok == v.reload_result = "success"
           outcome == unit_process_job(v.job, v.run, ns, ok)
           u == [v EXCEPT !.notified = Append(@, ns)]
           x == mount_set_state(w, s)
<1>1. Object(v) /\ v.state = s /\ v.job = w.job /\ v.run = w.run /\ v.notified = w.notified
  BY Zenon DEF Object, Fields
<1>2. x = IF outcome = "none" THEN u
          ELSE IF outcome = "done" THEN job_finish(u) ELSE [u EXCEPT !.job = "none", !.run = FALSE]
  BY Zenon DEF mount_set_state, unit_notify
<1> HIDE DEF v
<1>3. Object(u) /\ u.state = s /\ Job(u) = Job(w) /\ u.job = w.job /\ u.notified = Append(w.notified, ns)
  BY <1>1, Zenon DEF Object, Fields, Job
<1>4. /\ ok \in BOOLEAN
      /\ outcome = unit_process_job(Job(w)[1], Job(w)[2], ns, ok)
  BY <1>1, Zenon DEF Job
<1> HIDE DEF u, ok, outcome, x
<1>5. /\ Object(x) /\ x.state = s /\ x.notified = Append(w.notified, ns)
      /\ Job(x) = IF outcome = "none" THEN Job(w)
                  ELSE <<IF outcome = "done" /\ w.job = "restart" THEN "start" ELSE "none", FALSE>>
  <2>1. CASE outcome = "none"
    BY <1>2, <1>3, <2>1, Zenon
  <2>2. CASE outcome = "done"
    <3>1. x = [u EXCEPT !.job = IF @ = "restart" THEN "start" ELSE "none", !.run = FALSE]
      BY <1>2, <2>2, Zenon DEF job_finish
    <3>2. Object(x) /\ x.state = u.state /\ x.notified = u.notified /\ x.run = FALSE
          /\ x.job = IF u.job = "restart" THEN "start" ELSE "none"
      BY <1>3, <3>1, Zenon DEF Object, Fields
    <3> QED BY <1>3, <2>2, <3>2, Zenon DEF Job
  <2>3. CASE outcome \notin {"none", "done"}
    <3>1. x = [u EXCEPT !.job = "none", !.run = FALSE]
      BY <1>2, <2>3, Zenon
    <3>2. Object(x) /\ x.state = u.state /\ x.notified = u.notified /\ x.run = FALSE /\ x.job = "none"
      BY <1>3, <3>1, Zenon DEF Object, Fields
    <3> QED BY <1>3, <2>3, <3>2, Zenon DEF Job
  <2> QED BY <2>1, <2>2, <2>3, Zenon
<1>6. Job(x) \in Contract!Told(Job(w), ns)
  <2> DEFINE j == Job(w)
             left(r) == LET o == unit_process_job(j[1], j[2], ns, r)
                        IN IF o = "none" THEN j
                           ELSE <<IF o = "done" /\ j[1] = "restart" THEN "start" ELSE "none", FALSE>>
  <2>1. j[1] = w.job
    BY Zenon DEF Job
  <2>2. Job(x) = left(ok)
    BY <1>4, <1>5, <2>1, Zenon
  <2>3. Contract!Told(j, ns) = {left(r) : r \in BOOLEAN}
    BY SameJobTypes, Zenon DEF Contract!Told
  <2> HIDE DEF j, left
  <2> QED BY <1>4, <2>2, <2>3, Zenon DEF j
<1> QED BY <1>5, <1>6, Zenon DEF Reports, Active, x

\* mount_enter_dead() is one.
LEMMA EnterDeadReports ==
  ASSUME NEW w, Object(w), NEW f, NEW flush_result
  PROVE  LET x == mount_enter_dead(w, f, flush_result)
         IN Object(x) /\ x.state \in {"dead", "failed"} /\ Reports(w, x)
<1> DEFINE v == IF flush_result THEN [w EXCEPT !.result = f] ELSE Blame(w, f)
           s == IF v.result = "success" THEN "dead" ELSE "failed"
<1>1. Object(v) /\ Silent(w, v)
  BY Zenon DEF Object, Fields, Silent, Blame
<1>2. mount_enter_dead(w, f, flush_result) = mount_set_state(v, s) /\ s \in {"dead", "failed"}
  BY Zenon DEF mount_enter_dead
<1> HIDE DEF v, s
<1> QED BY <1>1, <1>2, SetStateReports, SilentFirst, Zenon

\* So is mount_enter_mounted(),
LEMMA EnterMountedReports ==
  ASSUME NEW w, Object(w), NEW f
  PROVE  LET x == mount_enter_mounted(w, f) IN Object(x) /\ x.state = "mounted" /\ Reports(w, x)
<1>1. Object(Blame(w, f)) /\ Silent(w, Blame(w, f))
  BY Zenon DEF Object, Fields, Silent, Blame
<1> QED BY <1>1, SetStateReports, SilentFirst, Zenon DEF mount_enter_mounted

\* The states in which no helper is at work.
Over == {"dead", "failed", "mounted"}

\* mount_enter_dead_or_mounted(),
LEMMA DeadOrMountedReports ==
  ASSUME NEW w, Object(w), NEW f, NEW flush_result
  PROVE  LET x == mount_enter_dead_or_mounted(w, f, flush_result)
         IN Object(x) /\ x.state \in Over /\ Reports(w, x)
  BY EnterDeadReports, EnterMountedReports, Zenon DEF mount_enter_dead_or_mounted, Over

\* mount_enter_signal(), which may fail,
LEMMA SignalReports ==
  ASSUME NEW w, Object(w), NEW state, NEW f, NEW x \in mount_enter_signal(w, state, f)
  PROVE  Object(x) /\ x.state \in Over \cup {state} /\ Reports(w, x)
<1> DEFINE v == Blame(w, f)
           y == mount_arm_timer(v, conf.timeout)
<1>1. Object(v) /\ Silent(w, v)
  BY Zenon DEF Object, Fields, Silent, Blame
<1>2. x \in {mount_enter_mounted(v, "success"), mount_enter_dead_or_mounted(v, "success", FALSE),
             mount_set_state(y, state), mount_enter_dead_or_mounted(v, "resources", FALSE)}
  BY Zenon DEF mount_enter_signal
<1> HIDE DEF v
<1>3. Object(y) /\ Silent(w, y)
  BY <1>1, Zenon DEF Object, Fields, Silent, mount_arm_timer
<1> HIDE DEF y
<1>4. CASE x = mount_set_state(y, state)
  BY <1>3, <1>4, SetStateReports, SilentFirst, Zenon
<1>5. CASE x # mount_set_state(y, state)
  BY <1>1, <1>2, <1>5, EnterMountedReports, DeadOrMountedReports, SilentFirst, Zenon DEF Over
<1> QED BY <1>4, <1>5, Zenon

\* a helper that is spawned,
LEMMA SpawnReports ==
  ASSUME NEW w, Object(w), NEW state
  PROVE  LET x == mount_spawn(w, state) IN Object(x) /\ x.state = state /\ Reports(w, x)
<1> DEFINE y == mount_arm_timer([w EXCEPT !.control = "running"], conf.timeout)
<1>1. Object(y) /\ Silent(w, y)
  BY Zenon DEF Object, Fields, Silent, mount_arm_timer
<1>2. mount_spawn(w, state) = mount_set_state(y, state)
  BY Zenon DEF mount_spawn
<1> HIDE DEF y
<1> QED BY <1>1, <1>2, SetStateReports, SilentFirst, Zenon

\* for umount,
LEMMA UnmountingReports ==
  ASSUME NEW w, Object(w), NEW x \in mount_enter_unmounting(w)
  PROVE  Object(x) /\ x.state \in Over \cup {"unmounting"} /\ Reports(w, x)
<1> DEFINE v == IF w.state \in Unmounting THEN w ELSE [w EXCEPT !.n_retry_umount = 0]
<1>1. Object(v) /\ Silent(w, v)
  BY Zenon DEF Object, Fields, Silent
<1>2. x \in {mount_spawn(v, "unmounting"), mount_enter_dead_or_mounted(v, "resources", FALSE)}
  BY Zenon DEF mount_enter_unmounting
<1> HIDE DEF v
<1> QED BY <1>1, <1>2, SpawnReports, DeadOrMountedReports, SilentFirst, Zenon

\* for mount,
LEMMA MountingReports ==
  ASSUME NEW w, Object(w), NEW x \in mount_enter_mounting(w)
  PROVE  Object(x) /\ x.state \in Over \cup {"mounting"} /\ Reports(w, x)
  BY SpawnReports, DeadOrMountedReports, Zenon DEF mount_enter_mounting

\* and for mount -o remount.
LEMMA RemountingReports ==
  ASSUME NEW w, Object(w), NEW x \in mount_enter_remounting(w)
  PROVE  Object(x) /\ x.state \in Over \cup {"remounting"} /\ Reports(w, x)
<1> DEFINE v == [w EXCEPT !.reload_result = "success"]
           y == mount_set_reload_result(v, "resources")
<1>1. Object(v) /\ Silent(w, v)
  BY Zenon DEF Object, Fields, Silent
<1>2. Object(y) /\ Silent(w, y)
  BY Zenon DEF Object, Fields, Silent, mount_set_reload_result
<1>3. x \in {mount_spawn(v, "remounting"), mount_enter_dead_or_mounted(y, "success", FALSE)}
  BY Zenon DEF mount_enter_remounting
<1> HIDE DEF v, y
<1> QED BY <1>1, <1>2, <1>3, SpawnReports, DeadOrMountedReports, SilentFirst, Zenon

\* Reading the table reports at most once, and of a unit that is not down the
\* state it was in or that it is down.
LEMMA NotMountedTells ==
  ASSUME NEW w, Object(w)
  PROVE  LET x == NotMounted(w)
         IN Tells(w, x) /\ Active(x) \in {Active(w), "inactive", "failed"}
<1> DEFINE v == [w EXCEPT !.from_proc_self_mountinfo = FALSE]
           u == mount_cycle_clear(v)
           x == NotMounted(w)
<1>1. Object(v) /\ Silent(w, v)
  BY Zenon DEF Object, Fields, Silent
<1>2. Object(u) /\ Silent(w, u)
  BY Zenon DEF Object, Fields, Silent, mount_cycle_clear
<1>3. x = IF v.state = "mounted" THEN mount_enter_dead(u, "success", TRUE)
          ELSE IF v.state = "mounting-done" THEN mount_set_state(v, "mounting") ELSE v
  BY Zenon DEF NotMounted
<1> HIDE DEF u, v, x
<1>4. CASE v.state = "mounted"
  <2>1. Object(x) /\ x.state \in {"dead", "failed"} /\ Reports(w, x)
    BY <1>2, <1>3, <1>4, EnterDeadReports, SilentFirst, Zenon
  <2> QED BY <2>1, Zenon DEF Tells, Active, mount_active_state, x
<1>5. CASE v.state = "mounting-done"
  <2>1. Object(x) /\ x.state = "mounting" /\ Reports(w, x) /\ w.state = "mounting-done"
    BY <1>1, <1>3, <1>5, SetStateReports, SilentFirst, Zenon DEF Silent
  <2> QED BY <2>1, Zenon DEF Tells, Active, mount_active_state, Mounting, x
<1>6. CASE v.state \notin {"mounted", "mounting-done"}
  BY <1>1, <1>3, <1>6, Zenon DEF Tells, Silent, Active, x
<1> QED BY <1>4, <1>5, <1>6, Zenon

\* ... and if the mount is in the table
LEMMA IsMountedTells ==
  ASSUME NEW w, Object(w), NEW changed
  PROVE  LET x == IsMounted(w, changed)
         IN Tells(w, x) /\ (w.state \notin {"dead", "failed"} => Active(x) = Active(w))
<1> DEFINE v == [w EXCEPT !.from_proc_self_mountinfo = TRUE]
           u == mount_cycle_clear(v)
           s == IF v.state = "mounting" THEN "mounting-done" ELSE v.state
           x == IsMounted(w, changed)
<1>1. Object(v) /\ Silent(w, v)
  BY Zenon DEF Object, Fields, Silent
<1>2. Object(u) /\ Silent(w, u)
  BY Zenon DEF Object, Fields, Silent, mount_cycle_clear
<1>3. x = IF ~ (JustMounted(w) \/ changed) THEN v
          ELSE IF v.state \in {"dead", "failed"} THEN mount_enter_mounted(u, "success")
          ELSE mount_set_state(v, s)
  BY Zenon DEF IsMounted
<1>4. mount_active_state(s) = Active(v)
  BY Zenon DEF Active, mount_active_state, Mounting
<1> HIDE DEF u, v, s, x
<1>5. CASE x = v
  BY <1>1, <1>5, Zenon DEF Tells, Silent, Active, x
<1>6. CASE x = mount_enter_mounted(u, "success") /\ v.state \in {"dead", "failed"}
  BY <1>1, <1>2, <1>6, EnterMountedReports, SilentFirst DEF Tells, Silent, x
<1>7. CASE x = mount_set_state(v, s)
  <2>1. Object(x) /\ x.state = s /\ Reports(w, x)
    BY <1>1, <1>7, SetStateReports, SilentFirst, Zenon
  <2> QED BY <1>1, <1>4, <2>1, Zenon DEF Tells, Silent, Active, x
<1> QED BY <1>3, <1>5, <1>6, <1>7, Zenon

\* mount_process_proc_self_mountinfo()
LEMMA ProcessTells ==
  ASSUME NEW w, Object(w), NEW x \in mount_process_proc_self_mountinfo(w)
  PROVE  /\ Tells(w, x)
         /\ w.state \notin {"dead", "failed"} => Active(x) \in {Active(w), "inactive", "failed"}
<1> DEFINE v == [w EXCEPT !.invalidated_state = FALSE]
<1>1. Object(v) /\ Silent(w, v)
  BY Zenon DEF Object, Fields, Silent
<1>2. x = w \/ x = NotMounted(v) \/ \E changed : x = IsMounted(v, changed)
  BY Zenon DEF mount_process_proc_self_mountinfo
<1> HIDE DEF v
<1>3. CASE x = w
  BY <1>3, Zenon DEF Tells, Silent
<1>4. CASE x = NotMounted(v)
  BY <1>1, <1>4, NotMountedTells, SilentFirst, Zenon DEF Silent, Active
<1>5. ASSUME NEW changed, x = IsMounted(v, changed)
      PROVE  Tells(w, x) /\ (w.state \notin {"dead", "failed"} => Active(x) = Active(w))
  BY <1>1, <1>5, IsMountedTells, SilentFirst, Zenon DEF Silent, Active
<1> QED BY <1>2, <1>3, <1>4, <1>5, Zenon

\* A helper's exit reports at most once,
LEMMA HelperExitedTells ==
  ASSUME NEW u, Object(u), NEW f, NEW x \in HelperExited(u, f)
  PROVE  Tells(u, x)
<1> DEFINE v == [u EXCEPT !.control = "none"]
           w == IF v.state \in {"remounting"} \cup RemountSignal THEN mount_set_reload_result(v, f)
                ELSE IF v.state \in {"mounting", "unmounting"} THEN v ELSE Blame(v, f)
           y == [w EXCEPT !.n_retry_umount = @ + 1]
<1>1. Object(v) /\ Silent(u, v)
  BY Zenon DEF Object, Fields, Silent
<1>2. \/ \E g, flush_result : x = mount_enter_dead(w, g, flush_result)
      \/ \E g : x = mount_enter_mounted(w, g)
      \/ \E g, flush_result : x = mount_enter_dead_or_mounted(w, g, flush_result)
      \/ x \in mount_enter_unmounting(y)
      \/ x \in Abort(w)
  BY Zenon DEF HelperExited
<1> HIDE DEF v
<1>3. Object(w) /\ Silent(u, w)
  BY <1>1, Zenon DEF Object, Fields, Silent, mount_set_reload_result, Blame
<1> HIDE DEF w
<1>4. Object(y) /\ Silent(u, y)
  BY <1>3, Zenon DEF Object, Fields, Silent
<1> HIDE DEF y
<1>5. CASE \E g, flush_result : x = mount_enter_dead(w, g, flush_result)
  BY <1>3, <1>5, EnterDeadReports, SilentFirst, Zenon DEF Tells
<1>6. CASE \E g : x = mount_enter_mounted(w, g)
  BY <1>3, <1>6, EnterMountedReports, SilentFirst, Zenon DEF Tells
<1>7. CASE \E g, flush_result : x = mount_enter_dead_or_mounted(w, g, flush_result)
  BY <1>3, <1>7, DeadOrMountedReports, SilentFirst, Zenon DEF Tells
<1>8. CASE x \in mount_enter_unmounting(y)
  BY <1>4, <1>8, UnmountingReports, SilentFirst, Zenon DEF Tells
<1>9. CASE x \in Abort(w)
  BY <1>3, <1>9, Zenon DEF Abort, Object, Fields, Silent, Tells
<1> QED BY <1>2, <1>5, <1>6, <1>7, <1>8, <1>9, Zenon

\* ... a timeout,
LEMMA TimedOutTells ==
  ASSUME NEW w, Object(w), NEW x \in TimedOut(w)
  PROVE  Tells(w, x)
<1> DEFINE v == mount_set_reload_result(w, "timeout")
<1>1. Object(v) /\ Silent(w, v)
  BY Zenon DEF Object, Fields, Silent, mount_set_reload_result
<1>2. \/ \E state, f : x \in mount_enter_signal(w, state, f) \/ x \in mount_enter_signal(v, state, f)
      \/ \E f : x = mount_enter_dead_or_mounted(w, f, FALSE) \/ x = mount_enter_dead_or_mounted(v, f, FALSE)
      \/ x \in Abort(w)
  BY Zenon DEF TimedOut
<1> HIDE DEF v
<1>3. CASE \E state, f : x \in mount_enter_signal(w, state, f) \/ x \in mount_enter_signal(v, state, f)
  BY <1>1, <1>3, SignalReports, SilentFirst, Zenon DEF Tells
<1>4. CASE \E f : x = mount_enter_dead_or_mounted(w, f, FALSE) \/ x = mount_enter_dead_or_mounted(v, f, FALSE)
  BY <1>1, <1>4, DeadOrMountedReports, SilentFirst, Zenon DEF Tells
<1>5. CASE x \in Abort(w)
  BY <1>5, Zenon DEF Abort, Object, Fields, Silent, Tells
<1> QED BY <1>2, <1>3, <1>4, <1>5, Zenon

\* ... and mount_catchup().
LEMMA CatchupTells ==
  ASSUME NEW w, Object(w), NEW x \in mount_catchup(w)
  PROVE  Tells(w, x)
<1> DEFINE v == mount_cycle_clear(w)
<1>1. Object(v) /\ Silent(w, v)
  BY Zenon DEF Object, Fields, Silent, mount_cycle_clear
<1>2. \/ x = mount_enter_mounted(v, "success") \/ x = mount_enter_dead(w, "success", FALSE)
      \/ \E s : x = mount_set_state(w, s)
      \/ x = w \/ x \in Abort(w)
  BY Zenon DEF mount_catchup
<1> HIDE DEF v
<1>3. CASE x = mount_enter_mounted(v, "success") \/ x = mount_enter_dead(w, "success", FALSE)
  BY <1>1, <1>3, EnterMountedReports, EnterDeadReports, SilentFirst, Zenon DEF Tells
<1>4. CASE \E s : x = mount_set_state(w, s)
  BY <1>4, SetStateReports, Zenon DEF Tells
<1>5. CASE x = w \/ x \in Abort(w)
  BY <1>5, Zenon DEF Abort, Object, Fields, Silent, Tells
<1> QED BY <1>2, <1>3, <1>4, <1>5, Zenon

-----------------------------------------------------------------------------
(* Steps of the contract.                                                  *)

\* A handler that reports nothing, one state or two.
LEMMA NotifyNone ==
  ASSUME NEW j, mnt'.notified = <<>>, Job(mnt') = j, Active(mnt') = Active(mnt)
  PROVE  Contract!Notify(j)
<1> DEFINE J == {j, <<"start", FALSE>>, <<"none", FALSE>>}
           h == [i \in 0 .. 0 |-> j]
<1>1. Len(mnt'.notified) = 0
  OBVIOUS
<1>2. h \in [0 .. 0 -> J] /\ h[0] = j /\ \A i \in 1 .. 0 : h[i] \in Contract!Told(h[i - 1], mnt'.notified[i])
  OBVIOUS
<1> HIDE DEF h
<1> QED BY <1>1, <1>2, Zenon DEF Contract!Notify, Job, Active

\* A job that is told of a state stays as it is, goes on as a START or is over.
LEMMA ToldAmong ==
  ASSUME NEW j, NEW ns, NEW k \in Contract!Told(j, ns)
  PROVE  k \in {j, <<"start", FALSE>>, <<"none", FALSE>>}
  BY Zenon DEF Contract!Told

\* One state is reported.
LEMMA NotifyOne ==
  ASSUME NEW j, NEW a, mnt'.notified = <<a>>, Job(mnt') \in Contract!Told(j, a), Active(mnt') = a
  PROVE  Contract!Notify(j)
<1> DEFINE J == {j, <<"start", FALSE>>, <<"none", FALSE>>}
           k == Job(mnt')
           h == [i \in 0 .. 1 |-> IF i = 0 THEN j ELSE k]
<1>1. Len(mnt'.notified) = 1 /\ mnt'.notified[1] = a
  OBVIOUS
<1>2. k \in J /\ j \in J
  BY ToldAmong, Zenon
<1> HIDE DEF k, J
<1>3. h \in [0 .. 1 -> J] /\ h[0] = j /\ h[1] = k
  BY <1>2
<1>4. \A i \in 1 .. 1 : h[i] \in Contract!Told(h[i - 1], mnt'.notified[i])
  <2> TAKE i \in 1 .. 1
  <2>1. i = 1 /\ i - 1 = 0
    OBVIOUS
  <2> HIDE DEF h
  <2> QED BY <1>1, <1>3, <2>1, Zenon DEF k
<1>5. <<mnt'.job, mnt'.run>> = h[1] /\ mount_active_state(mnt'.state) = mnt'.notified[1]
  BY <1>1, <1>3, Zenon DEF Job, Active, k
<1> HIDE DEF h
<1> DEFINE n == Len(mnt'.notified)
<1>6. /\ \E g \in [0 .. n -> J] :
           /\ g[0] = j /\ \A i \in 1 .. n : g[i] \in Contract!Told(g[i - 1], mnt'.notified[i])
           /\ <<mnt'.job, mnt'.run>> = g[n]
      /\ mount_active_state(mnt'.state) = IF n = 0 THEN mount_active_state(mnt.state) ELSE mnt'.notified[n]
  <2> HIDE DEF n
  <2>1. n = 1
    BY <1>1, Zenon DEF n
  <2> QED BY <1>3, <1>4, <1>5, <2>1
<1> QED BY <1>6, Zenon DEF Contract!Notify, J

\* Two states are.
LEMMA NotifyTwo ==
  ASSUME NEW j, NEW a, NEW b, Active(mnt') = b,
         Len(mnt'.notified) = 2, mnt'.notified[1] = a, mnt'.notified[2] = b,
         NEW k \in Contract!Told(j, a), Job(mnt') \in Contract!Told(k, b)
  PROVE  Contract!Notify(j)
<1> DEFINE J == {j, <<"start", FALSE>>, <<"none", FALSE>>}
           l == Job(mnt')
           h == [i \in 0 .. 2 |-> IF i = 0 THEN j ELSE IF i = 1 THEN k ELSE l]
<1>1. Len(mnt'.notified) = 2 /\ mnt'.notified[1] = a /\ mnt'.notified[2] = b
  BY Zenon
<1>2. k \in J /\ l \in J /\ j \in J
  BY ToldAmong, ZenonT(30)
<1> HIDE DEF l, J
<1>3. h \in [0 .. 2 -> J] /\ h[0] = j /\ h[1] = k /\ h[2] = l
  BY <1>2
<1>4. \A i \in 1 .. 2 : h[i] \in Contract!Told(h[i - 1], mnt'.notified[i])
  <2> TAKE i \in 1 .. 2
  <2>1. (i = 1 /\ i - 1 = 0) \/ (i = 2 /\ i - 1 = 1)
    OBVIOUS
  <2> HIDE DEF h
  <2> QED BY <1>1, <1>3, <2>1, Zenon DEF l
<1>5. <<mnt'.job, mnt'.run>> = h[2] /\ mount_active_state(mnt'.state) = mnt'.notified[2]
  BY <1>1, <1>3, Zenon DEF Job, Active, l
<1> HIDE DEF h
<1> DEFINE n == Len(mnt'.notified)
<1>6. /\ \E g \in [0 .. n -> J] :
           /\ g[0] = j /\ \A i \in 1 .. n : g[i] \in Contract!Told(g[i - 1], mnt'.notified[i])
           /\ <<mnt'.job, mnt'.run>> = g[n]
      /\ mount_active_state(mnt'.state) = IF n = 0 THEN mount_active_state(mnt.state) ELSE mnt'.notified[n]
  <2> HIDE DEF n
  <2>1. n = 2
    BY <1>1, Zenon DEF n
  <2> QED BY <1>3, <1>4, <1>5, <2>1
<1> QED BY <1>6, Zenon DEF Contract!Notify, J

\* w is the object as a handler finds it.
Begins(w) == Object(w) /\ w.notified = <<>> /\ Active(w) = Active(mnt)

\* The report or the two reports of a handler.
LEMMA TellsNotify ==
  ASSUME NEW w, Begins(w), Tells(w, mnt')
  PROVE  /\ Contract!Notify(Job(w))
         /\ mnt'.notified # <<>> => Head(mnt'.notified) = Active(mnt')
<1>1. CASE Silent(w, mnt')
  <2>1. mnt'.notified = <<>> /\ Job(mnt') = Job(w) /\ Active(mnt') = Active(mnt)
    BY <1>1, Zenon DEF Silent, Begins, Job, Active
  <2> QED BY <2>1, NotifyNone, Zenon
<1>2. CASE Reports(w, mnt')
  <2> DEFINE a == Active(mnt')
  <2>1. mnt'.notified = <<a>> /\ Job(mnt') \in Contract!Told(Job(w), a)
    BY <1>2 DEF Reports, Begins
  <2>2. Head(mnt'.notified) = a
    BY <2>1
  <2> QED BY <2>1, <2>2, NotifyOne, Zenon
<1> QED BY <1>1, <1>2, Zenon DEF Tells

\* ... of one that reads the table first.
LEMMA TellsTwice ==
  ASSUME NEW w, Begins(w), NEW v, Tells(w, v), Tells(v, mnt')
  PROVE  /\ Contract!Notify(Job(w))
         /\ v.notified # <<>> => mnt'.notified # <<>> /\ Head(mnt'.notified) = Active(v)
         /\ v.notified = <<>> /\ mnt'.notified # <<>> => Head(mnt'.notified) = Active(mnt')
<1>1. CASE Silent(w, v)
  <2>1. v.notified = <<>> /\ Tells(w, mnt')
    BY <1>1, SilentFirst, Zenon DEF Silent, Begins
  <2> QED BY <2>1, TellsNotify, Zenon
<1>2. CASE Reports(w, v)
  <2> DEFINE a == Active(v)
             b == Active(mnt')
  <2>1. v.notified = <<a>> /\ Job(v) \in Contract!Told(Job(w), a)
    BY <1>2 DEF Reports, Begins
  <2>2. CASE Silent(v, mnt')
    <3>1. mnt'.notified = <<a>> /\ Job(mnt') = Job(v) /\ b = a
      BY <2>1, <2>2, Zenon DEF Silent, Job, Active
    <3>2. Head(mnt'.notified) = a /\ mnt'.notified # <<>> /\ v.notified # <<>>
      BY <2>1, <3>1
    <3> QED BY <2>1, <3>1, <3>2, NotifyOne, Zenon
  <2>3. CASE Reports(v, mnt')
    <3>1. mnt'.notified = Append(<<a>>, b) /\ Job(mnt') \in Contract!Told(Job(v), b)
      BY <2>1, <2>3, Zenon DEF Reports
    <3>2. LET s == Append(<<a>>, b) IN Len(s) = 2 /\ s[1] = a /\ s[2] = b /\ Head(s) = a /\ s # <<>>
      <4> HIDE DEF a, b
      <4> QED OBVIOUS
    <3>3. v.notified # <<>>
      BY <2>1
    <3> QED BY <2>1, <3>1, <3>2, <3>3, NotifyTwo, Zenon
  <2> QED BY <2>2, <2>3, Zenon DEF Tells
<1> QED BY <1>1, <1>2, Zenon DEF Tells

\* Besides, the unit has a job of one of the types that take part in merging.
HasJob(w) == w.job \in MergingTypes \cup {"none"} /\ w.run \in BOOLEAN

\* A report leaves such a job.
LEMMA TellsJob == ASSUME NEW w, HasJob(w), NEW x, Tells(w, x) PROVE HasJob(x)
<1>1. CASE Silent(w, x)
  BY <1>1, Zenon DEF Silent, HasJob
<1>2. CASE Reports(w, x)
  <2>1. Job(x) \in {Job(w), <<"start", FALSE>>, <<"none", FALSE>>}
    BY <1>2, ToldAmong, Zenon DEF Reports
  <2> QED BY <2>1, Zenon DEF Job, HasJob, MergingTypes
<1> QED BY <1>1, <1>2, Zenon DEF Tells

\* A handler that is no method is a Change of the contract.
LEMMA ChangeStep ==
  ASSUME HasJob(mnt), NEW w, Begins(w), Job(w) = Job(mnt), HasJob(w),
         Tells(w, mnt') \/ \E v : Tells(w, v) /\ Tells(v, mnt')
  PROVE  Contract!Next /\ HasJob(mnt')
<1>1. HasJob(mnt')
  BY TellsJob, Zenon
<1>2. Contract!Notify(Job(mnt))
  BY TellsNotify, TellsTwice, Zenon
<1> QED BY <1>1, <1>2, Zenon DEF Contract!Next, Contract!Change, Job

\* The object as a handler finds it.
LEMMA CalledBegins ==
  ASSUME Inv, HasJob(mnt)
  PROVE  Object(mnt) /\ Begins(Called) /\ Job(Called) = Job(mnt) /\ HasJob(Called)
  BY Zenon DEF Inv, Good, Sound, Busy, Object, Fields, Called, Begins, Active, Job, HasJob

\* job_install() is an Install.
LEMMA InstallStep ==
  ASSUME Inv, HasJob(mnt), NEW t \in Requests, Request(t)
  PROVE  Contract!Next /\ HasJob(mnt')
<1> DEFINE w == Called
           s == mount_active_state(mnt.state)
<1>0. t \in MergingTypes
  BY RequestsAssumption, Zenon
<1>1. /\ Object(w) /\ w.notified = <<>> /\ w.state = mnt.state /\ w.job = mnt.job /\ w.run = mnt.run
      /\ mnt' = job_install(w, s, t)
  BY Zenon DEF Inv, Good, Sound, Busy, Object, Fields, Called, Request, Quietly, Step
<1> HIDE DEF w
<1>2. CASE mnt.job = "none" \/ job_type_is_conflicting(mnt.job, t)
  <2>1. mnt' = [w EXCEPT !.job = t, !.run = FALSE]
    BY <1>1, <1>2, Zenon DEF job_install
  <2>2. /\ mnt'.notified = <<>> /\ Active(mnt') = Active(mnt)
        /\ mnt'.job = t /\ mnt'.run = FALSE
    BY <1>1, <2>1, Zenon DEF Object, Fields, Active
  <2>3. Contract!Notify(<<t, FALSE>>)
    BY <2>2, NotifyNone, Zenon DEF Job
  <2>4. mnt.job = "none" \/ Contract!job_type_is_conflicting(mnt.job, t)
    BY <1>2, SameJobTypes, Zenon
  <2>5. Contract!Install
    BY <1>0, <2>3, <2>4, SameJobTypes, Zenon DEF Contract!Install
  <2> QED BY <1>0, <2>2, <2>5, Zenon DEF Contract!Next, HasJob
<1>3. CASE mnt.job # "none" /\ ~ job_type_is_conflicting(mnt.job, t)
  <2> DEFINE m == job_type_merge_and_collapse(mnt.job, t, s)
             r == mnt.run /\ t # "reload" /\ job_type_is_superset(mnt.job, t)
  <2>1. mnt' = [w EXCEPT !.job = job_type_merge_and_collapse(@, t, s),
                         !.run = @ /\ t # "reload" /\ job_type_is_superset(w.job, t)]
    BY <1>1, <1>3, Zenon DEF job_install
  <2>2. /\ mnt'.notified = <<>> /\ Active(mnt') = Active(mnt)
        /\ mnt'.job = m /\ mnt'.run = r
    BY <1>1, <2>1, Zenon DEF Object, Fields, Active
  <2>3. r \in {FALSE, mnt.run}
    BY Zenon DEF HasJob
  <2>4. m \in MergingTypes
    BY <1>0, <1>3, Zenon DEF HasJob, MergingTypes, job_type_is_conflicting, job_type_is_mergeable, job_type_lookup_merge,
                      job_type_merge_and_collapse, job_type_collapse
  <2> HIDE DEF m, r
  <2>5. Contract!Notify(<<m, r>>)
    BY <2>2, NotifyNone, Zenon DEF Job
  <2>6. ~ (mnt.job = "none" \/ Contract!job_type_is_conflicting(mnt.job, t))
    BY <1>3, SameJobTypes, Zenon
  <2>7. Contract!job_type_merge_and_collapse(mnt.job, t, mount_active_state(mnt.state)) = m
    BY SameJobTypes, Zenon DEF m
  <2>8. Contract!Install
    BY <1>0, <2>3, <2>5, <2>6, <2>7, SameJobTypes, Zenon DEF Contract!Install
  <2> QED BY <2>2, <2>3, <2>4, <2>8, Zenon DEF Contract!Next, HasJob
<1> QED BY <1>2, <1>3, Zenon

\* Every other handler but RunJob is a Cancel or a Change.
LEMMA HandlerStep ==
  ASSUME Inv, HasJob(mnt),
         \/ Kernel \/ mount_invalidate_state_by_path \/ mount_dispatch_io \/ Cancel
         \/ Exit \/ (\E f \in Exits : mount_sigchld_event(f)) \/ mount_dispatch_timer
         \/ mount_reset_failed \/ mount_clean \/ Reload
  PROVE  Contract!Next /\ HasJob(mnt')
<1>0. Object(Called) /\ Begins(Called) /\ Job(Called) = Job(mnt) /\ HasJob(Called)
  BY CalledBegins, Zenon DEF Begins
<1>1. ASSUME NEW x, Object(x), Silent(Called, x), NEW y, Tells(x, y), mnt' = y
      PROVE  Contract!Next /\ HasJob(mnt')
  BY <1>0, <1>1, SilentFirst, ChangeStep, Zenon
<1>2. ASSUME NEW x, Object(x), Silent(Called, x), mnt' = x PROVE Contract!Next /\ HasJob(mnt')
  BY <1>0, <1>2, ChangeStep, Zenon DEF Tells
<1>3. CASE Kernel
  BY <1>0, <1>2, <1>3, Zenon DEF Kernel, Silent
<1>4. CASE mount_invalidate_state_by_path
  <2> DEFINE x == [Called EXCEPT !.invalidated_state = TRUE]
  <2>1. Object(x) /\ Silent(Called, x) /\ mnt' = x
    BY <1>0, <1>4, Zenon DEF mount_invalidate_state_by_path, Object, Fields, Silent
  <2> QED BY <1>2, <2>1, Zenon
<1>5. CASE mount_dispatch_io
  <2>1. mnt' \in mount_process_proc_self_mountinfo(Called)
    BY <1>5, Zenon DEF mount_dispatch_io, Step
  <2> QED BY <1>0, <2>1, ProcessTells, ChangeStep, Zenon
<1>6. CASE Cancel
  <2> DEFINE x == [Called EXCEPT !.job = "none", !.run = FALSE]
  <2>1. mnt.job # "none" /\ mnt' = x
    BY <1>6, Zenon DEF Cancel, Quietly, Step
  <2>2. x.job = "none" /\ x.run = FALSE /\ x.notified = <<>> /\ Active(x) = Active(mnt)
    BY <1>0, Zenon DEF Object, Fields, Begins, Active
  <2> HIDE DEF x
  <2> QED BY <2>1, <2>2, Zenon DEF Contract!Next, Contract!Cancel, Contract!Quiet, HasJob, Active
<1>7. CASE Exit
  <2> DEFINE x == [Called EXCEPT !.control = "exited"]
  <2>1. Object(x) /\ Silent(Called, x) /\ mnt' = x
    BY <1>0, <1>7, Zenon DEF Exit, Quietly, Step, Object, Fields, Silent
  <2> QED BY <1>2, <2>1, Zenon
<1>8. CASE \E f \in Exits : mount_sigchld_event(f)
  <2>1. PICK f \in Exits, v \in mount_process_proc_self_mountinfo(Called) : mnt' \in HelperExited(v, f)
    BY <1>8, Zenon DEF mount_sigchld_event, Step
  <2>2. Tells(Called, v)
    BY <1>0, ProcessTells, Zenon
  <2>3. Tells(v, mnt')
    BY <2>1, <2>2, HelperExitedTells, Zenon DEF Tells
  <2> QED BY <1>0, <2>2, <2>3, ChangeStep, Zenon
<1>9. CASE mount_dispatch_timer
  <2> DEFINE x == [Called EXCEPT !.timer = FALSE, !.tick = TRUE]
  <2>1. Object(x) /\ Silent(Called, x) /\ mnt' \in TimedOut(x)
    BY <1>0, <1>9, Zenon DEF mount_dispatch_timer, Quietly, Step, Object, Fields, Silent
  <2> HIDE DEF x
  <2> QED BY <1>1, <2>1, TimedOutTells, Zenon
<1>10. CASE mount_reset_failed
  <2> DEFINE w == IF mnt.state = "failed" THEN mount_set_state(Called, "dead") ELSE Called
  <2>1. mnt' = mount_cycle_clear(w)
    BY <1>10, Zenon DEF mount_reset_failed, Quietly, Step
  <2>2. Tells(Called, w)
    BY <1>0, SetStateReports, Zenon DEF Tells, Silent
  <2> HIDE DEF w
  <2>3. Tells(w, mnt')
    BY <2>1, <2>2, Zenon DEF mount_cycle_clear, Tells, Object, Fields, Silent
  <2> QED BY <1>0, <2>2, <2>3, ChangeStep, Zenon
<1>11. CASE mount_clean
  <2> DEFINE x == mount_arm_timer([Called EXCEPT !.control = "running"], conf.timeout_clean)
  <2>1. Object(x) /\ Silent(Called, x) /\ mnt' = mount_set_state(x, "cleaning")
    BY <1>0, <1>11, Zenon DEF mount_clean, mount_arm_timer, Quietly, Step, Object, Fields, Silent
  <2> HIDE DEF x
  <2> QED BY <1>1, <2>1, SetStateReports, Zenon DEF Tells
<1>12. CASE Reload
  <2> DEFINE x == [Called EXCEPT !.from_proc_self_mountinfo = stacked > 0,
                                 !.invalidated_state = FALSE,
                                 !.timer = conf.timeout /\ mnt.control # "none",
                                 !.armed = mnt.moved, !.moved = FALSE]
  <2>1. Object(x) /\ Silent(Called, x) /\ mnt' \in mount_catchup(x)
    BY <1>0, <1>12, Zenon DEF Reload, Quietly, Step, Object, Fields, Silent
  <2> HIDE DEF x
  <2> QED BY <1>1, <2>1, CatchupTells, Zenon
<1> QED BY <1>3, <1>4, <1>5, <1>6, <1>7, <1>8, <1>9, <1>10, <1>11, <1>12, Zenon

-----------------------------------------------------------------------------
(* Methods.                                                                *)

\* A job that is being run: w is the object the method is called on.
Runs(w) ==
    /\ Begins(w) /\ w.state = mnt.state /\ w.job = mnt.job /\ w.run = TRUE
    /\ mnt.job \in MergingTypes /\ mnt.run = FALSE

\* The job is put off,
LEMMA TryAgainStep == ASSUME NEW w, Runs(w), mnt' = TryAgain(w) PROVE Contract!Next /\ HasJob(mnt')
<1>1. mnt'.job = mnt.job /\ mnt'.run = FALSE /\ mnt'.notified = <<>> /\ Active(mnt') = Active(mnt)
  BY Zenon DEF Runs, Begins, TryAgain, Object, Fields, Active
<1>2. Contract!Notify(Job(mnt))
  BY <1>1, NotifyNone, Zenon DEF Job, Runs
<1> QED BY <1>1, <1>2, Zenon DEF Contract!Next, Contract!Change, Job, Runs, HasJob

\* is over at once,
LEMMA FinishStep ==
  ASSUME NEW w, Runs(w), mnt.job = "restart" => IsInactiveOrFailed(Active(mnt)), mnt' = job_finish(w)
  PROVE  Contract!Next /\ HasJob(mnt')
<1>1. /\ mnt'.job = IF mnt.job = "restart" THEN "start" ELSE "none"
      /\ mnt'.run = FALSE /\ mnt'.notified = <<>> /\ Active(mnt') = Active(mnt)
  BY Zenon DEF Runs, Begins, job_finish, Object, Fields, Active
<1>2. /\ mnt.job # "none" /\ mnt.run = FALSE
      /\ mnt'.job = IF mnt.job = "restart" /\ Contract!IsInactiveOrFailed(Active(mnt)) THEN "start" ELSE "none"
  BY <1>1, SameJobTypes, Zenon DEF Runs, MergingTypes
<1>3. Contract!Run
  BY <1>1, <1>2, Zenon DEF Contract!Run, Contract!Quiet, Active
<1> QED BY <1>1, <1>3, Zenon DEF Contract!Next, HasJob, MergingTypes

\* waits for what is on its way,
LEMMA WaitStep ==
  ASSUME NEW w, Runs(w), OnItsWay(mnt.job, Active(mnt)), Tells(w, mnt'), mnt'.notified = <<>>
  PROVE  Contract!Next /\ HasJob(mnt')
<1>1. Silent(w, mnt')
  BY DEF Tells, Reports, Runs, Begins
<1>2. /\ mnt'.job = mnt.job /\ mnt'.run = TRUE /\ mnt'.notified = <<>> /\ Active(mnt') = Active(mnt)
      /\ mnt.job # "none" /\ mnt.run = FALSE /\ Contract!OnItsWay(mnt.job, Active(mnt))
  BY <1>1, SameJobTypes, Zenon DEF Silent, Runs, Begins, Active, MergingTypes
<1>3. Contract!Run
  BY <1>2, Zenon DEF Contract!Run, Contract!Quiet, Active
<1> QED BY <1>2, <1>3, Zenon DEF Contract!Next, HasJob, Runs

\* or makes the unit act.
LEMMA PerformStep ==
  ASSUME NEW w, Runs(w), Contract!Notify(Job(w)), mnt'.notified # <<>>,
         Head(mnt'.notified) \in MethodTargets(mnt.job, Active(mnt)), HasJob(mnt')
  PROVE  Contract!Next
<1>1. Contract!Notify(<<mnt.job, TRUE>>) /\ mnt.job # "none" /\ mnt.run = FALSE
  BY Zenon DEF Runs, Job, MergingTypes
<1>2. Contract!MethodTargets(mnt.job, Active(mnt)) = MethodTargets(mnt.job, Active(mnt))
  BY SameJobTypes, Zenon
<1>3. Head(mnt'.notified) \in Contract!MethodTargets(mnt.job, mount_active_state(mnt.state))
  <2>1. Head(mnt'.notified) \in Contract!MethodTargets(mnt.job, Active(mnt))
    BY <1>2, Zenon
  <2> QED BY <2>1, Zenon DEF Active
<1>4. Contract!Perform
  BY <1>1, <1>3, Zenon DEF Contract!Perform
<1> QED BY <1>4, Zenon DEF Contract!Next

\* ... in one report
LEMMA MethodStep ==
  ASSUME NEW w, Runs(w), Object(mnt'), Reports(w, mnt'), Active(mnt') \in MethodTargets(mnt.job, Active(mnt))
  PROVE  Contract!Next /\ HasJob(mnt')
<1>1. HasJob(w) /\ Begins(w) /\ Tells(w, mnt')
  BY Zenon DEF Runs, HasJob, Tells
<1>2. mnt'.notified # <<>>
  BY DEF Reports, Runs, Begins
<1>3. HasJob(mnt')
  BY <1>1, TellsJob, Zenon
<1> QED BY <1>1, <1>2, <1>3, TellsNotify, PerformStep, Zenon

\* What the states are to other units.
LEMMA ActiveStates ==
  ASSUME NEW w
  PROVE  /\ w.state \in {"dead", "failed"} => Active(w) \in {"inactive", "failed"}
         /\ w.state = "mounted" => Active(w) = "active"
         /\ w.state = "mounting" => Active(w) = "activating"
         /\ w.state = "remounting" => Active(w) = "reloading"
         /\ w.state \in Mounting => Active(w) = "activating"
         /\ w.state \in Unmounting => Active(w) = "deactivating"
         /\ w.state \in MountState =>
              /\ Active(w) \in {"inactive", "failed"} => w.state \in {"dead", "failed"}
              /\ Active(w) = "active" => w.state = "mounted"
              /\ w.state \notin {"dead", "failed"} =>
                   Active(w) \in {"active", "activating", "reloading", "deactivating", "maintenance"}
  BY Zenon DEF Active, mount_active_state, Mounting, RemountSignal, Unmounting, MountState, MOUNT_STATE_WITH_PROCESS

\* A START job,
LEMMA StartStep ==
  ASSUME Inv, NEW w, Runs(w), mnt.job = "start", mnt' \in unit_start(w), ~ mnt'.aborted
  PROVE  Contract!Next /\ HasJob(mnt')
<1> DEFINE v == mount_cycle_clear(w)
<1>1. Object(w) /\ Active(w) = Active(mnt) /\ mnt.state \in MountState /\ w.state = mnt.state
  BY Zenon DEF Runs, Begins, Inv, Good, Sound
<1>2. Object(v) /\ Silent(w, v)
  BY <1>1, Zenon DEF Object, Fields, Silent, mount_cycle_clear
<1>3. \/ mnt' = TryAgain(w) \/ mnt' = job_finish(w)
      \/ /\ ~ IsActiveOrReloading(Active(w)) /\ Active(w) # "maintenance"
         /\ mnt' = mount_enter_dead(w, "start-limit-hit", FALSE)
      \/ w.state \in Mounting /\ mnt' = w
      \/ mnt' \in Abort(w)
      \/ w.state \in {"dead", "failed"} /\ mnt' \in mount_enter_mounting(v)
  BY Zenon DEF unit_start, mount_start, Active
<1> HIDE DEF v
<1>4. CASE mnt' = TryAgain(w)
  BY <1>4, TryAgainStep, Zenon
<1>5. CASE mnt' = job_finish(w)
  BY <1>5, FinishStep, Zenon
<1>6. CASE /\ ~ IsActiveOrReloading(Active(w)) /\ Active(w) # "maintenance"
           /\ mnt' = mount_enter_dead(w, "start-limit-hit", FALSE)
  <2>1. Object(mnt') /\ Reports(w, mnt') /\ Active(mnt') \in {"inactive", "failed"}
    BY <1>1, <1>6, EnterDeadReports, ActiveStates, Zenon
  <2>2. Active(mnt) \in {"inactive", "failed", "activating", "deactivating"}
    BY <1>1, <1>6, ActiveStates, Zenon DEF IsActiveOrReloading
  <2>3. Active(mnt') \in MethodTargets("start", Active(mnt))
    BY <2>1, <2>2, Zenon DEF MethodTargets
  <2> QED BY <2>1, <2>3, MethodStep, Zenon
<1>7. CASE w.state \in Mounting /\ mnt' = w
  <2>1. OnItsWay("start", Active(mnt)) /\ Tells(w, mnt') /\ mnt'.notified = <<>>
    BY <1>1, <1>7, ActiveStates, Zenon DEF OnItsWay, Tells, Silent, Runs, Begins
  <2> QED BY <2>1, WaitStep, Zenon
<1>8. CASE mnt' \in Abort(w)
  BY <1>1, <1>8, Zenon DEF Abort, Object, Fields
<1>9. CASE w.state \in {"dead", "failed"} /\ mnt' \in mount_enter_mounting(v)
  <2>1. Object(mnt') /\ mnt'.state \in Over \cup {"mounting"} /\ Reports(w, mnt')
    BY <1>2, <1>9, MountingReports, SilentFirst, Zenon
  <2>2. Active(mnt') \in {"inactive", "failed", "active", "activating"} /\ Active(mnt) \in {"inactive", "failed"}
    BY <1>1, <1>9, <2>1, ActiveStates, Zenon DEF Over
  <2>3. Active(mnt') \in MethodTargets("start", Active(mnt))
    BY <2>2, Zenon DEF MethodTargets
  <2> QED BY <2>1, <2>3, MethodStep, Zenon
<1> QED BY <1>3, <1>4, <1>5, <1>6, <1>7, <1>8, <1>9, Zenon

\* a RELOAD job,
LEMMA ReloadStep ==
  ASSUME Inv, NEW w, Runs(w), mnt.job = "reload", mnt' \in unit_reload(w), ~ mnt'.aborted
  PROVE  Contract!Next /\ HasJob(mnt')
<1>1. Object(w) /\ Active(w) = Active(mnt) /\ mnt.state \in MountState /\ w.state = mnt.state
  BY Zenon DEF Runs, Begins, Inv, Good, Sound
<1>2. \/ mnt' = TryAgain(w) \/ mnt' = job_finish(w)
      \/ w.state = "mounted" /\ mnt' \in mount_enter_remounting(w)
      \/ mnt' \in Abort(w)
  BY Zenon DEF unit_reload, mount_reload
<1>3. CASE mnt' = TryAgain(w)
  BY <1>3, TryAgainStep, Zenon
<1>4. CASE mnt' = job_finish(w)
  BY <1>4, FinishStep, Zenon
<1>5. CASE w.state = "mounted" /\ mnt' \in mount_enter_remounting(w)
  <2>1. Object(mnt') /\ mnt'.state \in Over \cup {"remounting"} /\ Reports(w, mnt')
    BY <1>1, <1>5, RemountingReports, Zenon
  <2>2. Active(mnt') \in {"inactive", "failed", "active", "reloading"} /\ Active(mnt) = "active"
    BY <1>1, <1>5, <2>1, ActiveStates, Zenon DEF Over
  <2>3. Active(mnt') \in MethodTargets("reload", Active(mnt))
    BY <2>2, Zenon DEF MethodTargets, UnitActiveState
  <2> QED BY <2>1, <2>3, MethodStep, Zenon
<1>6. CASE mnt' \in Abort(w)
  BY <1>1, <1>6, Zenon DEF Abort, Object, Fields
<1> QED BY <1>2, <1>3, <1>4, <1>5, <1>6, Zenon

\* a STOP or RESTART job, with or without a look at the table.
LEMMA MountStopTells ==
  ASSUME NEW w, Object(w), w.state \in MountState, NEW x \in mount_stop(w)
  PROVE  /\ Tells(w, x)
         /\ \/ Reports(w, x) /\ Active(x) \in {"active", "deactivating", "inactive", "failed"}
            \/ x = w /\ w.state \in Unmounting \cup {"dead", "failed"}
<1>1. \/ \E state \in {"unmounting-sigterm", "unmounting-sigkill"} :
            x \in mount_enter_signal(w, state, "success") \/ x = mount_set_state(w, state)
      \/ x \in mount_enter_unmounting(w)
      \/ x = w /\ w.state \in Unmounting \cup {"dead", "failed"}
  BY Zenon DEF mount_stop, MountState, MOUNT_STATE_WITH_PROCESS, Mounting, RemountSignal, Unmounting
<1>2. ASSUME Object(x), x.state \in Over \cup Unmounting, Reports(w, x)
      PROVE  Tells(w, x) /\ Reports(w, x) /\ Active(x) \in {"active", "deactivating", "inactive", "failed"}
  BY <1>2, ActiveStates, Zenon DEF Over, Tells
<1>3. CASE \E state \in {"unmounting-sigterm", "unmounting-sigkill"} :
              x \in mount_enter_signal(w, state, "success") \/ x = mount_set_state(w, state)
  <2>1. Object(x) /\ x.state \in Over \cup Unmounting /\ Reports(w, x)
    BY <1>3, SignalReports, SetStateReports DEF Unmounting
  <2> QED BY <1>2, <2>1, Zenon
<1>4. CASE x \in mount_enter_unmounting(w)
  <2>1. Object(x) /\ x.state \in Over \cup Unmounting /\ Reports(w, x)
    BY <1>4, UnmountingReports, Zenon DEF Unmounting
  <2> QED BY <1>2, <2>1, Zenon
<1>5. CASE x = w /\ w.state \in Unmounting \cup {"dead", "failed"}
  BY <1>5, Zenon DEF Tells, Silent
<1> QED BY <1>1, <1>3, <1>4, <1>5, Zenon

\* v is what w came to when the table was read, or w itself.
LEMMA StopStep ==
  ASSUME Inv, NEW w, Runs(w), mnt.job \in {"stop", "restart"},
         mnt.state \notin {"dead", "failed"},
         NEW v, Tells(w, v), v.state \in MountState, Active(v) \in {Active(w), "inactive", "failed"},
         v.notified = <<>> => v.state = w.state,
         mnt' \in mount_stop(v)
  PROVE  Contract!Next /\ HasJob(mnt')
<1>1. Active(w) = Active(mnt) /\ mnt.state \in MountState /\ w.state = mnt.state /\ Begins(w) /\ HasJob(w)
  BY Zenon DEF Runs, Begins, Inv, Good, Sound, HasJob
<1>2. /\ Tells(v, mnt')
      /\ \/ Reports(v, mnt') /\ Active(mnt') \in {"active", "deactivating", "inactive", "failed"}
         \/ mnt' = v /\ v.state \in Unmounting \cup {"dead", "failed"}
  BY MountStopTells, Zenon DEF Tells
<1>3. HasJob(mnt')
  BY <1>1, <1>2, TellsJob, Zenon
<1>4. MethodTargets(mnt.job, Active(mnt)) = {Active(mnt), "active", "deactivating", "inactive", "failed"}
  <2>1. ~ IsInactiveOrFailed(Active(mnt))
    BY <1>1, ActiveStates, Zenon DEF IsInactiveOrFailed
  <2> QED BY <2>1, Zenon DEF MethodTargets
<1>5. /\ Contract!Notify(Job(w))
      /\ v.notified # <<>> => mnt'.notified # <<>> /\ Head(mnt'.notified) = Active(v)
      /\ v.notified = <<>> /\ mnt'.notified # <<>> => Head(mnt'.notified) = Active(mnt')
  BY <1>1, <1>2, TellsTwice, Zenon
<1>6. CASE v.notified # <<>>
  BY <1>1, <1>3, <1>4, <1>5, <1>6, PerformStep, Zenon
<1>7. CASE v.notified = <<>> /\ Reports(v, mnt')
  <2>1. mnt'.notified # <<>> /\ Head(mnt'.notified) = Active(mnt')
    BY <1>5, <1>7 DEF Reports
  <2>2. Active(mnt') \in {"active", "deactivating", "inactive", "failed"}
    <3>1. mnt' # v
      BY <1>7, <2>1, Zenon
    <3> QED BY <1>2, <3>1, Zenon
  <2> QED BY <1>3, <1>4, <1>5, <2>1, <2>2, PerformStep, Zenon
<1>8. CASE v.notified = <<>> /\ ~ Reports(v, mnt')
  <2>1. mnt' = v /\ mnt.state \in Unmounting
    BY <1>1, <1>2, <1>8, Zenon
  <2>2. OnItsWay(mnt.job, Active(mnt))
    BY <2>1, ActiveStates, Zenon DEF OnItsWay
  <2> QED BY <1>8, <2>1, <2>2, WaitStep, Zenon
<1> QED BY <1>6, <1>7, <1>8, Zenon

\* job_run_and_invalidate()
LEMMA RunJobStep ==
  ASSUME Inv, Inv', HasJob(mnt), RunJob
  PROVE  Contract!Next /\ HasJob(mnt')
<1> DEFINE w == [Called EXCEPT !.run = TRUE]
           read == w.job \in {"stop", "restart"} /\ w.invalidated_state
                   /\ ~ IsInactiveOrFailed(mount_active_state(w.state))
<1>1. Object(w) /\ Begins(w) /\ w.state = mnt.state /\ w.job = mnt.job /\ w.run = TRUE
  BY CalledBegins, ZenonT(30) DEF Begins, Object, Fields, Active, Called
<1>2. /\ mnt.job # "none" /\ mnt.run = FALSE
      /\ mnt' \in IF w.job = "start" THEN unit_start(w)
                  ELSE IF w.job = "verify" THEN verify_active(w, mount_active_state(w.state))
                  ELSE IF w.job = "reload" THEN unit_reload(w)
                  ELSE IF read THEN UNION {mount_stop(x) : x \in mount_process_proc_self_mountinfo(w)}
                  ELSE unit_stop(w)
  BY Zenon DEF RunJob, Step, HasJob
<1>3. ~ mnt'.aborted
  BY Zenon DEF Inv, Good, Sound, Busy
<1> HIDE DEF w
<1>4. Runs(w) /\ mnt.state \in MountState /\ Active(w) = Active(mnt)
  BY <1>1, <1>2, Zenon DEF Runs, HasJob, Begins, Inv, Good, Sound
<1>5. CASE mnt.job = "start"
  BY <1>1, <1>2, <1>3, <1>4, <1>5, StartStep, Zenon
<1>6. CASE mnt.job = "verify"
  <2>1. mnt' = TryAgain(w) \/ mnt' = job_finish(w)
    BY <1>1, <1>2, <1>6, Zenon DEF verify_active
  <2> QED BY <1>4, <1>6, <2>1, TryAgainStep, FinishStep, Zenon
<1>7. CASE mnt.job = "reload"
  BY <1>1, <1>2, <1>3, <1>4, <1>7, ReloadStep, Zenon
<1>8. CASE mnt.job \in {"stop", "restart"} /\ mnt.state \in {"dead", "failed"}
  <2>1. IsInactiveOrFailed(Active(mnt))
    BY <1>8, ActiveStates, Zenon DEF IsInactiveOrFailed
  <2>2. mnt' = job_finish(w)
    BY <1>1, <1>2, <1>4, <1>8, <2>1, Zenon DEF unit_stop, Active
  <2> QED BY <1>4, <2>1, <2>2, FinishStep, Zenon
<1>9. CASE mnt.job \in {"stop", "restart"} /\ mnt.state \notin {"dead", "failed"}
  <2>1. ~ IsInactiveOrFailed(Active(mnt))
    BY <1>4, <1>9, ActiveStates, Zenon DEF IsInactiveOrFailed
  <2>2. CASE read
    <3>1. PICK v \in mount_process_proc_self_mountinfo(w) : mnt' \in mount_stop(v)
      BY <1>1, <1>2, <1>9, <2>2, Zenon
    <3>2. Tells(w, v) /\ Active(v) \in {Active(w), "inactive", "failed"}
      BY <1>1, <1>9, <3>1, ProcessTells, Zenon
    <3>3. v.state \in MountState
      <4>1. Good(w) /\ (~ event => UpToDate(w)) /\ stacked \in Nat
        <5>1. Busy(w) /\ Like(w, Called)
          BY CalledGood, Zenon DEF Good, Sound, Busy, Fields, Like, w
        <5> QED BY <5>1, CalledGood, LikeGood, Zenon DEF Inv, Like, UpToDate
      <4> QED BY <3>1, <4>1, Process, Zenon DEF Good, Sound
    <3>4. v.notified = <<>> => v.state = w.state
      BY <1>1, <3>2 DEF Tells, Silent, Reports, Begins
    <3> QED BY <1>4, <1>9, <3>1, <3>2, <3>3, <3>4, StopStep, ZenonT(30)
  <2>3. CASE ~ read
    <3>1. mnt' \in mount_stop(w)
      BY <1>1, <1>2, <1>4, <1>9, <2>1, <2>3, Zenon DEF unit_stop, Active
    <3>2. Tells(w, w) /\ w.state \in MountState
      BY <1>1, <1>4, Zenon DEF Tells, Silent
    <3> QED BY <1>4, <1>9, <3>1, <3>2, StopStep, Zenon
  <2> QED BY <2>2, <2>3, Zenon
<1> QED BY <1>2, <1>4, <1>5, <1>6, <1>7, <1>8, <1>9, Zenon DEF Runs, MergingTypes

\* Every step of mount.c is one of the contract.
LEMMA NextStep ==
  ASSUME Inv, Inv', HasJob(mnt), [Next]_vars PROVE [Contract!Next]_(Contract!vars) /\ HasJob(mnt')
<1>1. CASE UNCHANGED vars
  BY <1>1, Zenon DEF vars, Contract!vars, HasJob
<1>2. CASE Next
  BY <1>2, RunJobStep, HandlerStep, InstallStep, Zenon DEF Next
<1> QED BY <1>1, <1>2, Zenon

LEMMA InitStep == ASSUME Init PROVE Contract!Init /\ HasJob(mnt)
  BY DEF Init, Contract!Init, HasJob, mount_active_state

\* The unit's job is one that can be installed.
LEMMA HasJobAlways == Spec => []HasJob(mnt)
<1>1. Init => HasJob(mnt)
  BY InitStep, Zenon
<1>2. Inv /\ Inv' /\ HasJob(mnt) /\ [Next]_vars => HasJob(mnt)'
  BY NextStep, Zenon
<1> QED BY <1>1, <1>2, InvAlways, PTL DEF Spec

\* A mount is a unit as the job engine takes it to be (ImplementsContract): every
\* step of mount.c, seen from unit_notify() and u->job, is one of UnitContract.
THEOREM ImplementsContractAlways == Spec => ImplementsContract
<1>1. Init => Contract!Init
  BY InitStep, Zenon
<1>2. Inv /\ Inv' /\ HasJob(mnt) /\ [Next]_vars => [Contract!Next]_(Contract!vars)
  BY NextStep, Zenon
<1> QED BY <1>1, <1>2, InvAlways, HasJobAlways, PTL DEF Spec, ImplementsContract, Contract!Spec

-----------------------------------------------------------------------------
(* The values of the fields.                                               *)

Tries == 0 .. RETRY_UMOUNT_MAX

\* The fields Inv says little of have their types.
Valued(w) ==
    /\ Object(w) /\ w.result \in MountResult /\ w.reload_result \in MountResult
    /\ w.n_retry_umount \in Tries /\ w.control \in {"none", "running", "exited"}

\* What cannot be done ends with one of these results.
LEMMA Results ==
  /\ Exits \cup {"success", "resources", "timeout", "protocol", "start-limit-hit"} \subseteq MountResult
  BY ExitsAssumption, Zenon DEF MountResult

\* x differs from w in none of them.
LEMMA KeptValued ==
  ASSUME NEW w, Valued(w), NEW x, Object(x), x.result = w.result, x.reload_result = w.reload_result,
         x.n_retry_umount = w.n_retry_umount, x.control = w.control
  PROVE  Valued(x)
  BY Zenon DEF Valued

LEMMA BlameValued == ASSUME NEW w, Valued(w), NEW f \in MountResult PROVE Valued(Blame(w, f))
  BY Zenon DEF Valued, Blame, Object, Fields

LEMMA FlushValued == ASSUME NEW w, Valued(w), NEW f \in MountResult PROVE Valued([w EXCEPT !.result = f])
  BY Zenon DEF Valued, Object, Fields

LEMMA ClearValued == ASSUME NEW w, Valued(w) PROVE Valued(mount_cycle_clear(w))
  BY Results, Zenon DEF Valued, mount_cycle_clear, Object, Fields

LEMMA ReloadResultValued ==
  ASSUME NEW w, Valued(w), NEW f \in MountResult PROVE Valued(mount_set_reload_result(w, f))
  BY Zenon DEF Valued, mount_set_reload_result, Object, Fields

LEMMA ArmValued == ASSUME NEW w, Valued(w), NEW finite PROVE Valued(mount_arm_timer(w, finite))
  BY Zenon DEF Valued, mount_arm_timer, Object, Fields

LEMMA ControlValued ==
  ASSUME NEW w, Valued(w), NEW c \in {"none", "running", "exited"} PROVE Valued([w EXCEPT !.control = c])
  BY Zenon DEF Valued, Object, Fields

LEMMA FromValued == ASSUME NEW w, Valued(w), NEW b PROVE Valued([w EXCEPT !.from_proc_self_mountinfo = b])
  BY Zenon DEF Valued, Object, Fields

\* Nor do jobs that end, are put off or hear of a state.
LEMMA JobValued == ASSUME NEW w, Valued(w) PROVE Valued(job_finish(w)) /\ Valued(TryAgain(w))
<1>1. Valued(job_finish(w))
  BY Zenon DEF Valued, job_finish, Object, Fields
<1>2. Valued(TryAgain(w))
  BY Zenon DEF Valued, TryAgain, Object, Fields
<1> QED BY <1>1, <1>2, Zenon

LEMMA NotifyValued == ASSUME NEW w, Valued(w), NEW ns PROVE Valued(unit_notify(w, ns))
<1> DEFINE v == [w EXCEPT !.notified = Append(@, ns)]
<1>1. Valued(v)
  BY Zenon DEF Valued, Object, Fields
<1>2. unit_notify(w, ns) \in {v, job_finish(v), [v EXCEPT !.job = "none", !.run = FALSE]}
  BY Zenon DEF unit_notify
<1> HIDE DEF v
<1>3. Valued([v EXCEPT !.job = "none", !.run = FALSE])
  BY <1>1, Zenon DEF Valued, Object, Fields
<1> QED BY <1>1, <1>2, <1>3, JobValued, Zenon

LEMMA SetStateValued == ASSUME NEW w, Valued(w), NEW s PROVE Valued(mount_set_state(w, s))
<1> DEFINE v == [w EXCEPT !.state = s, !.moved = TRUE,
                          !.timer = @ /\ s \in MOUNT_STATE_WITH_PROCESS,
                          !.control = IF s \in MOUNT_STATE_WITH_PROCESS THEN @ ELSE "none"]
<1>1. v = [k \in Fields |-> v[k]]
  BY Zenon DEF Valued, Object
<1>2. /\ v.result = w.result /\ v.reload_result = w.reload_result /\ v.n_retry_umount = w.n_retry_umount
      /\ v.control = w.control \/ v.control = "none"
  BY Zenon DEF Valued, Object, Fields
<1>3. mount_set_state(w, s) = unit_notify(v, mount_active_state(s))
  BY Zenon DEF mount_set_state
<1> HIDE DEF v
<1>4. Valued(v)
  BY <1>1, <1>2, Zenon DEF Valued, Object
<1> QED BY <1>3, <1>4, NotifyValued, Zenon

LEMMA DeadValued ==
  ASSUME NEW w, Valued(w), NEW f \in MountResult, NEW flush_result PROVE Valued(mount_enter_dead(w, f, flush_result))
  BY BlameValued, FlushValued, SetStateValued, Zenon DEF mount_enter_dead

LEMMA MountedValued == ASSUME NEW w, Valued(w), NEW f \in MountResult PROVE Valued(mount_enter_mounted(w, f))
  BY BlameValued, SetStateValued, Zenon DEF mount_enter_mounted

LEMMA DeadOrMountedValued ==
  ASSUME NEW w, Valued(w), NEW f \in MountResult, NEW flush_result
  PROVE  Valued(mount_enter_dead_or_mounted(w, f, flush_result))
  BY DeadValued, MountedValued, Zenon DEF mount_enter_dead_or_mounted

LEMMA SignalValued ==
  ASSUME NEW w, Valued(w), NEW state, NEW f \in MountResult, NEW x \in mount_enter_signal(w, state, f)
  PROVE  Valued(x)
<1> DEFINE v == Blame(w, f)
<1>1. Valued(v)
  BY BlameValued, Zenon
<1>2. x \in {mount_enter_mounted(v, "success"), mount_enter_dead_or_mounted(v, "success", FALSE),
            mount_set_state(mount_arm_timer(v, conf.timeout), state),
            mount_enter_dead_or_mounted(v, "resources", FALSE)}
  BY Zenon DEF mount_enter_signal
<1> HIDE DEF v
<1>3. Valued(mount_set_state(mount_arm_timer(v, conf.timeout), state))
  BY <1>1, ArmValued, SetStateValued, Zenon
<1> QED BY <1>1, <1>2, <1>3, Results, MountedValued, DeadOrMountedValued, ZenonT(30)

LEMMA SpawnValued == ASSUME NEW w, Valued(w), NEW state PROVE Valued(mount_spawn(w, state))
<1>1. Valued([w EXCEPT !.control = "running"])
  BY ControlValued, Zenon
<1> QED BY <1>1, ArmValued, SetStateValued, Zenon DEF mount_spawn

LEMMA UnmountingValued == ASSUME NEW w, Valued(w), NEW x \in mount_enter_unmounting(w) PROVE Valued(x)
<1> DEFINE v == IF w.state \in Unmounting THEN w ELSE [w EXCEPT !.n_retry_umount = 0]
<1>1. 0 \in Tries
  BY BoundsAssumption DEF Tries
<1>2. Valued([w EXCEPT !.n_retry_umount = 0])
  BY <1>1, Zenon DEF Valued, Object, Fields
<1>3. Valued(v)
  BY <1>2, Zenon
<1>4. x \in {mount_spawn(v, "unmounting"), mount_enter_dead_or_mounted(v, "resources", FALSE)}
  BY Zenon DEF mount_enter_unmounting
<1> HIDE DEF v
<1> QED BY <1>3, <1>4, Results, SpawnValued, DeadOrMountedValued, ZenonT(30)

LEMMA MountingValued == ASSUME NEW w, Valued(w), NEW x \in mount_enter_mounting(w) PROVE Valued(x)
<1>1. x \in {mount_spawn(w, "mounting"), mount_enter_dead_or_mounted(w, "resources", FALSE)}
  BY Zenon DEF mount_enter_mounting
<1> QED BY <1>1, Results, SpawnValued, DeadOrMountedValued, ZenonT(30)

LEMMA RemountingValued == ASSUME NEW w, Valued(w), NEW x \in mount_enter_remounting(w) PROVE Valued(x)
<1> DEFINE v == [w EXCEPT !.reload_result = "success"]
           y == mount_set_reload_result(v, "resources")
<1>1. Valued(v)
  BY Results, Zenon DEF Valued, Object, Fields
<1>2. x \in {mount_spawn(v, "remounting"), mount_enter_dead_or_mounted(y, "success", FALSE)}
  BY Zenon DEF mount_enter_remounting
<1> HIDE DEF v
<1>3. Valued(y)
  BY <1>1, Results, ReloadResultValued, Zenon
<1> HIDE DEF y
<1> QED BY <1>1, <1>2, <1>3, Results, SpawnValued, DeadOrMountedValued, ZenonT(30)

\* The table is read.
LEMMA ProcessValued == ASSUME NEW w, Valued(w), NEW x \in mount_process_proc_self_mountinfo(w) PROVE Valued(x)
<1> DEFINE v == [w EXCEPT !.invalidated_state = FALSE]
<1>1. Valued(v)
  BY Zenon DEF Valued, Object, Fields
<1>2. x = w \/ x = NotMounted(v) \/ \E changed \in BOOLEAN : x = IsMounted(v, changed)
  BY Zenon DEF mount_process_proc_self_mountinfo
<1> HIDE DEF v
<1>3. Valued(NotMounted(v))
  <2> DEFINE y == [v EXCEPT !.from_proc_self_mountinfo = FALSE]
  <2>1. Valued(y) /\ Valued(mount_cycle_clear(y))
    BY <1>1, FromValued, ClearValued, Zenon
  <2>2. NotMounted(v) \in {mount_enter_dead(mount_cycle_clear(y), "success", TRUE), mount_set_state(y, "mounting"), y}
    BY Zenon DEF NotMounted
  <2> HIDE DEF y
  <2> QED BY <2>1, <2>2, Results, DeadValued, SetStateValued, ZenonT(30)
<1>4. ASSUME NEW changed PROVE Valued(IsMounted(v, changed))
  <2> DEFINE y == [v EXCEPT !.from_proc_self_mountinfo = TRUE]
             s == IF y.state = "mounting" THEN "mounting-done" ELSE y.state
  <2>1. Valued(y) /\ Valued(mount_cycle_clear(y))
    BY <1>1, FromValued, ClearValued, Zenon
  <2>2. IsMounted(v, changed) \in {y, mount_enter_mounted(mount_cycle_clear(y), "success"), mount_set_state(y, s)}
    BY Zenon DEF IsMounted
  <2> HIDE DEF y, s
  <2> QED BY <2>1, <2>2, Results, MountedValued, SetStateValued
<1> QED BY <1>2, <1>3, <1>4, Zenon

\* A job is run.
LEMMA StartValued == ASSUME NEW w, Valued(w), NEW x \in unit_start(w) PROVE Valued(x)
<1>1. ASSUME x \in mount_start(w) PROVE Valued(x)
  <2>1. Valued([w EXCEPT !.aborted = TRUE])
    BY Zenon DEF Valued, Object, Fields
  <2>2. x \in {TryAgain(w), w, [w EXCEPT !.aborted = TRUE]} \/ x \in mount_enter_mounting(mount_cycle_clear(w))
    BY <1>1, Zenon DEF mount_start, Abort
  <2> QED BY <2>1, <2>2, JobValued, ClearValued, MountingValued, Zenon
<1>2. x \in {TryAgain(w), job_finish(w), mount_enter_dead(w, "start-limit-hit", FALSE)} \/ x \in mount_start(w)
  BY Zenon DEF unit_start
<1> QED BY <1>1, <1>2, Results, JobValued, DeadValued, ZenonT(30)

LEMMA MountStopValued == ASSUME NEW w, Valued(w), NEW x \in mount_stop(w) PROVE Valued(x)
<1>1. \/ \E s : x \in mount_enter_signal(w, s, "success") \/ x = mount_set_state(w, s)
      \/ x \in mount_enter_unmounting(w) \/ x = w
  BY Zenon DEF mount_stop
<1> QED BY <1>1, Results, SignalValued, SetStateValued, UnmountingValued

LEMMA ReloadValued == ASSUME NEW w, Valued(w), NEW x \in unit_reload(w) PROVE Valued(x)
<1>1. Valued([w EXCEPT !.aborted = TRUE])
  BY Zenon DEF Valued, Object, Fields
<1>2. x \in {TryAgain(w), job_finish(w), [w EXCEPT !.aborted = TRUE]} \/ x \in mount_enter_remounting(w)
  BY Zenon DEF unit_reload, mount_reload, Abort
<1> QED BY <1>1, <1>2, JobValued, RemountingValued, Zenon

\* The helper has ended: umount is run again only while there are tries left.
LEMMA HelperExitedValued ==
  ASSUME NEW u, Valued(u), NEW f \in MountResult, NEW x \in HelperExited(u, f)
  PROVE  Valued(x)
<1> DEFINE v == [u EXCEPT !.control = "none"]
           w == IF v.state \in {"remounting"} \cup RemountSignal THEN mount_set_reload_result(v, f)
                ELSE IF v.state \in {"mounting", "unmounting"} THEN v ELSE Blame(v, f)
           more == [w EXCEPT !.n_retry_umount = @ + 1]
           g == IF f = "success" THEN "protocol" ELSE f
<1>1. Valued(v)
  BY ControlValued, Zenon
<1>2. Valued(w)
  <2> HIDE DEF v
  <2> QED BY <1>1, ReloadResultValued, BlameValued, Zenon
<1>3. g \in MountResult
  BY Results, Zenon
<1>4. \/ x \in {mount_enter_dead(w, g, FALSE), mount_enter_mounted(w, f), mount_enter_dead_or_mounted(w, "success", FALSE),
               mount_enter_mounted(w, "protocol"), mount_enter_dead(w, "success", TRUE),
               mount_enter_dead_or_mounted(w, f, TRUE), mount_enter_dead_or_mounted(w, f, FALSE),
               mount_enter_dead(w, "success", FALSE), [w EXCEPT !.aborted = TRUE]}
      \/ TriesLeft(w) /\ x \in mount_enter_unmounting(more)
  <2>1. x \in IF w.state = "mounting" THEN {mount_enter_dead(w, g, FALSE)}
              ELSE IF w.state = "mounting-done" THEN {mount_enter_mounted(w, f)}
              ELSE IF w.state \in {"remounting"} \cup RemountSignal THEN {mount_enter_dead_or_mounted(w, "success", FALSE)}
              ELSE IF w.state = "unmounting" /\ f = "success" /\ w.from_proc_self_mountinfo
              THEN IF TriesLeft(w) THEN mount_enter_unmounting(more) ELSE {mount_enter_mounted(w, "protocol")}
              ELSE IF w.state = "unmounting" /\ f = "exit-code" /\ ~ w.from_proc_self_mountinfo
              THEN {mount_enter_dead(w, "success", TRUE)}
              ELSE IF w.state = "unmounting" THEN {mount_enter_dead_or_mounted(w, f, TRUE)}
              ELSE IF w.state \in Unmounting THEN {mount_enter_dead_or_mounted(w, f, FALSE)}
              ELSE IF w.state = "cleaning" THEN {mount_enter_dead(w, "success", FALSE)}
              ELSE Abort(w)
    BY Zenon DEF HelperExited
  <2> HIDE DEF w, g, more
  <2> QED BY <2>1, Zenon DEF Abort
<1> HIDE DEF w, g
<1>5. ASSUME TriesLeft(w) PROVE Valued(more)
  <2>1. w.n_retry_umount + 1 \in Tries
    BY <1>2, <1>5, BoundsAssumption DEF Valued, Tries, TriesLeft
  <2> DEFINE n == w.n_retry_umount + 1
  <2> HIDE DEF n
  <2>2. more = [w EXCEPT !.n_retry_umount = n]
    BY Zenon DEF n
  <2>3. n \in Tries
    BY <2>1, Zenon DEF n
  <2> QED BY <1>2, <2>2, <2>3, Zenon DEF Valued, Object, Fields
<1>6. Valued([w EXCEPT !.aborted = TRUE])
  BY <1>2, Zenon DEF Valued, Object, Fields
<1> HIDE DEF more
<1>7. CASE TriesLeft(w) /\ x \in mount_enter_unmounting(more)
  BY <1>5, <1>7, UnmountingValued, Zenon
<1>8. \A h \in MountResult : \A b : /\ Valued(mount_enter_dead(w, h, b)) /\ Valued(mount_enter_mounted(w, h))
                                     /\ Valued(mount_enter_dead_or_mounted(w, h, b))
  BY <1>2, DeadValued, MountedValued, DeadOrMountedValued, Zenon
<1>9. "success" \in MountResult /\ "protocol" \in MountResult
  BY Results, Zenon
<1> QED BY <1>3, <1>4, <1>6, <1>7, <1>8, <1>9, Zenon

\* It takes too long.
LEMMA TimedOutValued == ASSUME NEW w, Valued(w), NEW x \in TimedOut(w) PROVE Valued(x)
<1> DEFINE reload == mount_set_reload_result(w, "timeout")
<1>1. Valued(reload)
  BY Results, ReloadResultValued, Zenon
<1>2. Valued([w EXCEPT !.aborted = TRUE])
  BY Zenon DEF Valued, Object, Fields
<1>3. \/ \E s : \/ x \in mount_enter_signal(w, s, "timeout") \/ x \in mount_enter_signal(reload, s, "success")
               \/ x \in mount_enter_signal(w, s, "success")
      \/ x \in {mount_enter_dead_or_mounted(reload, "success", FALSE), mount_enter_dead_or_mounted(w, "timeout", FALSE),
               [w EXCEPT !.aborted = TRUE]}
  BY Zenon DEF TimedOut, Abort
<1> HIDE DEF reload
<1>4. "success" \in MountResult /\ "timeout" \in MountResult
  BY Results, Zenon
<1>5. CASE \E s : \/ x \in mount_enter_signal(w, s, "timeout") \/ x \in mount_enter_signal(reload, s, "success")
                 \/ x \in mount_enter_signal(w, s, "success")
  BY <1>1, <1>4, <1>5, SignalValued, Zenon
<1>6. /\ Valued(mount_enter_dead_or_mounted(reload, "success", FALSE))
      /\ Valued(mount_enter_dead_or_mounted(w, "timeout", FALSE))
  BY <1>1, <1>4, DeadOrMountedValued, Zenon
<1> QED BY <1>2, <1>3, <1>5, <1>6, Zenon

\* The state is read back.
LEMMA CatchupValued == ASSUME NEW w, Valued(w), NEW x \in mount_catchup(w) PROVE Valued(x)
<1>1. Valued([w EXCEPT !.aborted = TRUE]) /\ Valued(mount_cycle_clear(w))
  BY ClearValued, Zenon DEF Valued, Object, Fields
<1>2. x \in {[w EXCEPT !.aborted = TRUE], mount_enter_mounted(mount_cycle_clear(w), "success"),
            mount_set_state(w, "mounting-done"), w, mount_set_state(w, "mounting"),
            mount_enter_dead(w, "success", FALSE)}
  BY Zenon DEF mount_catchup, Abort
<1> QED BY <1>1, <1>2, Results, MountedValued, SetStateValued, DeadValued, ZenonT(30)

\* No step leaves a field without its type.
LEMMA NextValued == ASSUME Valued(mnt), [Next]_vars PROVE Valued(mnt')
<1>1. Valued(Called)
  BY Zenon DEF Called, Valued, Object, Fields
<1>2. ASSUME NEW outcomes, Step(outcomes), \A x \in outcomes : Valued(x) PROVE Valued(mnt')
  BY <1>2, Zenon DEF Step
<1>3. CASE Kernel \/ mount_invalidate_state_by_path
  <2>1. Valued([Called EXCEPT !.invalidated_state = TRUE])
    BY <1>1, Zenon DEF Valued, Object, Fields
  <2> QED BY <1>1, <1>3, <2>1, Zenon DEF Kernel, mount_invalidate_state_by_path
<1>4. CASE mount_dispatch_io
  BY <1>1, <1>2, <1>4, ProcessValued, Zenon DEF mount_dispatch_io
<1>5. CASE Cancel \/ \E t \in Requests : Request(t)
  <2> DEFINE Sets(j, r) == [Called EXCEPT !.job = j, !.run = r]
  <2>1. \A j, r : Valued(Sets(j, r))
    BY <1>1, ZenonT(30) DEF Valued, Object, Fields
  <2>2. CASE Cancel
    <3>1. mnt' = Sets("none", FALSE)
      BY <2>2, Zenon DEF Cancel, Quietly, Step
    <3> HIDE DEF Sets
    <3> QED BY <2>1, <3>1, Zenon
  <2>3. CASE \E t \in Requests : Request(t)
    <3>1. PICK t \in Requests : Request(t)
      BY <2>3, Zenon
    <3> DEFINE a == mount_active_state(mnt.state)
               j == job_type_merge_and_collapse(Called.job, t, a)
               r == Called.run /\ t # "reload" /\ job_type_is_superset(Called.job, t)
    <3>2. mnt' = job_install(Called, a, t)
      BY <3>1, Zenon DEF Request, Quietly, Step
    <3>3. job_install(Called, a, t) \in {Sets(t, FALSE), Sets(j, r)}
      BY Zenon DEF job_install
    <3> HIDE DEF a, j, r, Sets
    <3> QED BY <2>1, <3>2, <3>3, Zenon
  <2> QED BY <1>5, <2>2, <2>3, Zenon
<1>6. CASE RunJob
  <2> DEFINE w == [Called EXCEPT !.run = TRUE]
  <2>1. Valued(w)
    BY <1>1, Zenon DEF Valued, Object, Fields
  <2>2. \/ mnt' \in unit_start(w) \/ mnt' \in verify_active(w, mount_active_state(w.state))
        \/ mnt' \in unit_reload(w) \/ mnt' \in UNION {mount_stop(x) : x \in mount_process_proc_self_mountinfo(w)}
        \/ mnt' \in unit_stop(w)
    BY <1>6, Zenon DEF RunJob, Step
  <2> HIDE DEF w
  <2>3. CASE mnt' \in unit_start(w) \/ mnt' \in unit_reload(w)
    BY <2>1, <2>3, StartValued, ReloadValued, Zenon
  <2>4. CASE mnt' \in verify_active(w, mount_active_state(w.state))
    BY <2>1, <2>4, JobValued, Zenon DEF verify_active
  <2>5. CASE mnt' \in UNION {mount_stop(x) : x \in mount_process_proc_self_mountinfo(w)}
    BY <2>1, <2>5, ProcessValued, MountStopValued, Zenon
  <2>6. CASE mnt' \in unit_stop(w)
    BY <2>1, <2>6, JobValued, MountStopValued, Zenon DEF unit_stop
  <2> QED BY <2>2, <2>3, <2>4, <2>5, <2>6, Zenon
<1>7. CASE Exit
  <2>1. Valued([Called EXCEPT !.control = "exited"])
    BY <1>1, ControlValued, Zenon
  <2> QED BY <1>2, <1>7, <2>1, Zenon DEF Exit, Quietly
<1>8. CASE \E f \in Exits : mount_sigchld_event(f)
  <2>1. PICK f \in Exits : mount_sigchld_event(f)
    BY <1>8, Zenon
  <2>2. f \in MountResult
    BY Results, Zenon
  <2>3. PICK w \in mount_process_proc_self_mountinfo(Called) : mnt' \in HelperExited(w, f)
    BY <2>1, Zenon DEF mount_sigchld_event, Step
  <2> QED BY <1>1, <2>2, <2>3, ProcessValued, HelperExitedValued, Zenon
<1>9. CASE mount_dispatch_timer
  <2>1. Valued([Called EXCEPT !.timer = FALSE, !.tick = TRUE])
    BY <1>1, Zenon DEF Valued, Object, Fields
  <2> QED BY <1>2, <1>9, <2>1, TimedOutValued, Zenon DEF mount_dispatch_timer, Quietly
<1>10. CASE mount_reset_failed \/ mount_clean
  <2>1. ASSUME mount_reset_failed PROVE Valued(mnt')
    BY <1>1, <1>2, <2>1, SetStateValued, ClearValued, Zenon DEF mount_reset_failed, Quietly
  <2>2. ASSUME mount_clean PROVE Valued(mnt')
    BY <1>1, <1>2, <2>2, ControlValued, ArmValued, SetStateValued, ZenonT(30) DEF mount_clean, Quietly
  <2> QED BY <1>10, <2>1, <2>2, Zenon
<1>11. CASE Reload
  <2>1. ASSUME NEW a, NEW b, NEW c
        PROVE Valued([Called EXCEPT !.from_proc_self_mountinfo = a, !.invalidated_state = FALSE, !.timer = b,
                                    !.armed = c, !.moved = FALSE])
    BY <1>1, Zenon DEF Valued, Object, Fields
  <2> QED BY <1>2, <1>11, <2>1, CatchupValued, Zenon DEF Reload, Quietly
<1>12. CASE UNCHANGED vars
  BY <1>12, Zenon DEF vars
<1> QED BY <1>3, <1>4, <1>5, <1>6, <1>7, <1>8, <1>9, <1>10, <1>11, <1>12, ZenonT(30) DEF Next

\* The fields of a mount keep their types, and umount is not run more often than
\* RETRY_UMOUNT_MAX allows (TypeOK): n_retry_umount goes up only with tries left,
\* and from 0 whenever an unmount begins.
THEOREM TypeOKAlways == Spec => []TypeOK
<1>1. Init => Valued(mnt)
  <2>1. 0 \in Tries
    BY BoundsAssumption DEF Tries
  <2>2. "success" \in MountResult
    BY Results, Zenon
  <2>3. ASSUME Init PROVE Object(mnt) /\ mnt.result = "success" /\ mnt.reload_result = "success"
                          /\ mnt.n_retry_umount = 0 /\ mnt.control = "none"
    BY <2>3, Zenon DEF Init, Object, Fields
  <2> QED BY <2>1, <2>2, <2>3, Zenon DEF Valued
<1>2. Valued(mnt) /\ [Next]_vars => Valued(mnt)'
  BY NextValued, Zenon
<1>3. Inv /\ HasJob(mnt) /\ Valued(mnt) => TypeOK
  <2>1. Inv /\ HasJob(mnt) /\ Valued(mnt)
        => mnt.state \in MountState /\ mnt.result \in MountResult /\ mnt.reload_result \in MountResult
    BY Zenon DEF Inv, Good, Sound, Valued
  <2> QED BY <2>1, Zenon DEF HasJob, Valued, Tries, TypeOK
<1> QED BY <1>1, <1>2, <1>3, InvAlways, HasJobAlways, PTL DEF Spec

=============================================================================
