---------------------------- MODULE CpufreqPolicy ----------------------------
(***************************************************************************)
(* The policy of the cpufreq core, drivers/cpufreq/cpufreq.c, its rw       *)
(* semaphore and its governors: tasks that write the policy's sysfs files, *)
(* the work of the vbfs governor, which samples and sets the frequency on  *)
(* its own (cpufreq_vbfs.c; cpufreq_ondemand.c has the same shape), and    *)
(* the userspace governor (cpufreq_userspace.c), which sets what it is     *)
(* told.  All the CPUs of the machine share one policy.                    *)
(*                                                                         *)
(* The driver is here only what the core asks of it: a frequency of the    *)
(* table between the limits it reads after it took its set_freq_lock, set  *)
(* before it gives the lock back; ExynosDvfs has the rest of it.  A        *)
(* transition may plug a CPU in or out (DvfsHotplug says when), and the    *)
(* core's CPU notifier then wants the semaphore.  A task that asks for the *)
(* clock's frequency may find that it is not policy->cur, which the core   *)
(* then corrects, and has the policy evaluated anew.                       *)
(***************************************************************************)
EXTENDS Integers

CONSTANTS
  Writers,     (* tasks that write to the policy's sysfs files              *)
  Work,        (* the worker that runs the delayed work of vbfs             *)
  NoOne,       (* the owner of a free lock                                  *)
  Freqs,       (* the frequencies of the table                              *)
  Hotplug,     (* whether a transition may plug CPUs                        *)
  Bias,        (* whether powersave_bias is in use                          *)
  MaxFail      (* bound of the sysfs_create_group calls that fail           *)

ASSUME ThreadsAssumption ==
  /\ Work \notin Writers
  /\ NoOne \notin Writers \cup {Work}

ASSUME FreqsAssumption == Freqs \subseteq Nat \ {0} /\ Freqs # {}

ASSUME SwitchesAssumption ==
  Hotplug \in BOOLEAN /\ Bias \in BOOLEAN /\ MaxFail \in Nat

Threads == Writers \cup {Work}
Governors == {"vbfs", "userspace"}
Locks == {"rwsem", "vbfs_mutex", "timer_mutex", "userspace_mutex",
          "set_freq_lock"}

VARIABLES
  policy,      (* the policy's min, max and governor                        *)
  user_policy, (* the same as the user set them                             *)
  cur,         (* policy->cur                                               *)
  clock,       (* the frequency of the ARM clock                            *)
  update,      (* policy->update, the work of handle_update, is pending     *)
  lock,        (* the owner of each lock; rwsem counts its writers only     *)
  pc, op,      (* where each thread is and what it was asked to do          *)
  want, next,  (* the target of each thread and of the transition           *)
  queued,      (* vbfs's delayed work is pending                            *)
  sub,         (* its next sample is a sub sample                           *)
  freq_lo,     (* the frequency of a sub sample, 0 if none                  *)
  set_flag,    (* l_vbfs_cpufreq_set_flag                                   *)
  vbfs,        (* vbfs_enable, whether timer_mutex is initialised, whether
                  the sysfs group exists and sampling_rate is set           *)
  userspace,   (* cpus_using_userspace_governor, cpu_is_managed and the
                  cpu_min_freq, cpu_max_freq and cpu_set_freq               *)
  failed       (* history: the sysfs_create_group calls that failed for
                  each governor                                             *)

state == <<policy, user_policy, cur, clock, update>>
threads == <<lock, pc, op, want, next>>
sampling == <<queued, sub, freq_lo, set_flag>>
governors == <<vbfs, userspace, failed>>
vars == <<state, threads, sampling, governors>>

-----------------------------------------------------------------------------

(* What a task writes, a limit, a speed or a governor, that it reads the    *)
(* clock's frequency, or that it is the worker of the update                *)
NoOp == [kind |-> "none", freq |-> 0, governor |-> "none"]

Ops ==
  [kind : {"min", "max", "speed"}, freq : Freqs, governor : {"none"}]
    \cup [kind : {"governor"}, freq : {0}, governor : Governors]
    \cup [kind : {"get"}, freq : {0}, governor : {"none"}]

Unmanaged == [count |-> 0, managed |-> FALSE, min |-> 0, max |-> 0, set |-> 0]

(* Task t has the semaphore as a reader                                     *)
Reading(t) == op[t].kind = "get" /\ pc[t] # "rwsem"

NotOwned(l) == lock[l] = NoOne
Free(l) == NotOwned(l) /\ (l = "rwsem" => \A t \in Threads : ~Reading(t))
Acquire(t, l) == Free(l) /\ lock' = [lock EXCEPT ![l] = t]
Release(l) == lock' = [lock EXCEPT ![l] = NoOne]
Goto(t, p) == pc' = [pc EXCEPT ![t] = p]

Clip(f, lo, hi) == IF f > hi THEN hi ELSE IF f < lo THEN lo ELSE f

(* Both governors could be the default one                                  *)
Init ==
  /\ policy \in [min : Freqs, max : Freqs, governor : Governors]
  /\ \A f \in Freqs : policy.min <= f /\ f <= policy.max
  /\ user_policy = policy
  /\ cur \in Freqs /\ clock = cur /\ update = FALSE
  /\ lock = [l \in Locks |-> NoOne]
  /\ pc = [t \in Threads |-> "idle"]
  /\ op = [t \in Threads |-> NoOp]
  /\ want = [t \in Threads |-> 0] /\ next = cur
  /\ queued = (policy.governor = "vbfs") /\ set_flag = FALSE
  /\ sub = FALSE /\ freq_lo = 0
  /\ vbfs = IF queued
            THEN [enable |-> 1, ready |-> TRUE, group |-> TRUE, rate |-> TRUE]
            ELSE [enable |-> 0, ready |-> FALSE, group |-> FALSE,
                  rate |-> FALSE]
  /\ userspace = IF queued THEN Unmanaged
                 ELSE [count |-> 1, managed |-> TRUE, min |-> policy.min,
                       max |-> policy.max, set |-> cur]
  /\ failed = [g \in Governors |-> 0]

-----------------------------------------------------------------------------
(* store: a task takes the semaphore and calls the file's store function    *)

Write(t) ==
  /\ pc[t] = "idle"
  /\ \E o \in Ops : op' = [op EXCEPT ![t] = o]
  /\ Goto(t, "rwsem")
  /\ UNCHANGED <<state, lock, want, next, sampling, governors>>

(* handle_update, in a worker, which the resume of the system and a task    *)
(* that found the frequency wrong ask for                                   *)
HandleUpdate(t) ==
  /\ pc[t] = "idle" /\ update
  /\ update' = FALSE
  /\ op' = [op EXCEPT ![t] = [NoOp EXCEPT !.kind = "update"]]
  /\ Goto(t, "rwsem")
  /\ UNCHANGED <<policy, user_policy, cur, clock, lock, want, next, sampling,
                 governors>>

(* cpufreq_bp_resume; the tasks are frozen                                  *)
BpResume ==
  /\ \A t \in Writers : pc[t] = "idle"
  /\ update' = TRUE
  /\ UNCHANGED <<policy, user_policy, cur, clock, threads, sampling, governors>>

-----------------------------------------------------------------------------
(* __cpufreq_get and cpufreq_update_policy ask the driver for the frequency *)

(* show_cpuinfo_cur_freq has the semaphore as a reader, cpufreq_update_policy *)
(* as a writer                                                              *)
ReadFreq(t) ==
  /\ pc[t] = "rwsem"
  /\ \/ op[t].kind = "get" /\ NotOwned("rwsem") /\ UNCHANGED lock
     \/ op[t].kind = "update" /\ Acquire(t, "rwsem")
  /\ want' = [want EXCEPT ![t] = clock]
  /\ Goto(t, "compare")
  /\ UNCHANGED <<state, op, next, sampling, governors>>

(* The caller goes on: the read is over, the update sets the policy         *)
Known(t) ==
  IF op[t].kind = "get" THEN Goto(t, "idle") /\ op' = [op EXCEPT ![t] = NoOp]
  ELSE Goto(t, "set_policy") /\ UNCHANGED op

(* By now a transition may have changed policy->cur                         *)
Compare(t) ==
  /\ pc[t] = "compare"
  /\ IF want[t] = cur THEN Known(t) ELSE Goto(t, "announce") /\ UNCHANGED op
  /\ UNCHANGED <<state, lock, want, next, sampling, governors>>

UpdateAsked_Never(t) == FALSE
UpdateAsked(t) == op[t].kind = "get"

(* cpufreq_out_of_sync: POSTCHANGE stores the frequency that was read; the  *)
(* reader asks for an update                                                *)
OutOfSync(t) ==
  /\ pc[t] = "announce" \/ (pc[t] = "notified" /\ op[t].kind \in {"get", "update"})
  /\ cur' = want[t]
  /\ update' = (update \/ UpdateAsked(t))
  /\ Known(t)
  /\ UNCHANGED <<policy, user_policy, clock, lock, want, next, sampling,
                 governors>>

-----------------------------------------------------------------------------
(* store_one, store_scaling_governor and cpufreq_update_policy: the policy  *)
(* to set                                                                   *)
NewPolicy(o) ==
  CASE o.kind = "min" -> [policy EXCEPT !.min = o.freq]
    [] o.kind = "max" -> [policy EXCEPT !.max = o.freq]
    [] o.kind = "governor" -> [policy EXCEPT !.governor = o.governor]
    [] o.kind = "update" -> user_policy

AfterRefusal_Returns(t) == Goto(t, "idle")
AfterRefusal(t) == Goto(t, "unlock")

Refused(new) == new.min > policy.max \/ new.max < policy.min

(* __cpufreq_set_policy stores the limits; if the governor changes it is    *)
(* stopped, which the new one follows                                       *)
SetPolicy(t) ==
  LET new == NewPolicy(op[t])
  IN /\ \/ /\ pc[t] = "rwsem" /\ op[t].kind \in {"min", "max", "governor"}
           /\ Acquire(t, "rwsem")
        \/ pc[t] = "set_policy" /\ UNCHANGED lock
     /\ IF Refused(new)
        THEN AfterRefusal(t) /\ UNCHANGED <<policy, op>>
        ELSE /\ policy' = [policy EXCEPT !.min = new.min, !.max = new.max]
             /\ op' = [op EXCEPT ![t].governor = new.governor]
             /\ Goto(t, IF new.governor # policy.governor
                        THEN "stop" ELSE "limits")
     /\ UNCHANGED <<user_policy, cur, clock, update, want, next, sampling,
                    governors>>

(* The caller of __cpufreq_set_policy notes what was set, whether that      *)
(* failed or not, and gives the semaphore back                              *)
Unlock(t) ==
  /\ pc[t] = "unlock"
  /\ user_policy' =
       CASE op[t].kind = "min" -> [user_policy EXCEPT !.min = policy.min]
         [] op[t].kind = "max" -> [user_policy EXCEPT !.max = policy.max]
         [] op[t].kind = "governor" ->
              [user_policy EXCEPT !.governor = policy.governor]
         [] OTHER -> user_policy
  /\ Release("rwsem")
  /\ op' = [op EXCEPT ![t] = NoOp]
  /\ Goto(t, "idle")
  /\ UNCHANGED <<policy, cur, clock, update, want, next, sampling, governors>>

-----------------------------------------------------------------------------
(* __cpufreq_governor(CPUFREQ_GOV_STOP), under the semaphore                *)

(* vbfs_timer_exit: cancel_delayed_work_sync takes the work off the queue   *)
(* ...                                                                      *)
Cancel_UnderTimerMutex(t) ==
  /\ pc[t] = "stop" /\ policy.governor = "vbfs"
  /\ Acquire(t, "timer_mutex")
  /\ queued' = FALSE
  /\ Goto(t, "wait_work")
  /\ UNCHANGED <<state, op, want, next, sub, freq_lo, set_flag, governors>>

Cancel(t) ==
  /\ pc[t] = "stop" /\ policy.governor = "vbfs"
  /\ queued' = FALSE
  /\ Goto(t, "wait_work")
  /\ UNCHANGED <<state, lock, op, want, next, sub, freq_lo, set_flag,
                 governors>>

(* ... and waits until it does not run                                      *)
WorkIsOver_NoSync == TRUE
WorkIsOver == pc[Work] = "idle"

EnableAfterStop_Kept == vbfs.enable
EnableAfterStop == vbfs.enable - 1

StopVbfs(t) ==
  /\ pc[t] = "wait_work" /\ WorkIsOver
  /\ Free("vbfs_mutex")
  /\ vbfs' = [vbfs EXCEPT !.ready = FALSE, !.enable = EnableAfterStop,
                          !.group = @ /\ EnableAfterStop # 0]
  /\ Goto(t, "start")
  /\ UNCHANGED <<state, lock, op, want, next, sampling, userspace, failed>>

StopUserspace(t) ==
  /\ pc[t] = "stop" /\ policy.governor = "userspace"
  /\ Free("userspace_mutex")
  /\ userspace' = [Unmanaged EXCEPT !.count = userspace.count - 1]
  /\ Goto(t, "start")
  /\ UNCHANGED <<state, lock, op, want, next, sampling, vbfs, failed>>

-----------------------------------------------------------------------------
(* CPUFREQ_GOV_START: of the new governor and, when that fails, of the old  *)
(* one again, whose failure is ignored                                      *)

Starting(t, g) == pc[t] \in {"start", "restart"} /\ op[t].governor = g

(* The policy's governor becomes the one that is started; op keeps the old  *)
Exchange(t) ==
  /\ policy' = [policy EXCEPT !.governor = op[t].governor]
  /\ op' = [op EXCEPT ![t].governor = policy.governor]

Started(t) == Goto(t, IF pc[t] = "start" THEN "limits" ELSE "unlock")

AfterFailure_GivesUp(t) == Goto(t, "unlock")
AfterFailure(t) == Goto(t, IF pc[t] = "start" THEN "restart" ELSE "unlock")

Failures == failed["vbfs"] + failed["userspace"]

CreateFails(g) ==
  /\ Failures < MaxFail
  /\ failed' = [failed EXCEPT ![g] = @ + 1]

(* The first START creates the sysfs group, and sets the sampling rate; if  *)
(* it fails vbfs_enable stays incremented                                   *)
StartVbfs(t) ==
  /\ Starting(t, "vbfs")
  /\ Free("vbfs_mutex")
  /\ Exchange(t)
  /\ freq_lo' = 0
  /\ \/ /\ vbfs' = [enable |-> vbfs.enable + 1, ready |-> TRUE,
                    group |-> vbfs.group \/ vbfs.enable = 0,
                    rate |-> vbfs.rate \/ vbfs.enable = 0]
        /\ queued' = TRUE /\ sub' = FALSE
        /\ Started(t)
        /\ UNCHANGED failed
     \/ /\ vbfs.enable = 0 /\ CreateFails("vbfs")
        /\ vbfs' = [vbfs EXCEPT !.enable = @ + 1]
        /\ AfterFailure(t)
        /\ UNCHANGED <<queued, sub>>
  /\ UNCHANGED <<user_policy, cur, clock, update, lock, want, next, set_flag,
                 userspace>>

StartUserspace(t) ==
  /\ Starting(t, "userspace")
  /\ Free("userspace_mutex")
  /\ Exchange(t)
  /\ \/ /\ userspace' = [count |-> userspace.count + 1, managed |-> TRUE,
                         min |-> policy.min, max |-> policy.max, set |-> cur]
        /\ Started(t)
        /\ UNCHANGED failed
     \/ /\ userspace.count = 0 /\ CreateFails("userspace")
        /\ AfterFailure(t)
        /\ UNCHANGED userspace
  /\ UNCHANGED <<user_policy, cur, clock, update, lock, want, next, sampling,
                 vbfs>>

-----------------------------------------------------------------------------
(* CPUFREQ_GOV_LIMITS and scaling_setspeed: the governor sets a frequency   *)
(* under a mutex of its own                                                 *)

LimitsMutex_Wrong == "vbfs_mutex"
LimitsMutex == "timer_mutex"

Target(t, f) ==
  /\ want' = [want EXCEPT ![t] = f]
  /\ Goto(t, "target")

LimitsVbfs(t) ==
  /\ pc[t] = "limits" /\ policy.governor = "vbfs"
  /\ IF cur \in policy.min .. policy.max
     THEN /\ Free(LimitsMutex)
          /\ Goto(t, "unlock")
          /\ UNCHANGED <<lock, want>>
     ELSE /\ Acquire(t, LimitsMutex)
          /\ Target(t, Clip(cur, policy.min, policy.max))
  /\ UNCHANGED <<state, op, next, sampling, governors>>

LimitsUserspace(t) ==
  /\ pc[t] = "limits" /\ policy.governor = "userspace"
  /\ Acquire(t, "userspace_mutex")
  /\ Target(t, Clip(userspace.set, policy.min, policy.max))
  /\ UNCHANGED <<state, op, next, sampling, governors>>

(* store_scaling_setspeed; vbfs raises its flag before it takes a mutex     *)
TakeForSpeed(t) ==
  /\ pc[t] = "rwsem" /\ op[t].kind = "speed"
  /\ Acquire(t, "rwsem")
  /\ set_flag' = (set_flag \/ policy.governor = "vbfs")
  /\ Goto(t, "speed")
  /\ UNCHANGED <<state, op, want, next, queued, sub, freq_lo, governors>>

(* cpufreq_set of vbfs                                                      *)
SetSpeedVbfs(t) ==
  /\ pc[t] = "speed" /\ policy.governor = "vbfs"
  /\ Acquire(t, "vbfs_mutex")
  /\ Target(t, Clip(op[t].freq, policy.min, policy.max))
  /\ UNCHANGED <<state, op, next, sampling, governors>>

(* cpufreq_set of userspace                                                 *)
SetSpeedUserspace(t) ==
  /\ pc[t] = "speed" /\ policy.governor = "userspace"
  /\ \/ /\ userspace.managed
        /\ Acquire(t, "userspace_mutex")
        /\ userspace' = [userspace EXCEPT !.set = op[t].freq]
        /\ Target(t, Clip(op[t].freq, userspace.min, userspace.max))
     \/ /\ ~userspace.managed /\ Free("userspace_mutex")
        /\ Goto(t, "unlock")
        /\ UNCHANGED <<lock, want, userspace>>
  /\ UNCHANGED <<state, op, next, sampling, vbfs, failed>>

(* The target was set: LIMITS of userspace copies the limits, and the       *)
(* governor's mutex is given back                                           *)
CopiedLimits == [userspace EXCEPT !.min = policy.min, !.max = policy.max]

TargetSet(t) ==
  /\ t # Work /\ pc[t] = "done"
  /\ userspace' = IF policy.governor = "userspace" /\ op[t].kind # "speed"
                  THEN CopiedLimits ELSE userspace
  /\ lock' = [l \in Locks |->
                IF l # "rwsem" /\ lock[l] = t THEN NoOne ELSE lock[l]]
  /\ Goto(t, "unlock")
  /\ UNCHANGED <<state, op, want, next, sampling, vbfs, failed>>

(* show_speed of vbfs, under the semaphore as a reader                      *)
ShowSpeed ==
  /\ Free("rwsem") /\ policy.governor = "vbfs"
  /\ set_flag /\ set_flag' = FALSE
  /\ UNCHANGED <<state, threads, queued, sub, freq_lo, governors>>

-----------------------------------------------------------------------------
(* do_vbfs_timer                                                            *)

WorkBegin ==
  /\ queued /\ pc[Work] = "idle"
  /\ queued' = FALSE
  /\ Goto(Work, "timer_lock")
  /\ UNCHANGED <<state, lock, op, want, next, sub, freq_lo, set_flag,
                 governors>>

(* powersave_bias_target: the time of the next sample is split between two  *)
(* neighbouring frequencies                                                 *)
LowOf(f) ==
  { g \in Freqs : Bias /\ policy.min <= g /\ g < f
                    /\ \A h \in Freqs : h <= g \/ h >= f } \cup {0}

(* store_powersave_bias, of a file of vbfs's group, takes none of the locks *)
StoreBias ==
  /\ Bias /\ vbfs.group /\ sub
  /\ freq_lo # 0 /\ freq_lo' = 0
  /\ UNCHANGED <<state, threads, queued, sub, set_flag, governors>>

(* A sub sample sets its frequency whatever the speed that the user set,    *)
(* unless the bias was switched off meanwhile                               *)
SubSample ==
  /\ sub /\ sub' = FALSE
  /\ Target(Work, freq_lo)
  /\ freq_lo' = 0

(* vbfs_check_resources needs a frequency or none; a speed that the user    *)
(* set holds it back                                                        *)
NormalSample ==
  /\ sub => freq_lo = 0
  /\ \/ /\ ~set_flag
        /\ \E f \in Freqs : Target(Work, f) /\ freq_lo' \in LowOf(f)
        /\ sub' = (freq_lo' # 0)
     \/ Goto(Work, "done") /\ freq_lo' = 0 /\ sub' = FALSE /\ UNCHANGED want

Sample ==
  /\ pc[Work] = "timer_lock"
  /\ Acquire(Work, "timer_mutex")
  /\ SubSample \/ NormalSample
  /\ UNCHANGED <<state, op, next, queued, set_flag, governors>>

(* schedule_delayed_work_on fails while the work is being cancelled         *)
WorkEnd ==
  /\ pc[Work] = "done"
  /\ queued' = \A t \in Writers : pc[t] # "wait_work"
  /\ Release("timer_mutex")
  /\ Goto(Work, "idle")
  /\ UNCHANGED <<state, op, want, next, sub, freq_lo, set_flag, governors>>

-----------------------------------------------------------------------------
(* __cpufreq_driver_target: the driver, in the calling thread               *)

DriverLock(t) ==
  /\ pc[t] = "target"
  /\ Acquire(t, "set_freq_lock")
  /\ next' = Clip(want[t], policy.min, policy.max)
  /\ Goto(t, "setting")
  /\ UNCHANGED <<state, op, want, sampling, governors>>

(* exynos_info->set_freq                                                    *)
MoveClock(t) ==
  /\ pc[t] = "setting"
  /\ clock' = next
  /\ Goto(t, "moved")
  /\ UNCHANGED <<policy, user_policy, cur, update, lock, op, want, next,
                 sampling, governors>>

(* The hotplug brings a CPU up or takes it down in the POSTCHANGE           *)
(* notification, and cpufreq_cpu_callback wants the semaphore               *)
PlugCpu(t) ==
  /\ Hotplug /\ pc[t] \in {"moved", "announce"}
  /\ Goto(t, "cpu_callback")
  /\ UNCHANGED <<state, lock, op, want, next, sampling, governors>>

CpuCallback(t) ==
  /\ pc[t] = "cpu_callback"
  /\ Free("rwsem")
  /\ Goto(t, "notified")
  /\ UNCHANGED <<state, lock, op, want, next, sampling, governors>>

SetFreq(t) ==
  /\ pc[t] = "moved" \/ (pc[t] = "notified" /\ lock["set_freq_lock"] = t)
  /\ cur' = next
  /\ Release("set_freq_lock")
  /\ Goto(t, "done")
  /\ UNCHANGED <<policy, user_policy, clock, update, op, want, next, sampling,
                 governors>>

-----------------------------------------------------------------------------

Driver(t) ==
  DriverLock(t) \/ MoveClock(t) \/ PlugCpu(t) \/ CpuCallback(t) \/ SetFreq(t)

(* The steps in which a writer gets on once it has begun                    *)
Continue(t) ==
  \/ ReadFreq(t) \/ Compare(t) \/ OutOfSync(t)
  \/ SetPolicy(t) \/ Unlock(t)
  \/ Cancel(t) \/ StopVbfs(t) \/ StopUserspace(t)
  \/ StartVbfs(t) \/ StartUserspace(t)
  \/ LimitsVbfs(t) \/ LimitsUserspace(t)
  \/ TakeForSpeed(t) \/ SetSpeedVbfs(t) \/ SetSpeedUserspace(t)
  \/ TargetSet(t)
  \/ Driver(t)

Sampler == WorkBegin \/ Sample \/ WorkEnd \/ Driver(Work)

Next ==
  \/ \E t \in Writers : Write(t) \/ HandleUpdate(t) \/ Continue(t)
  \/ Sampler
  \/ ShowSpeed \/ StoreBias \/ BpResume

Spec == Init /\ [][Next]_vars

(* Each thread runs on; the locks are fair to those who wait for them       *)
FairSpec ==
  /\ Spec
  /\ \A t \in Writers : SF_vars(Continue(t))
  /\ SF_vars(Sampler)

-----------------------------------------------------------------------------
(* Properties                                                               *)

Pcs == {"idle", "rwsem", "unlock", "stop", "wait_work", "start", "restart",
        "limits", "speed", "target", "setting", "moved", "cpu_callback",
        "notified", "done", "timer_lock", "compare", "announce", "set_policy"}

(* The values of the variables: a governor is started at most once, but for *)
(* the count that a failed START leaves behind.                             *)
TypeOK ==
  /\ policy \in [min : Freqs, max : Freqs, governor : Governors]
  /\ user_policy \in [min : Freqs, max : Freqs, governor : Governors]
  /\ {cur, clock} \subseteq Freqs /\ update \in BOOLEAN
  /\ lock \in [Locks -> Threads \cup {NoOne}]
  /\ pc \in [Threads -> Pcs]
  /\ op \in [Threads -> [kind : {"none", "min", "max", "speed", "governor",
                                "get", "update"},
                         freq : Freqs \cup {0},
                         governor : Governors \cup {"none"}]]
  /\ want \in [Threads -> Freqs \cup {0}] /\ next \in Freqs
  /\ {queued, sub, set_flag} \subseteq BOOLEAN /\ freq_lo \in Freqs \cup {0}
  /\ vbfs \in [enable : 0 .. 2, ready : BOOLEAN, group : BOOLEAN,
               rate : BOOLEAN]
  /\ userspace \in [count : Int, managed : BOOLEAN, min : Freqs \cup {0},
                    max : Freqs \cup {0}, set : Freqs \cup {0}]
  /\ failed \in [Governors -> 0 .. MaxFail]

GovernorMutex == IF policy.governor = "vbfs" THEN "vbfs_mutex"
                 ELSE "userspace_mutex"

(* The locks that thread t is about to take and cannot do without           *)
Wanted(t) ==
  CASE pc[t] \in {"rwsem", "cpu_callback"} -> {"rwsem"}
    [] pc[t] \in {"wait_work", "speed"} -> {GovernorMutex}
    [] pc[t] = "stop" -> {"userspace_mutex"}
    [] pc[t] = "limits" /\ policy.governor = "vbfs" -> {LimitsMutex}
    [] pc[t] = "limits" /\ policy.governor # "vbfs" -> {"userspace_mutex"}
    [] pc[t] \in {"start", "restart"} ->
         {IF op[t].governor = "vbfs" THEN "vbfs_mutex" ELSE "userspace_mutex"}
    [] pc[t] = "timer_lock" -> {"timer_mutex"}
    [] pc[t] = "target" -> {"set_freq_lock"}
    [] OTHER -> {}

Plugging(t) == pc[t] = "cpu_callback"

WaitsFor(t, u) ==
  \/ \E l \in Wanted(t) : lock[l] = u
  \/ "rwsem" \in Wanted(t) /\ Reading(u) /\ (op[t].kind = "get" => Plugging(t))
  \/ pc[t] = "wait_work" /\ u = Work /\ pc[Work] # "idle"

WaitCycle(T) == T # {} /\ \A t \in T : \E u \in T : WaitsFor(t, u)

(* No threads ever wait for each other: neither for locks that are taken in *)
(* different orders, nor for the work to end that waits for one of them.    *)
NoDeadlock == \A T \in SUBSET Threads : ~WaitCycle(T)

(* The same unless a transition plugs a CPU: then, and only then, one of    *)
(* the waiting threads is in the core's CPU notifier.                       *)
OnlyPluggingDeadlocks ==
  \A T \in SUBSET Threads : WaitCycle(T) => \E t \in T : Plugging(t)

(* The work of vbfs is not queued, nor does it run, and nobody holds its    *)
(* mutex, unless vbfs was started and not yet stopped: the mutex is in use  *)
(* between mutex_init and mutex_destroy only.  (After a second START that   *)
(* failed the policy may keep vbfs as its governor with vbfs stopped, and a *)
(* task that sets a limit then takes the mutex.)                            *)
MutexReadyWhenUsed ==
  /\ queued \/ pc[Work] # "idle" => vbfs.ready
  /\ lock["timer_mutex"] # NoOne /\ Failures <= 1 => vbfs.ready

(* Whenever the semaphore is free exactly the policy's governor is active,  *)
(* vbfs with its work queued or running, also after a START that failed; if *)
(* more than one fails there may be none.                                   *)
GovernorActive ==
  Free("rwsem") /\ Failures <= 1 =>
    /\ policy.governor = "vbfs" <=> vbfs.ready
    /\ vbfs.ready <=> queued \/ pc[Work] # "idle"
    /\ policy.governor = "userspace" <=> userspace.managed

(* vbfs_enable counts the active governor and the STARTs that failed,       *)
(* cpus_using_userspace_governor the active one; and unless a START failed  *)
(* vbfs works with its sysfs group and a sampling rate.                     *)
EnableExact ==
  Free("rwsem") /\ Failures <= 1 =>
    /\ vbfs.enable = (IF vbfs.ready THEN 1 ELSE 0) + failed["vbfs"]
    /\ userspace.count = (IF userspace.managed THEN 1 ELSE 0)
    /\ failed["vbfs"] = 0 => (vbfs.group <=> vbfs.ready)
    /\ failed["vbfs"] = 0 /\ vbfs.ready => vbfs.rate

(* Whenever the semaphore is free and no update is pending, policy->cur is  *)
(* within the limits: a limit that was written has taken effect, also on a  *)
(* sample that had read the ones before, a sample on its way sets none      *)
(* outside them, and a read that stores a frequency of the past in          *)
(* policy->cur has it put right.                                            *)
LimitsHold ==
  Free("rwsem") /\ ~update /\ (\A t \in Writers : op[t].kind # "update") =>
    policy.min <= cur /\ cur <= policy.max

(* A task that writes to a file returns, unless a CPU is being plugged.     *)
WritesReturn ==
  [](\A t \in Threads : ~Plugging(t)) =>
    \A t \in Writers : pc[t] # "idle" ~> pc[t] = "idle"
=============================================================================
