------------------------------ MODULE ExynosDvfs ------------------------------
(***************************************************************************)
(* The Exynos DVFS driver, arch/arm/mach-exynos/cpufreq.c: the target      *)
(* callback that governors reach through the cpufreq core, the level       *)
(* requests of other drivers (a floor with exynos_cpufreq_lock, a ceiling  *)
(* with exynos_cpufreq_upper_limit), the level fix, and the power          *)
(* management notifiers, called by concurrent threads.                     *)
(*                                                                         *)
(* Two mutexes protect the state, each only partly.  set_cpu_freq_lock     *)
(* covers the updates of the requests but not their reads by exynos_target *)
(* or by the callers' early checks; set_freq_lock covers a frequency       *)
(* transition.  Every unprotected read is a step of its own here.          *)
(***************************************************************************)
EXTENDS VoltTable, Sequences

CONSTANTS
  Governors,   (* threads that call exynos_target (cpufreq_driver->target)   *)
  Clients,     (* threads of drivers that request floors and ceilings        *)
  Fixers,      (* threads that call exynos_cpufreq_level_fix and _unfix      *)
  PmThreads,   (* the thread that runs the suspend and reboot notifiers      *)
  NoThread,
  Ids,         (* enum cpufreq_lock_ID, 0 .. DVFS_LOCK_ID_END - 1            *)
  PmId,        (* DVFS_LOCK_ID_PM                                            *)
  TmuId,       (* DVFS_LOCK_ID_TMU                                           *)
  LockIds,     (* the ids each client asks a floor with                      *)
  LimitIds,    (* the ids each client asks a ceiling with                    *)
  ReqLevels,   (* the levels clients ask for                                 *)
  Targets,     (* the frequencies governors and fixers ask for               *)
  Policies,    (* the <<min, max>> pairs the cpufreq core sets               *)
  LevelLockOff,(* subset of BOOLEAN: is the governor one of powersave and
                  performance, for which level locks are disabled            *)
  PmLockIdx,   (* exynos_info->pm_lock_idx                                   *)
  BootFreqs    (* the frequencies the boot loader may leave                  *)

Threads == Governors \cup Clients \cup Fixers \cup PmThreads

Bounds == { [min |-> p[1], max |-> p[2]] : p \in Policies }

ASSUME ThreadsAssumption ==
  /\ NoThread \notin Threads
  /\ Governors \cap (Clients \cup Fixers \cup PmThreads) = {}
  /\ Clients \cap (Fixers \cup PmThreads) = {}
  /\ Fixers \cap PmThreads = {}
  /\ \A p, q \in PmThreads : p = q   \* suspend and reboot exclude each other

ASSUME IdsAssumption ==
  /\ PmId \in Ids
  /\ LockIds \in [Clients -> SUBSET (Ids \ {PmId})]
  /\ LimitIds \in [Clients -> SUBSET Ids]

ASSUME RequestsAssumption ==
  /\ ReqLevels \subseteq Levels
  /\ Targets \subseteq Nat
  /\ PmLockIdx \in Levels
  /\ LevelLockOff \subseteq BOOLEAN

(* exynos_verify_speed leaves at least one table frequency in the policy   *)
ASSUME PoliciesAssumption ==
  /\ Policies \subseteq Nat \X Nat
  /\ \A b \in Bounds : InPolicy(b) # {}

ASSUME BootAssumption ==
  /\ BootFreqs \subseteq Nat \ {0}
  /\ \A f \in BootFreqs : f <= Freq[MaxIdx]

VARIABLES
  disable,           (* exynos_cpufreq_disable                               *)
  lock_disable,      (* exynos_cpufreq_lock_disable                          *)
  lock_id,           (* g_cpufreq_lock_id, the set of its bits               *)
  lock_val,          (* g_cpufreq_lock_val                                   *)
  lock_level,        (* g_cpufreq_lock_level                                 *)
  limit_id,          (* g_cpufreq_limit_id                                   *)
  limit_val,         (* g_cpufreq_limit_val                                  *)
  limit_level,       (* g_cpufreq_limit_level                                *)
  set_freq_lock,     (* the thread that holds the mutex, or NoThread         *)
  set_cpu_freq_lock, (* likewise                                             *)
  freqs,             (* the one struct cpufreq_freqs every transition shares *)
  policy,            (* cpu 0's struct cpufreq_policy: cur, min, max         *)
  clk,               (* what the ARM clock runs at                           *)
  volt,              (* what vdd_arm is set to                               *)
  pc, call,          (* where each thread is, and its locals                 *)
  mover,             (* history: the operation that last set the clock, or
                        "torn" since one that read half-updated levels       *)
  fixed              (* history: a level_fix has returned and no unfix since *)

requests == <<lock_id, lock_val, lock_level, limit_id, limit_val, limit_level>>
hardware == <<clk, volt>>
vars == <<disable, lock_disable, requests, set_freq_lock, set_cpu_freq_lock,
          freqs, policy, hardware, pc, call, mover, fixed>>

-----------------------------------------------------------------------------
(* A call in progress: the operation, its arguments, the levels chosen and  *)
(* how far the transition is.  torn is history: a level was read while a    *)
(* *_free had reset it and not yet recomputed it.                           *)

Ops == {"none", "target", "fix", "lock", "lock_free", "limit", "limit_free",
        "suspend", "resume", "reboot"}

LockOps == {"lock", "suspend", "reboot"}   \* the callers of exynos_cpufreq_lock

NoCall == [op |-> "none", id |-> PmId, level |-> MaxIdx, target |-> 0,
           rel |-> "L", old |-> MaxIdx, new |-> MaxIdx, stage |-> 1,
           torn |-> FALSE]

(* What each operation does between taking and releasing set_freq_lock, in  *)
(* the order of the source.                                                 *)
Stages(op) ==
  CASE op \in {"target", "fix"} ->
         <<"pre", "raise", "relock", "set", "post", "settle">>
    [] op \in LockOps \cup {"resume"} ->
         <<"pre", "safe", "arm", "relock", "set", "post">>
    [] OTHER ->
         <<"pre", "relock", "set", "safe", "arm", "post">>

LastStage == 6

(* Where a thread goes when its operation returns success or an error       *)
ReturnPc(op) ==
  CASE op = "fix"     -> "fixing"
    [] op = "suspend" -> "prepared"
    [] op = "resume"  -> "enable"
    [] op = "reboot"  -> "halted"
    [] OTHER          -> "idle"

ErrorPc(op) ==
  CASE op = "suspend" -> "bad"
    [] OTHER          -> ReturnPc(op)

Goto(t, p) == pc' = [pc EXCEPT ![t] = p]

Return(t, p) == Goto(t, p) /\ call' = [call EXCEPT ![t] = NoCall]

At(t, s) == pc[t] = "run" /\ Stages(call[t].op)[call[t].stage] = s

(* End of a stage; after the last one set_freq_lock is released            *)
Proceed(t) ==
  IF call[t].stage = LastStage
  THEN set_freq_lock' = NoThread /\ Return(t, ReturnPc(call[t].op))
  ELSE /\ call' = [call EXCEPT ![t].stage = @ + 1]
       /\ UNCHANGED <<pc, set_freq_lock>>

(* The loops over the requests in *_free: the fastest floor, the slowest    *)
(* ceiling, or the initial level when nobody holds one.                     *)
FastestLock_Forget(ids, val) == MinIdx

FastestLock_OffByOne(ids, val) ==
  IF ids = {} THEN MinIdx + 1 ELSE Fastest({MinIdx} \cup { val[d] : d \in Ids })

FastestLock(ids, val) ==
  IF ids = {} THEN MinIdx ELSE Fastest({MinIdx} \cup { val[d] : d \in Ids })

SlowestLimit(ids, val) ==
  IF ids = {} THEN MaxIdx ELSE Slowest({MaxIdx} \cup { val[d] : d \in Ids })

(* A freed request goes back to the initial level                           *)
Freed_Kept(val, id, level) == val
Freed(val, id, level) == [val EXCEPT ![id] = level]

(* mutex_lock(&set_freq_lock) can proceed                                   *)
FreqMutexFree_Ignored == TRUE
FreqMutexFree == set_freq_lock = NoThread

-----------------------------------------------------------------------------
(* exynos_cpufreq_init and exynos_cpufreq_cpu_init                          *)

Init ==
  /\ disable = FALSE
  /\ lock_disable \in LevelLockOff
  /\ lock_id = {}  /\ lock_val  = [d \in Ids |-> MinIdx] /\ lock_level = MinIdx
  /\ limit_id = {} /\ limit_val = [d \in Ids |-> MaxIdx] /\ limit_level = MaxIdx
  /\ set_freq_lock = NoThread /\ set_cpu_freq_lock = NoThread
  /\ freqs = [old |-> 0, new |-> 0]
  /\ clk \in BootFreqs
  /\ volt = NeedVolt(clk)
  /\ policy \in { [cur |-> clk, min |-> b.min, max |-> b.max] : b \in Bounds }
  /\ pc = [t \in Threads |-> "idle"]
  /\ call = [t \in Threads |-> NoCall]
  /\ mover = "boot"
  /\ fixed = FALSE

-----------------------------------------------------------------------------
(* The cpufreq core, as the driver sees it: __cpufreq_set_policy runs the   *)
(* CPUFREQ_ADJUST notifier (exynos_cpufreq_policy_notifier_call), then      *)
(* stores the new bounds.  It holds neither of the driver's mutexes.        *)

PolicyAdjust ==
  /\ lock_disable' \in LevelLockOff
  /\ UNCHANGED <<disable, requests, set_freq_lock, set_cpu_freq_lock, freqs,
                 policy, hardware, pc, call, mover, fixed>>

PolicyBounds ==
  /\ \E b \in Bounds :
       policy' = [policy EXCEPT !.min = b.min, !.max = b.max]
  /\ UNCHANGED <<disable, lock_disable, requests, set_freq_lock,
                 set_cpu_freq_lock, freqs, hardware, pc, call, mover, fixed>>

-----------------------------------------------------------------------------
(* exynos_target and exynos_cpufreq_level_fix                               *)

TargetCall(t) ==
  /\ pc[t] = "idle" /\ t \in Governors
  /\ \E f \in Targets, r \in Relations :
       call' = [call EXCEPT ![t] =
                  [NoCall EXCEPT !.op = "target", !.target = f, !.rel = r]]
  /\ Goto(t, "want_freq")
  /\ UNCHANGED <<disable, lock_disable, requests, set_freq_lock,
                 set_cpu_freq_lock, freqs, policy, hardware, mover, fixed>>

(* level_fix refuses when already fixed, without any lock                   *)
FixCall(t) ==
  /\ pc[t] = "idle" /\ t \in Fixers
  /\ ~disable
  /\ \E f \in Targets :
       call' = [call EXCEPT ![t] =
                  [NoCall EXCEPT !.op = "fix", !.target = f, !.rel = "L"]]
  /\ Goto(t, "want_freq")
  /\ UNCHANGED <<disable, lock_disable, requests, set_freq_lock,
                 set_cpu_freq_lock, freqs, policy, hardware, mover, fixed>>

(* Takes set_freq_lock; a fixed level makes the call a no-op.  Both table   *)
(* look-ups are confined to the policy's bounds, the current frequency's    *)
(* too.                                                                     *)
TargetLock(t) ==
  /\ pc[t] = "want_freq" /\ FreqMutexFree
  /\ \/ /\ disable
        /\ Return(t, ReturnPc(call[t].op))
        /\ UNCHANGED <<set_freq_lock, freqs>>
     \/ /\ ~disable
        /\ set_freq_lock' = t
        /\ freqs' = [freqs EXCEPT !.old = policy.cur]
        /\ call' = [call EXCEPT
             ![t].old = TableTarget(policy, policy.cur, call[t].rel),
             ![t].new = TableTarget(policy, call[t].target, call[t].rel)]
        /\ Goto(t, "floor")
  /\ UNCHANGED <<disable, lock_disable, requests, set_cpu_freq_lock, policy,
                 hardware, mover, fixed>>

Torn(t) == call[t].torn \/ set_cpu_freq_lock # NoThread

(* Reads g_cpufreq_lock_level, without set_cpu_freq_lock                    *)
TargetFloor(t) ==
  /\ pc[t] = "floor"
  /\ call' = [call EXCEPT
       ![t].new  = IF ~lock_disable /\ @ > lock_level THEN lock_level ELSE @,
       ![t].torn = Torn(t)]
  /\ Goto(t, "cap")
  /\ UNCHANGED <<disable, lock_disable, requests, set_freq_lock,
                 set_cpu_freq_lock, freqs, policy, hardware, mover, fixed>>

Capped(t) == IF call[t].new < limit_level THEN limit_level ELSE call[t].new

CappedFreq_Uncapped(t) == Freq[call[t].new]
CappedFreq(t) == Freq[Capped(t)]

(* Reads g_cpufreq_limit_level, likewise, and fixes the new frequency       *)
TargetCap(t) ==
  /\ pc[t] = "cap"
  /\ call' = [call EXCEPT ![t].new = Capped(t), ![t].torn = Torn(t)]
  /\ freqs' = [freqs EXCEPT !.new = CappedFreq(t)]
  /\ Goto(t, "run")
  /\ UNCHANGED <<disable, lock_disable, requests, set_freq_lock,
                 set_cpu_freq_lock, policy, hardware, mover, fixed>>

(* level_fix sets the flag after exynos_target has released its lock        *)
FixDisable(t) ==
  /\ pc[t] = "fixing"
  /\ disable' = TRUE /\ fixed' = TRUE
  /\ Goto(t, "idle")
  /\ UNCHANGED <<lock_disable, requests, set_freq_lock, set_cpu_freq_lock,
                 freqs, policy, hardware, call, mover>>

(* exynos_cpufreq_level_unfix                                               *)
Unfix(t) ==
  /\ pc[t] = "idle" /\ t \in Fixers
  /\ disable /\ disable' = FALSE /\ fixed' = FALSE
  /\ UNCHANGED <<lock_disable, requests, set_freq_lock, set_cpu_freq_lock,
                 freqs, policy, hardware, pc, call, mover>>

-----------------------------------------------------------------------------
(* The stages of a transition, by the thread that holds set_freq_lock       *)

Safe(t) == SafeArmVolt(call[t].old, call[t].new)

(* exynos_target touches the clock only when the frequency changes          *)
ClockMoves(t) ==
  call[t].op \in {"target", "fix"} => freqs.new # freqs.old

(* cpufreq_notify_transition(CPUFREQ_PRECHANGE) corrects freqs.old          *)
PreChange(t) ==
  /\ At(t, "pre")
  /\ freqs' = [freqs EXCEPT !.old = policy.cur]
  /\ Proceed(t)
  /\ UNCHANGED <<disable, lock_disable, requests, set_cpu_freq_lock, policy,
                 hardware, mover, fixed>>

(* exynos_target, before the clock: the safe voltage, else the new one when *)
(* speeding up                                                              *)
FirstVolt_NoSafe(t) ==
  IF freqs.new > freqs.old THEN Volt[call[t].new] ELSE volt
FirstVolt(t) ==
  IF Safe(t) # 0 THEN Safe(t)
  ELSE IF freqs.new > freqs.old THEN Volt[call[t].new] ELSE volt

RaiseVolt(t) ==
  /\ At(t, "raise")
  /\ volt' = FirstVolt(t)
  /\ Proceed(t)
  /\ UNCHANGED <<disable, lock_disable, requests, set_cpu_freq_lock, freqs,
                 policy, clk, mover, fixed>>

(* exynos_target, after the clock                                           *)
SettleVolt(t) ==
  /\ At(t, "settle")
  /\ volt' = IF \/ freqs.new < freqs.old
                \/ freqs.new > freqs.old /\ Safe(t) # 0
             THEN Volt[call[t].new] ELSE volt
  /\ Proceed(t)
  /\ UNCHANGED <<disable, lock_disable, requests, set_cpu_freq_lock, freqs,
                 policy, clk, mover, fixed>>

(* The other operations set the safe voltage, if any, and at once the new one *)
SafeVolt(t) ==
  /\ At(t, "safe")
  /\ volt' = IF Safe(t) # 0 THEN Safe(t) ELSE volt
  /\ Proceed(t)
  /\ UNCHANGED <<disable, lock_disable, requests, set_cpu_freq_lock, freqs,
                 policy, clk, mover, fixed>>

ArmVolt(t) ==
  /\ At(t, "arm")
  /\ volt' = Volt[call[t].new]
  /\ Proceed(t)
  /\ UNCHANGED <<disable, lock_disable, requests, set_cpu_freq_lock, freqs,
                 policy, clk, mover, fixed>>

(* exynos_info->set_freq(old, new): while the APLL is reprogrammed the ARM  *)
(* clock comes from the MPLL ...                                            *)
Relock(t) ==
  /\ At(t, "relock")
  /\ clk' = IF ClockMoves(t) /\ <<call[t].old, call[t].new>> \in ApllChange
            THEN MpllFreq ELSE clk
  /\ Proceed(t)
  /\ UNCHANGED <<disable, lock_disable, requests, set_cpu_freq_lock, freqs,
                 policy, volt, mover, fixed>>

(* Only exynos_target applies both levels, so only it ends the effect of a  *)
(* floor, of a resume and of a torn read: a ceiling lowers the clock to its *)
(* own level, whatever the others demand.                                   *)
Mover(t) ==
  IF call[t].torn THEN "torn"
  ELSE IF /\ call[t].op \notin {"target", "fix"}
          /\ mover \in LockOps \cup {"resume", "torn"}
       THEN mover ELSE call[t].op

(* ... and then from the APLL at the new frequency                          *)
SetFreq(t) ==
  /\ At(t, "set")
  /\ IF ClockMoves(t)
     THEN /\ clk' = Freq[call[t].new]
          /\ mover' = Mover(t)
     ELSE UNCHANGED <<clk, mover>>
  /\ Proceed(t)
  /\ UNCHANGED <<disable, lock_disable, requests, set_cpu_freq_lock, freqs,
                 policy, volt, fixed>>

(* cpufreq_notify_transition(CPUFREQ_POSTCHANGE) stores policy->cur         *)
PostChange(t) ==
  /\ At(t, "post")
  /\ policy' = [policy EXCEPT !.cur = freqs.new]
  /\ Proceed(t)
  /\ UNCHANGED <<disable, lock_disable, requests, set_cpu_freq_lock, freqs,
                 hardware, mover, fixed>>

-----------------------------------------------------------------------------
(* exynos_cpufreq_lock: a floor.  The checks before set_cpu_freq_lock are   *)
(* unprotected; a call they refuse changes nothing.                         *)

LockCall(t, op, id, level) ==
  /\ ~disable \/ id = TmuId
  /\ id \notin lock_id
  /\ call' = [call EXCEPT ![t] =
                [NoCall EXCEPT !.op = op, !.id = id, !.level = level]]
  /\ Goto(t, "record")
  /\ UNCHANGED <<disable, lock_disable, requests, set_freq_lock,
                 set_cpu_freq_lock, freqs, policy, hardware, mover, fixed>>

ClientLock(t) ==
  /\ pc[t] = "idle" /\ t \in Clients
  /\ \E id \in LockIds[t], l \in ReqLevels : LockCall(t, "lock", id, l)

StrongerFloor_LastWins(level) == level
StrongerFloor(level) == IF level < lock_level THEN level ELSE lock_level

LockRecord(t) ==
  /\ pc[t] = "record" /\ call[t].op \in LockOps
  /\ set_cpu_freq_lock = NoThread
  /\ lock_id' = lock_id \cup {call[t].id}
  /\ lock_val' = [lock_val EXCEPT ![call[t].id] = call[t].level]
  /\ lock_level' = StrongerFloor(call[t].level)
  /\ Goto(t, "recorded")
  /\ UNCHANGED <<disable, lock_disable, limit_id, limit_val, limit_level,
                 set_freq_lock, set_cpu_freq_lock, freqs, policy, hardware,
                 call, mover, fixed>>

(* The ceiling wins and some governors ignore floors, except for the PM id; *)
(* both are read after one mutex is released and before the other is taken  *)
LockCheck(t) ==
  /\ pc[t] = "recorded"
  /\ IF /\ call[t].id # PmId
        /\ lock_level < limit_level \/ lock_disable
     THEN Return(t, ReturnPc(call[t].op))
     ELSE Goto(t, "want_raise") /\ UNCHANGED call
  /\ UNCHANGED <<disable, lock_disable, requests, set_freq_lock,
                 set_cpu_freq_lock, freqs, policy, hardware, mover, fixed>>

BeginRequest_KeepMutex(t) ==
  \/ \E old \in LevelsOfFreq(policy.cur) :
       /\ set_freq_lock' = t
       /\ freqs' = [old |-> policy.cur, new |-> Freq[call[t].level]]
       /\ call' = [call EXCEPT ![t].old = old, ![t].new = call[t].level]
       /\ Goto(t, "run")
  \/ /\ LevelsOfFreq(policy.cur) = {}
     /\ set_freq_lock' = t
     /\ Return(t, ErrorPc(call[t].op))
     /\ UNCHANGED freqs

(* Begins a transition to the requested level from the level whose          *)
(* frequency is exactly policy->cur; -EINVAL when there is none             *)
BeginRequest(t) ==
  \/ \E old \in LevelsOfFreq(policy.cur) :
       /\ set_freq_lock' = t
       /\ freqs' = [old |-> policy.cur, new |-> Freq[call[t].level]]
       /\ call' = [call EXCEPT ![t].old = old, ![t].new = call[t].level]
       /\ Goto(t, "run")
  \/ /\ LevelsOfFreq(policy.cur) = {}
     /\ Return(t, ErrorPc(call[t].op))
     /\ UNCHANGED <<set_freq_lock, freqs>>

LockRaise(t) ==
  /\ pc[t] = "want_raise" /\ FreqMutexFree
  /\ IF policy.cur < Freq[call[t].level]
     THEN BeginRequest(t)
     ELSE Return(t, ReturnPc(call[t].op)) /\ UNCHANGED <<set_freq_lock, freqs>>
  /\ UNCHANGED <<disable, lock_disable, requests, set_cpu_freq_lock, policy,
                 hardware, mover, fixed>>

(* exynos_cpufreq_lock_free: resets the level, then recomputes it in a loop *)
(* whose stores the unprotected readers may see one by one (LockScan)       *)
LockFreeReset(t, op, id) ==
  /\ set_cpu_freq_lock = NoThread
  /\ set_cpu_freq_lock' = t
  /\ lock_id' = lock_id \ {id}
  /\ lock_val' = Freed(lock_val, id, MinIdx)
  /\ lock_level' = MinIdx
  /\ call' = [call EXCEPT ![t] = [NoCall EXCEPT !.op = op, !.id = id]]
  /\ Goto(t, "recompute")
  /\ UNCHANGED <<disable, lock_disable, limit_id, limit_val, limit_level,
                 set_freq_lock, freqs, policy, hardware, mover, fixed>>

ClientLockFree(t) ==
  /\ pc[t] = "idle" /\ t \in Clients
  /\ \E id \in LockIds[t] : LockFreeReset(t, "lock_free", id)

LockScan(t) ==
  /\ pc[t] = "recompute" /\ call[t].op \in {"lock_free", "resume"}
  /\ lock_id # {}
  /\ \E d \in Ids : lock_val[d] < lock_level /\ lock_level' = lock_val[d]
  /\ UNCHANGED <<disable, lock_disable, lock_id, lock_val, limit_id, limit_val,
                 limit_level, set_freq_lock, set_cpu_freq_lock, freqs, policy,
                 hardware, pc, call, mover, fixed>>

LockRecompute(t) ==
  /\ pc[t] = "recompute" /\ call[t].op \in {"lock_free", "resume"}
  /\ lock_level' = FastestLock(lock_id, lock_val)
  /\ set_cpu_freq_lock' = NoThread
  /\ Return(t, IF call[t].op = "resume" THEN "thaw" ELSE "idle")
  /\ UNCHANGED <<disable, lock_disable, lock_id, lock_val, limit_id, limit_val,
                 limit_level, set_freq_lock, freqs, policy, hardware, mover,
                 fixed>>

-----------------------------------------------------------------------------
(* exynos_cpufreq_upper_limit: a ceiling                                    *)

ClientLimit(t) ==
  /\ pc[t] = "idle" /\ t \in Clients
  /\ ~disable
  /\ \E id \in LimitIds[t] \ limit_id, l \in ReqLevels :
       call' = [call EXCEPT ![t] =
                  [NoCall EXCEPT !.op = "limit", !.id = id, !.level = l]]
  /\ Goto(t, "record")
  /\ UNCHANGED <<disable, lock_disable, requests, set_freq_lock,
                 set_cpu_freq_lock, freqs, policy, hardware, mover, fixed>>

LimitRecord(t) ==
  /\ pc[t] = "record" /\ call[t].op = "limit"
  /\ set_cpu_freq_lock = NoThread
  /\ limit_id' = limit_id \cup {call[t].id}
  /\ limit_val' = [limit_val EXCEPT ![call[t].id] = call[t].level]
  /\ limit_level' = IF call[t].level > limit_level
                    THEN call[t].level ELSE limit_level
  /\ Goto(t, "want_cap")
  /\ UNCHANGED <<disable, lock_disable, lock_id, lock_val, lock_level,
                 set_freq_lock, set_cpu_freq_lock, freqs, policy, hardware,
                 call, mover, fixed>>

AboveCeiling_Inverted(t) == policy.cur < Freq[call[t].level]
AboveCeiling(t) == policy.cur > Freq[call[t].level]

LimitCap(t) ==
  /\ pc[t] = "want_cap" /\ FreqMutexFree
  /\ IF AboveCeiling(t)
     THEN BeginRequest(t)
     ELSE Return(t, ReturnPc(call[t].op)) /\ UNCHANGED <<set_freq_lock, freqs>>
  /\ UNCHANGED <<disable, lock_disable, requests, set_cpu_freq_lock, policy,
                 hardware, mover, fixed>>

(* exynos_cpufreq_upper_limit_free                                          *)
LimitFreeReset(t) ==
  /\ pc[t] = "idle" /\ t \in Clients
  /\ set_cpu_freq_lock = NoThread
  /\ set_cpu_freq_lock' = t
  /\ \E id \in LimitIds[t] :
       /\ limit_id' = limit_id \ {id}
       /\ limit_val' = Freed(limit_val, id, MaxIdx)
       /\ call' = [call EXCEPT ![t] =
                     [NoCall EXCEPT !.op = "limit_free", !.id = id]]
  /\ limit_level' = MaxIdx
  /\ Goto(t, "recompute")
  /\ UNCHANGED <<disable, lock_disable, lock_id, lock_val, lock_level,
                 set_freq_lock, freqs, policy, hardware, mover, fixed>>

LimitScan(t) ==
  /\ pc[t] = "recompute" /\ call[t].op = "limit_free"
  /\ limit_id # {}
  /\ \E d \in Ids : limit_val[d] > limit_level /\ limit_level' = limit_val[d]
  /\ UNCHANGED <<disable, lock_disable, lock_id, lock_val, lock_level, limit_id,
                 limit_val, set_freq_lock, set_cpu_freq_lock, freqs, policy,
                 hardware, pc, call, mover, fixed>>

LimitRecompute(t) ==
  /\ pc[t] = "recompute" /\ call[t].op = "limit_free"
  /\ limit_level' = SlowestLimit(limit_id, limit_val)
  /\ set_cpu_freq_lock' = NoThread
  /\ Return(t, "idle")
  /\ UNCHANGED <<disable, lock_disable, lock_id, lock_val, lock_level, limit_id,
                 limit_val, set_freq_lock, freqs, policy, hardware, mover,
                 fixed>>

-----------------------------------------------------------------------------
(* exynos_cpufreq_notifier_event and exynos_cpufreq_reboot_notifier_call    *)

(* PM_SUSPEND_PREPARE asks for the PM floor.  When the level is fixed the   *)
(* request is refused and the notifier answers NOTIFY_BAD.  Nobody suspends *)
(* the machine before its governor has asked for a first frequency.         *)
SuspendPrepare(t) ==
  /\ pc[t] = "idle" /\ t \in PmThreads
  /\ freqs.new # 0
  /\ \/ LockCall(t, "suspend", PmId, PmLockIdx)
     \/ /\ disable /\ PmId # TmuId
        /\ Goto(t, "bad")
        /\ UNCHANGED <<disable, lock_disable, requests, set_freq_lock,
                       set_cpu_freq_lock, freqs, policy, hardware, call, mover,
                       fixed>>

SuspendDisable(t) ==
  /\ pc[t] = "prepared"
  /\ disable' = TRUE
  /\ Goto(t, "suspended")
  /\ UNCHANGED <<lock_disable, requests, set_freq_lock, set_cpu_freq_lock,
                 freqs, policy, hardware, call, mover, fixed>>

(* PM_POST_SUSPEND, which the suspend core sends after a wake-up and after  *)
(* a refused PM_SUSPEND_PREPARE alike                                       *)
PostSuspend(t, from) ==
  /\ pc[t] = from
  /\ LockFreeReset(t, "resume", PmId)

(* Under the powersave and performance governors the clock is set to the    *)
(* top level; freqs is still what the last transition left in it            *)
PostSuspendRestore(t) ==
  /\ pc[t] = "thaw"
  /\ \/ /\ lock_disable
        /\ FreqMutexFree
        /\ set_freq_lock' = t
        /\ call' = [call EXCEPT ![t] =
             [NoCall EXCEPT !.op = "resume", !.old = PmLockIdx, !.new = MaxIdx]]
        /\ Goto(t, "run")
     \/ /\ ~lock_disable
        /\ Goto(t, "enable")
        /\ UNCHANGED <<set_freq_lock, call>>
  /\ UNCHANGED <<disable, lock_disable, requests, set_cpu_freq_lock, freqs,
                 policy, hardware, mover, fixed>>

PostSuspendEnable(t) ==
  /\ pc[t] = "enable"
  /\ disable' = FALSE
  /\ Goto(t, "idle")
  /\ UNCHANGED <<lock_disable, requests, set_freq_lock, set_cpu_freq_lock,
                 freqs, policy, hardware, call, mover, fixed>>

(* A reboot keeps the PM floor until the machine goes down                  *)
Reboot(t) ==
  /\ pc[t] = "idle" /\ t \in PmThreads
  /\ LockCall(t, "reboot", PmId, PmLockIdx)

-----------------------------------------------------------------------------
(* What an idle thread may start ...                                        *)
Start(t) ==
  \/ TargetCall(t) \/ FixCall(t) \/ Unfix(t)
  \/ ClientLock(t) \/ ClientLockFree(t) \/ ClientLimit(t) \/ LimitFreeReset(t)
  \/ SuspendPrepare(t) \/ PostSuspend(t, "suspended") \/ Reboot(t)

(* ... the steps that wait for a mutex ...                                  *)
Acquire(t) ==
  \/ TargetLock(t) \/ LockRecord(t) \/ LockRaise(t)
  \/ LimitRecord(t) \/ LimitCap(t)
  \/ PostSuspend(t, "bad") \/ PostSuspendRestore(t)

(* ... and those that do not                                                *)
Continue(t) ==
  \/ TargetFloor(t) \/ TargetCap(t) \/ FixDisable(t)
  \/ PreChange(t) \/ RaiseVolt(t) \/ SettleVolt(t) \/ SafeVolt(t) \/ ArmVolt(t)
  \/ Relock(t) \/ SetFreq(t) \/ PostChange(t)
  \/ LockCheck(t) \/ LockScan(t) \/ LockRecompute(t)
  \/ LimitScan(t) \/ LimitRecompute(t)
  \/ SuspendDisable(t) \/ PostSuspendEnable(t)

Next ==
  \/ PolicyAdjust
  \/ PolicyBounds
  \/ \E t \in Threads :
       Start(t) \/ Acquire(t) \/ Continue(t)

Spec == Init /\ [][Next]_vars

(* A thread inside the driver keeps running, and a mutex serves its waiters *)
(* in order, so that one that is free again and again is obtained.  Nothing *)
(* makes a thread start an operation, or a suspended machine wake up.       *)
Fairness ==
  \A t \in Threads : WF_vars(Continue(t)) /\ SF_vars(Acquire(t))

FairSpec == Spec /\ Fairness

-----------------------------------------------------------------------------
(* Properties                                                               *)

Pcs == {"idle", "want_freq", "floor", "cap", "run", "fixing", "record",
        "recorded", "want_raise", "want_cap", "recompute", "prepared",
        "suspended", "bad", "thaw", "enable", "halted"}

Calls == [op : Ops, id : Ids, level : Levels, target : Nat, rel : Relations,
          old : Levels, new : Levels, stage : 1 .. LastStage, torn : BOOLEAN]

Movers == Ops \cup {"boot", "torn"}

(* The values of the driver's variables                                     *)
TypeOK ==
  /\ disable \in BOOLEAN /\ lock_disable \in BOOLEAN
  /\ lock_id \in SUBSET Ids /\ limit_id \in SUBSET Ids
  /\ lock_val \in [Ids -> Levels] /\ limit_val \in [Ids -> Levels]
  /\ lock_level \in Levels /\ limit_level \in Levels
  /\ set_freq_lock \in Threads \cup {NoThread}
  /\ set_cpu_freq_lock \in Threads \cup {NoThread}
  /\ freqs \in [old : Nat, new : Nat]
  /\ policy \in [cur : Nat, min : Nat, max : Nat]
  /\ clk \in Nat \ {0} /\ volt \in Nat \ {0}
  /\ pc \in [Threads -> Pcs] /\ call \in [Threads -> Calls]
  /\ mover \in Movers /\ fixed \in BOOLEAN

(* No request is forgotten: whenever no *_free is recomputing, the floor in *)
(* force is at least as fast as every recorded floor and the ceiling at     *)
(* least as slow as every recorded ceiling, even when two callers use one   *)
(* id at the same time (the "already locked" check is unprotected).         *)
RequestsCovered ==
  set_cpu_freq_lock = NoThread =>
    \A d \in Ids : lock_level <= lock_val[d] /\ limit_val[d] <= limit_level

(* When each id has one caller, the levels in force are exactly the fastest *)
(* recorded floor and the slowest recorded ceiling: freeing a request gives *)
(* up its level and nothing else.                                           *)
RequestsExact ==
  set_cpu_freq_lock = NoThread =>
    /\ lock_level = FastestLock(lock_id, lock_val)
    /\ limit_level = SlowestLimit(limit_id, limit_val)

(* Between transitions the core's idea of the frequency, policy->cur, is    *)
(* the frequency of the clock, whichever operations raced.                  *)
CurMatchesClock ==
  set_freq_lock = NoThread => policy.cur = clk

(* vdd_arm always carries the clock, during a transition too.               *)
VoltageCarriesClock == volt >= NeedVolt(clk)

(* How far that holds: vdd_arm carries every clock but the MPLL one of a    *)
(* floor or ceiling transition, and that of a transition of exynos_target   *)
(* that starts outside the policy's bounds, from a level that is not the    *)
(* clock's.                                                                 *)
VoltageCarriesKnownClock ==
  \/ VoltageCarriesClock
  \/ \E t \in Threads :
       \/ At(t, "set") /\ call[t].op \notin {"target", "fix"}
       \/ (At(t, "relock") \/ At(t, "set")) /\ Freq[call[t].old] # policy.cur

(* The level a floor or ceiling transition starts from, searched by the     *)
(* frequency the core believes in, is the level the clock is at.            *)
StartLevelExact ==
  \A t \in Threads :
    At(t, "relock") /\ call[t].op \in LockOps \cup {"limit"}
      => Freq[call[t].old] = clk

LimitPending ==
  \E t \in Threads : call[t].op = "limit" /\ pc[t] \in {"want_cap", "run"}

(* Between transitions and ceiling requests the clock is above the ceiling  *)
(* only when a floor request put it there, when exynos_target read the      *)
(* levels while a *_free had reset them, or when nothing has moved it since *)
(* boot.                                                                    *)
OnlyLocksPassLimit ==
  set_freq_lock = NoThread /\ ~LimitPending
    => \/ clk <= Freq[limit_level]
       \/ mover \in LockOps \cup {"resume", "torn", "boot"}

(* exynos_target keeps every recorded floor, not only the one in force when *)
(* some other floor was recorded or freed, unless it reads in the middle of *)
(* a *_free.                                                                *)
FloorsKept ==
  [][\A t \in Threads :
       pc[t] = "floor" /\ pc'[t] = "cap" /\ ~lock_disable /\ ~call'[t].torn
         => \A d \in Ids : call'[t].new <= lock_val[d]]_vars

(* The machine goes to sleep no slower than the PM floor, unless            *)
(* exynos_target read the floor while a *_free had reset it.                *)
SleepsAtPmFloor ==
  \A t \in PmThreads :
    pc[t] = "suspended" /\ set_freq_lock = NoThread
      => clk >= Freq[PmLockIdx] \/ mover = "torn"

(* Every operation that is called returns: no early return keeps a mutex.   *)
CallsReturn ==
  \A t \in Threads :
    pc[t] # "idle" ~> pc[t] \in {"idle", "suspended", "halted"}
=============================================================================
