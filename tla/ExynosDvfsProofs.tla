--------------------------- MODULE ExynosDvfsProofs ---------------------------
(***************************************************************************)
(* Proofs about ExynosDvfs, for every set of threads, ids, levels and      *)
(* tables that its assumptions allow.                                      *)
(***************************************************************************)
EXTENDS ExynosDvfs, WellFoundedInduction, TLAPS

-----------------------------------------------------------------------------
(* Look-ups in the frequency table                                          *)

(* The order of the natural numbers is well founded, so every nonempty set *)
(* of them has a least element.                                            *)
LEMMA LeastNatural ==
  ASSUME NEW S \in SUBSET Nat, S # {}
  PROVE  \E n \in S : \A j \in S : n <= j
<1>. DEFINE R == OpToRel(<, Nat)
<1>1. IsWellFoundedOn(R, Nat)
  BY NatLessThanWellFounded
<1>2. \A x, y \in Nat : x < y => <<x, y>> \in R
  BY DEF OpToRel
<1>. HIDE DEF R
<1>3. PICK n \in S : \A j \in S : <<j, n>> \notin R
  BY <1>1, WFMin
<1>4. ASSUME NEW j \in S PROVE n <= j
  <2>1. n \in Nat /\ j \in Nat
    OBVIOUS
  <2>2. ~(j < n)
    BY <1>2, <1>3, <2>1
  <2>. QED
    BY ONLY <2>1, <2>2
<1>. QED
  BY <1>4

(* A nonempty set of levels has a fastest and a slowest one.               *)
LEMMA FastestExists ==
  ASSUME NEW S \in SUBSET Levels, S # {}
  PROVE  Fastest(S) \in S /\ \A j \in S : Fastest(S) <= j
<1>1. S \in SUBSET Nat
  BY LevelsAssumption DEF Levels
<1>2. PICK n \in S : \A j \in S : n <= j
  BY <1>1, LeastNatural
<1>. QED
  BY <1>2 DEF Fastest

LEMMA SlowestExists ==
  ASSUME NEW S \in SUBSET Levels, S # {}
  PROVE  Slowest(S) \in S /\ \A j \in S : j <= Slowest(S)
<1>. DEFINE M == { MinIdx - i : i \in S }
<1>1. M \in SUBSET Nat /\ M # {}
  BY LevelsAssumption DEF Levels
<1>2. PICK n \in M : \A j \in M : n <= j
  BY <1>1, LeastNatural
<1>3. PICK m \in S : n = MinIdx - m
  BY <1>2
<1>4. \A j \in S : j <= m
  <2>1. SUFFICES ASSUME NEW j \in S PROVE j <= m
    OBVIOUS
  <2>2. n <= MinIdx - j
    BY <1>2
  <2>. QED
    BY <1>3, <2>2, LevelsAssumption DEF Levels
<1>. QED
  BY <1>3, <1>4 DEF Slowest

(* exynos_target's look-ups return a level of the table.                   *)
LEMMA TableTargetIsLevel ==
  ASSUME NEW pol, InPolicy(pol) # {}, NEW f \in Nat, NEW r \in Relations,
         pol.min \in Nat, pol.max \in Nat
  PROVE  TableTarget(pol, f, r) \in Levels
<1>. DEFINE below == { i \in InPolicy(pol) : Freq[i] <= f }
            above == { i \in InPolicy(pol) : Freq[i] >= f }
<1>1. below \in SUBSET Levels /\ above \in SUBSET Levels
  BY DEF InPolicy
<1>2. below # {} \/ above # {}
  <2>1. PICK i \in InPolicy(pol) : TRUE
    OBVIOUS
  <2>2. i \in Levels /\ Freq[i] \in Nat
    BY FreqAssumption DEF InPolicy
  <2>3. Freq[i] <= f \/ Freq[i] >= f
    BY <2>2
  <2>. QED
    BY <2>1, <2>3
<1>3. below # {} => Fastest(below) \in Levels /\ Slowest(below) \in Levels
  BY <1>1, FastestExists, SlowestExists
<1>4. above # {} => Slowest(above) \in Levels
  BY <1>1, SlowestExists
<1>5. TableTarget(pol, f, r) =
        IF r = "H"
        THEN IF below # {} THEN Fastest(below) ELSE Slowest(above)
        ELSE IF above # {} THEN Slowest(above) ELSE Fastest(below)
  BY DEF TableTarget
<1>. QED
  BY <1>2, <1>3, <1>4, <1>5

-----------------------------------------------------------------------------
(* A frequency the tables reach needs the voltage of one of their levels.  *)
LEMMA NeedVoltIsVolt ==
  ASSUME NEW f \in Nat, f <= Freq[MaxIdx]
  PROVE  NeedVolt(f) \in Nat \ {0}
<1>. DEFINE S == { i \in Levels : Freq[i] >= f }
<1>1. MaxIdx \in Levels /\ Freq[MaxIdx] \in Nat
  BY LevelsAssumption, FreqAssumption DEF Levels
<1>2. MaxIdx \in S /\ S \in SUBSET Levels
  BY <1>1
<1>3. Slowest(S) \in Levels
  BY <1>2, SlowestExists
<1>. QED
  BY <1>3, VoltAssumption DEF NeedVolt

LEMMA SafeArmVoltType ==
  ASSUME NEW i, NEW j
  PROVE  SafeArmVolt(i, j) \in Nat
BY VoltAssumption, PllAssumption DEF SafeArmVolt

(* The recomputed levels are levels, and they cover every recorded one.    *)
LEMMA FastestLockCovers ==
  ASSUME NEW ids, NEW val \in [Ids -> Levels]
  PROVE  /\ FastestLock(ids, val) \in Levels
         /\ ids # {} => \A d \in Ids : FastestLock(ids, val) <= val[d]
<1>. DEFINE S == {MinIdx} \cup { val[d] : d \in Ids }
<1>1. MinIdx \in Levels
  BY LevelsAssumption DEF Levels
<1>2. S \in SUBSET Levels /\ S # {}
  BY <1>1
<1>3. Fastest(S) \in S /\ \A j \in S : Fastest(S) <= j
  BY <1>2, FastestExists
<1>4. FastestLock(ids, val) = IF ids = {} THEN MinIdx ELSE Fastest(S)
  BY DEF FastestLock
<1>. HIDE DEF S
<1>5. \A d \in Ids : val[d] \in S
  BY DEF S
<1>. QED
  BY <1>1, <1>2, <1>3, <1>4, <1>5

LEMMA SlowestLimitCovers ==
  ASSUME NEW ids, NEW val \in [Ids -> Levels]
  PROVE  /\ SlowestLimit(ids, val) \in Levels
         /\ ids # {} => \A d \in Ids : val[d] <= SlowestLimit(ids, val)
<1>. DEFINE S == {MaxIdx} \cup { val[d] : d \in Ids }
<1>1. MaxIdx \in Levels
  BY LevelsAssumption DEF Levels
<1>2. S \in SUBSET Levels /\ S # {}
  BY <1>1
<1>3. Slowest(S) \in S /\ \A j \in S : j <= Slowest(S)
  BY <1>2, SlowestExists
<1>4. SlowestLimit(ids, val) = IF ids = {} THEN MaxIdx ELSE Slowest(S)
  BY DEF SlowestLimit
<1>. HIDE DEF S
<1>5. \A d \in Ids : val[d] \in S
  BY DEF S
<1>. QED
  BY <1>1, <1>2, <1>3, <1>4, <1>5

-----------------------------------------------------------------------------
(* Type correctness.  The table look-ups of exynos_target return levels     *)
(* only because the policy's bounds always hold a frequency of the table.   *)

PolicyBounded ==
  \E b \in Bounds : policy.min = b.min /\ policy.max = b.max

TypeInv == TypeOK /\ PolicyBounded

LEMMA BoundsType == \A b \in Bounds : b.min \in Nat /\ b.max \in Nat
BY PoliciesAssumption DEF Bounds

LEMMA NoCallType == NoCall \in Calls
BY LevelsAssumption, IdsAssumption
   DEF NoCall, Calls, Ops, Levels, Relations, LastStage

LEMMA LookUpIsLevel ==
  ASSUME TypeInv, NEW f \in Nat, NEW r \in Relations
  PROVE  TableTarget(policy, f, r) \in Levels
<1>1. PICK b \in Bounds : policy.min = b.min /\ policy.max = b.max
  BY DEF TypeInv, PolicyBounded
<1>2. InPolicy(policy) = InPolicy(b)
  BY <1>1 DEF InPolicy
<1>3. InPolicy(policy) # {}
  BY <1>2, PoliciesAssumption
<1>4. policy.min \in Nat /\ policy.max \in Nat
  BY DEF TypeInv, TypeOK
<1>. QED
  BY <1>3, <1>4, TableTargetIsLevel

LEMMA TypeInvInit == Init => TypeInv
<1>. SUFFICES ASSUME Init PROVE TypeInv
  OBVIOUS
<1>1. PICK b \in Bounds : policy = [cur |-> clk, min |-> b.min, max |-> b.max]
  BY DEF Init
<1>2. clk \in Nat \ {0} /\ clk <= Freq[MaxIdx]
  BY BootAssumption DEF Init
<1>3. volt \in Nat \ {0}
  BY <1>2, NeedVoltIsVolt DEF Init
<1>4. policy \in [cur : Nat, min : Nat, max : Nat]
  BY <1>1, <1>2, BoundsType
<1>5. MinIdx \in Levels /\ MaxIdx \in Levels
  BY LevelsAssumption DEF Levels
<1>6. lock_disable \in BOOLEAN
  BY RequestsAssumption DEF Init
<1>7. PolicyBounded
  BY <1>1 DEF PolicyBounded
<1>8. TypeOK
  BY <1>2, <1>3, <1>4, <1>5, <1>6, NoCallType DEF Init, TypeOK, Pcs, Movers
<1>. QED
  BY <1>7, <1>8 DEF TypeInv

(* Facts about one call record, which the steps below cite.                *)
LEMMA ProceedType ==
  ASSUME TypeInv, NEW t \in Threads, Proceed(t)
  PROVE  /\ pc' \in [Threads -> Pcs] /\ call' \in [Threads -> Calls]
         /\ set_freq_lock' \in Threads \cup {NoThread}
<1>1. CASE call[t].stage = LastStage
  BY <1>1, NoCallType
     DEF Proceed, Return, Goto, ReturnPc, TypeInv, TypeOK, Pcs
<1>2. CASE call[t].stage # LastStage
  <2>1. [call[t] EXCEPT !.stage = @ + 1] \in Calls
    BY <1>2 DEF TypeInv, TypeOK, Calls, LastStage
  <2>. QED
    BY <1>2, <2>1 DEF Proceed, TypeInv, TypeOK
<1>. QED
  BY <1>1, <1>2

LEMMA ReturnType ==
  ASSUME TypeInv, NEW t \in Threads, NEW p \in Pcs, Return(t, p)
  PROVE  pc' \in [Threads -> Pcs] /\ call' \in [Threads -> Calls]
BY NoCallType DEF Return, Goto, TypeInv, TypeOK

LEMMA ReturnPcType ==
  \A op : ReturnPc(op) \in Pcs /\ ErrorPc(op) \in Pcs
BY DEF ReturnPc, ErrorPc, Pcs

LEMMA StagesType ==
  ASSUME TypeInv, NEW t \in Threads,
         PreChange(t) \/ RaiseVolt(t) \/ SettleVolt(t) \/ SafeVolt(t)
           \/ ArmVolt(t) \/ Relock(t) \/ SetFreq(t) \/ PostChange(t)
  PROVE  TypeInv'
<1>. USE DEF TypeInv, PolicyBounded, requests, hardware
<1>1. Proceed(t)
  BY DEF PreChange, RaiseVolt, SettleVolt, SafeVolt, ArmVolt, Relock, SetFreq,
         PostChange
<1>2. /\ pc' \in [Threads -> Pcs] /\ call' \in [Threads -> Calls]
      /\ set_freq_lock' \in Threads \cup {NoThread}
  BY <1>1, ProceedType
<1>3. /\ call[t].new \in Levels /\ call[t].old \in Levels /\ call[t].op \in Ops
      /\ freqs.old \in Nat /\ freqs.new \in Nat
  BY DEF TypeOK, Calls
<1>4. Volt[call[t].new] \in Nat \ {0} /\ Freq[call[t].new] \in Nat \ {0}
      /\ MpllFreq \in Nat \ {0} /\ Safe(t) \in Nat
  BY <1>3, VoltAssumption, FreqAssumption, PllAssumption, SafeArmVoltType
     DEF Safe
<1>5. CASE PreChange(t)
  BY <1>2, <1>5 DEF PreChange, TypeOK
<1>6. CASE RaiseVolt(t) \/ SettleVolt(t) \/ SafeVolt(t) \/ ArmVolt(t)
  <2>1. volt' \in Nat \ {0}
    BY <1>4, <1>6
       DEF RaiseVolt, FirstVolt, SettleVolt, SafeVolt, ArmVolt, TypeOK
  <2>. QED
    BY <1>2, <1>6, <2>1
       DEF RaiseVolt, SettleVolt, SafeVolt, ArmVolt, TypeOK
<1>7. CASE Relock(t)
  BY <1>2, <1>4, <1>7 DEF Relock, TypeOK
<1>8. CASE SetFreq(t)
  <2>1. Mover(t) \in Movers
    BY <1>3 DEF Mover, Movers, TypeOK
  <2>. QED
    BY <1>2, <1>4, <1>8, <2>1 DEF SetFreq, TypeOK
<1>9. CASE PostChange(t)
  BY <1>2, <1>3, <1>9 DEF PostChange, TypeOK
<1>. QED
  BY <1>5, <1>6, <1>7, <1>8, <1>9

(* A call of exynos_cpufreq_lock, by a client or a notifier                *)
LEMMA LockCallType ==
  ASSUME TypeInv, NEW t \in Threads, NEW op \in Ops, NEW id \in Ids,
         NEW l \in Levels, LockCall(t, op, id, l)
  PROVE  TypeInv'
<1>1. [NoCall EXCEPT !.op = op, !.id = id, !.level = l] \in Calls
  BY NoCallType DEF Calls, NoCall
<1>. QED
  BY <1>1 DEF LockCall, Goto, TypeInv, TypeOK, PolicyBounded, Pcs, requests,
              hardware

LEMMA LockFreeResetType ==
  ASSUME TypeInv, NEW t \in Threads, NEW op \in Ops, NEW id \in Ids,
         LockFreeReset(t, op, id)
  PROVE  TypeInv'
<1>1. [NoCall EXCEPT !.op = op, !.id = id] \in Calls
  BY NoCallType DEF Calls, NoCall
<1>2. MinIdx \in Levels
  BY LevelsAssumption DEF Levels
<1>. QED
  BY <1>1, <1>2
     DEF LockFreeReset, Freed, Goto, TypeInv, TypeOK, PolicyBounded, Pcs,
         hardware

(* What an idle thread starts                                              *)
LEMMA StartType ==
  ASSUME TypeInv, NEW t \in Threads, Start(t)
  PROVE  TypeInv'
<1>. USE DEF Goto, PolicyBounded, requests, hardware
<1>1. CASE TargetCall(t)
  <2>1. PICK f \in Targets, r \in Relations :
          call' = [call EXCEPT ![t] =
                     [NoCall EXCEPT !.op = "target", !.target = f, !.rel = r]]
    BY <1>1 DEF TargetCall
  <2>2. [NoCall EXCEPT !.op = "target", !.target = f, !.rel = r] \in Calls
    BY NoCallType, RequestsAssumption DEF Calls, NoCall, Ops
  <2>. QED
    BY <1>1, <2>1, <2>2 DEF TargetCall, TypeInv, TypeOK, Pcs
<1>2. CASE FixCall(t)
  <2>1. PICK f \in Targets :
          call' = [call EXCEPT ![t] =
                     [NoCall EXCEPT !.op = "fix", !.target = f, !.rel = "L"]]
    BY <1>2 DEF FixCall
  <2>2. [NoCall EXCEPT !.op = "fix", !.target = f, !.rel = "L"] \in Calls
    BY NoCallType, RequestsAssumption DEF Calls, NoCall, Ops, Relations
  <2>. QED
    BY <1>2, <2>1, <2>2 DEF FixCall, TypeInv, TypeOK, Pcs
<1>3. CASE Unfix(t)
  BY <1>3 DEF Unfix, TypeInv, TypeOK
<1>4. CASE ClientLock(t)
  <2>1. PICK id \in LockIds[t], l \in ReqLevels : LockCall(t, "lock", id, l)
    BY <1>4 DEF ClientLock
  <2>2. id \in Ids /\ l \in Levels /\ "lock" \in Ops
    BY <1>4, IdsAssumption, RequestsAssumption DEF ClientLock, Ops
  <2>. QED
    BY <2>1, <2>2, LockCallType
<1>5. CASE ClientLockFree(t)
  <2>1. PICK id \in LockIds[t] : LockFreeReset(t, "lock_free", id)
    BY <1>5 DEF ClientLockFree
  <2>2. id \in Ids /\ "lock_free" \in Ops
    BY <1>5, IdsAssumption DEF ClientLockFree, Ops
  <2>. QED
    BY <2>1, <2>2, LockFreeResetType
<1>6. CASE ClientLimit(t)
  <2>1. PICK id \in LimitIds[t], l \in ReqLevels :
          call' = [call EXCEPT ![t] =
                     [NoCall EXCEPT !.op = "limit", !.id = id, !.level = l]]
    BY <1>6 DEF ClientLimit
  <2>2. id \in Ids /\ l \in Levels
    BY <1>6, IdsAssumption, RequestsAssumption DEF ClientLimit
  <2>3. [NoCall EXCEPT !.op = "limit", !.id = id, !.level = l] \in Calls
    BY <2>2, NoCallType DEF Calls, NoCall, Ops
  <2>. QED
    BY <1>6, <2>1, <2>3 DEF ClientLimit, TypeInv, TypeOK, Pcs
<1>7. CASE LimitFreeReset(t)
  <2>1. PICK id \in LimitIds[t] :
          /\ limit_id' = limit_id \ {id}
          /\ limit_val' = Freed(limit_val, id, MaxIdx)
          /\ call' = [call EXCEPT ![t] =
                        [NoCall EXCEPT !.op = "limit_free", !.id = id]]
    BY <1>7 DEF LimitFreeReset
  <2>2. id \in Ids
    BY <1>7, IdsAssumption DEF LimitFreeReset
  <2>3. [NoCall EXCEPT !.op = "limit_free", !.id = id] \in Calls
    BY <2>2, NoCallType DEF Calls, NoCall, Ops
  <2>4. MaxIdx \in Levels
    BY LevelsAssumption DEF Levels
  <2>. QED
    BY <1>7, <2>1, <2>3, <2>4 DEF LimitFreeReset, Freed, TypeInv, TypeOK, Pcs
<1>8. CASE SuspendPrepare(t)
  <2>1. CASE LockCall(t, "suspend", PmId, PmLockIdx)
    BY <2>1, LockCallType, IdsAssumption, RequestsAssumption DEF Ops
  <2>2. CASE ~LockCall(t, "suspend", PmId, PmLockIdx)
    BY <1>8, <2>2 DEF SuspendPrepare, TypeInv, TypeOK, Pcs
  <2>. QED
    BY <2>1, <2>2
<1>9. CASE PostSuspend(t, "suspended")
  BY <1>9, LockFreeResetType, IdsAssumption DEF PostSuspend, Ops
<1>10. CASE Reboot(t)
  BY <1>10, LockCallType, IdsAssumption, RequestsAssumption DEF Reboot, Ops
<1>. QED
  BY <1>1, <1>2, <1>3, <1>4, <1>5, <1>6, <1>7, <1>8, <1>9, <1>10 DEF Start

LEMMA BeginRequestType ==
  ASSUME TypeInv, NEW t \in Threads, BeginRequest(t)
  PROVE  /\ pc' \in [Threads -> Pcs] /\ call' \in [Threads -> Calls]
         /\ set_freq_lock' \in Threads \cup {NoThread}
         /\ freqs' \in [old : Nat, new : Nat]
<1>1. call[t] \in Calls /\ call[t].level \in Levels /\ policy.cur \in Nat
  BY DEF TypeInv, TypeOK, Calls
<1>2. Freq[call[t].level] \in Nat
  BY <1>1, FreqAssumption
<1>3. CASE \E old \in LevelsOfFreq(policy.cur) :
             /\ set_freq_lock' = t
             /\ freqs' = [old |-> policy.cur, new |-> Freq[call[t].level]]
             /\ call' = [call EXCEPT ![t].old = old, ![t].new = call[t].level]
             /\ Goto(t, "run")
  <2>1. PICK old \in LevelsOfFreq(policy.cur) :
          /\ set_freq_lock' = t
          /\ freqs' = [old |-> policy.cur, new |-> Freq[call[t].level]]
          /\ call' = [call EXCEPT ![t].old = old, ![t].new = call[t].level]
          /\ Goto(t, "run")
    BY <1>3
  <2>2. old \in Levels
    BY DEF LevelsOfFreq
  <2>3. [call[t] EXCEPT !.old = old, !.new = call[t].level] \in Calls
    BY <1>1, <2>2 DEF Calls
  <2>. QED
    BY <1>1, <1>2, <2>1, <2>3 DEF Goto, TypeInv, TypeOK, Pcs
<1>4. CASE /\ Return(t, ErrorPc(call[t].op))
           /\ UNCHANGED <<set_freq_lock, freqs>>
  BY <1>4, ReturnType, ReturnPcType DEF TypeInv, TypeOK
<1>. QED
  BY <1>3, <1>4 DEF BeginRequest

(* The steps that take a mutex                                             *)
LEMMA AcquireType ==
  ASSUME TypeInv, NEW t \in Threads, Acquire(t)
  PROVE  TypeInv'
<1>. USE DEF PolicyBounded, hardware
<1>1. call[t] \in Calls /\ policy.cur \in Nat
  BY DEF TypeInv, TypeOK
<1>2. CASE TargetLock(t)
  <2>1. CASE disable /\ Return(t, ReturnPc(call[t].op))
             /\ UNCHANGED <<set_freq_lock, freqs>>
    BY <1>2, <2>1, ReturnType, ReturnPcType
       DEF TargetLock, TypeInv, TypeOK, requests
  <2>2. CASE ~disable
    <3>. DEFINE old == TableTarget(policy, policy.cur, call[t].rel)
                new == TableTarget(policy, call[t].target, call[t].rel)
    <3>1. old \in Levels /\ new \in Levels
      BY <1>1, LookUpIsLevel DEF Calls
    <3>2. call' = [call EXCEPT ![t].old = old, ![t].new = new]
      BY <1>2, <2>2 DEF TargetLock
    <3>. HIDE DEF old, new
    <3>3. [call[t] EXCEPT !.old = old, !.new = new] \in Calls
      BY <1>1, <3>1 DEF Calls
    <3>. QED
      BY <1>1, <1>2, <2>2, <3>2, <3>3
         DEF TargetLock, Goto, TypeInv, TypeOK, Pcs, requests
  <2>. QED
    BY <1>2, <2>1, <2>2 DEF TargetLock
<1>3. CASE LockRecord(t)
  <2>1. StrongerFloor(call[t].level) \in Levels
    BY <1>1 DEF StrongerFloor, TypeInv, TypeOK, Calls
  <2>. QED
    BY <1>1, <1>3, <2>1 DEF LockRecord, Goto, TypeInv, TypeOK, Calls, Pcs
<1>4. CASE LimitRecord(t)
  BY <1>1, <1>4 DEF LimitRecord, Goto, TypeInv, TypeOK, Calls, Pcs
<1>5. CASE LockRaise(t) \/ LimitCap(t)
  <2>1. BeginRequest(t) \/ /\ Return(t, ReturnPc(call[t].op))
                           /\ UNCHANGED <<set_freq_lock, freqs>>
    BY <1>5 DEF LockRaise, LimitCap
  <2>2. /\ pc' \in [Threads -> Pcs] /\ call' \in [Threads -> Calls]
        /\ set_freq_lock' \in Threads \cup {NoThread}
        /\ freqs' \in [old : Nat, new : Nat]
    BY <2>1, BeginRequestType, ReturnType, ReturnPcType DEF TypeInv, TypeOK
  <2>. QED
    BY <1>5, <2>2 DEF LockRaise, LimitCap, TypeInv, TypeOK, requests
<1>6. CASE PostSuspend(t, "bad")
  BY <1>6, LockFreeResetType, IdsAssumption DEF PostSuspend, Ops
<1>7. CASE PostSuspendRestore(t)
  <2>1. [NoCall EXCEPT !.op = "resume", !.old = PmLockIdx, !.new = MaxIdx]
          \in Calls
    BY NoCallType, LevelsAssumption, RequestsAssumption
       DEF Calls, NoCall, Ops, Levels
  <2>. QED
    BY <1>7, <2>1 DEF PostSuspendRestore, Goto, TypeInv, TypeOK, Pcs, requests
<1>. QED
  BY <1>2, <1>3, <1>4, <1>5, <1>6, <1>7 DEF Acquire

(* The other steps of a call                                               *)
LEMMA ContinueType ==
  ASSUME TypeInv, NEW t \in Threads, Continue(t)
  PROVE  TypeInv'
<1>. USE DEF PolicyBounded, hardware, requests
<1>1. call[t] \in Calls
  BY DEF TypeInv, TypeOK
<1>2. CASE TargetFloor(t)
  <2>. DEFINE new == IF ~lock_disable /\ call[t].new > lock_level
                     THEN lock_level ELSE call[t].new
  <2>1. new \in Levels
    BY <1>1 DEF Calls, TypeInv, TypeOK
  <2>2. [call[t] EXCEPT !.new = new, !.torn = Torn(t)] \in Calls
    BY <1>1, <2>1 DEF Calls, Torn
  <2>. QED
    BY <1>2, <2>2 DEF TargetFloor, Goto, TypeInv, TypeOK, Pcs
<1>3. CASE TargetCap(t)
  <2>1. Capped(t) \in Levels
    BY <1>1 DEF Calls, Capped, TypeInv, TypeOK
  <2>2. [call[t] EXCEPT !.new = Capped(t), !.torn = Torn(t)] \in Calls
    BY <1>1, <2>1 DEF Calls, Torn
  <2>3. CappedFreq(t) \in Nat
    BY <2>1, FreqAssumption DEF CappedFreq
  <2>. QED
    BY <1>3, <2>2, <2>3 DEF TargetCap, Goto, TypeInv, TypeOK, Pcs
<1>4. CASE FixDisable(t) \/ SuspendDisable(t) \/ PostSuspendEnable(t)
  BY <1>4 DEF FixDisable, SuspendDisable, PostSuspendEnable, Goto, TypeInv,
              TypeOK, Pcs
<1>5. CASE LockCheck(t)
  BY <1>5, ReturnType, ReturnPcType DEF LockCheck, Goto, TypeInv, TypeOK, Pcs
<1>6. CASE LockRecompute(t)
  <2>1. pc' \in [Threads -> Pcs] /\ call' \in [Threads -> Calls]
    <3>1. (IF call[t].op = "resume" THEN "thaw" ELSE "idle") \in Pcs
      BY DEF Pcs
    <3>. QED
      BY <1>6, <3>1, ReturnType DEF LockRecompute
  <2>2. lock_level' \in Levels
    BY <1>6, FastestLockCovers DEF LockRecompute, TypeInv, TypeOK
  <2>. QED
    BY <1>6, <2>1, <2>2 DEF LockRecompute, TypeInv, TypeOK
<1>7. CASE LimitRecompute(t)
  <2>1. pc' \in [Threads -> Pcs] /\ call' \in [Threads -> Calls]
    BY <1>7, ReturnType DEF LimitRecompute, Pcs
  <2>2. limit_level' \in Levels
    BY <1>7, SlowestLimitCovers DEF LimitRecompute, TypeInv, TypeOK
  <2>. QED
    BY <1>7, <2>1, <2>2 DEF LimitRecompute, TypeInv, TypeOK
<1>8. CASE LockScan(t) \/ LimitScan(t)
  BY <1>8 DEF LockScan, LimitScan, TypeInv, TypeOK
<1>. QED
  BY <1>2, <1>3, <1>4, <1>5, <1>6, <1>7, <1>8, StagesType DEF Continue

LEMMA TypeInvNext == TypeInv /\ [Next]_vars => TypeInv'
<1>. SUFFICES ASSUME TypeInv, [Next]_vars PROVE TypeInv'
  OBVIOUS
<1>1. CASE PolicyAdjust
  BY <1>1, RequestsAssumption
     DEF PolicyAdjust, TypeInv, TypeOK, PolicyBounded, requests, hardware
<1>2. CASE PolicyBounds
  <2>1. PICK b \in Bounds : policy' = [policy EXCEPT !.min = b.min, !.max = b.max]
    BY <1>2 DEF PolicyBounds
  <2>2. policy' \in [cur : Nat, min : Nat, max : Nat]
        /\ policy'.min = b.min /\ policy'.max = b.max
    BY <2>1, BoundsType DEF TypeInv, TypeOK
  <2>. QED
    BY <1>2, <2>2
       DEF PolicyBounds, TypeInv, TypeOK, PolicyBounded, requests, hardware
<1>3. CASE \E t \in Threads : Start(t) \/ Acquire(t) \/ Continue(t)
  BY <1>3, StartType, AcquireType, ContinueType
<1>4. CASE UNCHANGED vars
  BY <1>4 DEF vars, TypeInv, TypeOK, PolicyBounded, requests, hardware
<1>. QED
  BY <1>1, <1>2, <1>3, <1>4 DEF Next

(* The driver's variables keep their types, whatever the requests, bounds   *)
(* and races: in particular every level chosen is a level of the tables.    *)
THEOREM TypeCorrect == Spec => []TypeOK
<1>1. Spec => []TypeInv
  BY TypeInvInit, TypeInvNext, PTL DEF Spec
<1>2. TypeInv => TypeOK
  BY DEF TypeInv
<1>. QED
  BY <1>1, <1>2, PTL

-----------------------------------------------------------------------------
(* No request is forgotten                                                 *)

LockCovered == \A d \in Ids : lock_level <= lock_val[d]
LimitCovered == \A d \in Ids : limit_val[d] <= limit_level

(* A request that nobody holds asks for the initial level.                 *)
FreeRequestsReset ==
  /\ \A d \in Ids \ lock_id : lock_val[d] = MinIdx
  /\ \A d \in Ids \ limit_id : limit_val[d] = MaxIdx

(* A thread that recomputes one of the two levels holds the mutex, and the  *)
(* other level is meanwhile what the requests demand.                       *)
RecomputeExclusive ==
  \A t \in Threads : pc[t] = "recompute" =>
    /\ set_cpu_freq_lock = t
    /\ \/ call[t].op \in {"lock_free", "resume"} /\ LimitCovered
       \/ call[t].op = "limit_free" /\ LockCovered

RequestsInv == FreeRequestsReset /\ RequestsCovered /\ RecomputeExclusive

LEMMA RequestsInvInit == Init => RequestsInv
  BY LevelsAssumption
     DEF Init, RequestsInv, FreeRequestsReset, RequestsCovered,
         RecomputeExclusive

(* A step that leaves the requests and their mutex alone and sends nobody   *)
(* to recompute them                                                        *)
LEMMA RequestsKept ==
  ASSUME RequestsInv, UNCHANGED <<requests, set_cpu_freq_lock>>,
         \A u \in Threads : pc'[u] = "recompute" =>
           pc[u] = "recompute" /\ call'[u].op = call[u].op
  PROVE  RequestsInv'
  BY DEF requests, RequestsInv, FreeRequestsReset, RequestsCovered,
         RecomputeExclusive, LockCovered, LimitCovered

(* A thread that moves to a place other than "recompute"                    *)
LEMMA MoveKeepsRecompute ==
  ASSUME TypeInv, NEW t \in Threads, NEW p, Goto(t, p), p # "recompute",
         NEW c, call' = [call EXCEPT ![t] = c]
  PROVE  \A u \in Threads : pc'[u] = "recompute" =>
           pc[u] = "recompute" /\ call'[u].op = call[u].op
  BY DEF Goto, TypeInv, TypeOK

LEMMA ReturnKeepsRecompute ==
  ASSUME TypeInv, NEW t \in Threads, NEW p, Return(t, p), p # "recompute"
  PROVE  \A u \in Threads : pc'[u] = "recompute" =>
           pc[u] = "recompute" /\ call'[u].op = call[u].op
  BY MoveKeepsRecompute DEF Return

LEMMA ReturnPcNotRecompute ==
  ASSUME NEW op
  PROVE  ReturnPc(op) # "recompute" /\ ErrorPc(op) # "recompute"
  BY DEF ReturnPc, ErrorPc

(* The stages of a transition                                              *)
LEMMA ProceedKeepsRecompute ==
  ASSUME TypeInv, NEW t \in Threads, Proceed(t), pc[t] = "run"
  PROVE  \A u \in Threads : pc'[u] = "recompute" =>
           pc[u] = "recompute" /\ call'[u].op = call[u].op
<1>1. CASE call[t].stage = LastStage
  BY <1>1, ReturnKeepsRecompute, ReturnPcNotRecompute DEF Proceed
<1>2. CASE call[t].stage # LastStage
  BY <1>2 DEF Proceed, TypeInv, TypeOK
<1>. QED
  BY <1>1, <1>2

LEMMA StagesKeepRequests ==
  ASSUME TypeInv, RequestsInv, NEW t \in Threads,
         \/ PreChange(t) \/ RaiseVolt(t) \/ SettleVolt(t) \/ SafeVolt(t)
         \/ ArmVolt(t) \/ Relock(t) \/ SetFreq(t) \/ PostChange(t)
  PROVE  RequestsInv'
<1>1. Proceed(t) /\ pc[t] = "run" /\ UNCHANGED <<requests, set_cpu_freq_lock>>
  BY DEF PreChange, RaiseVolt, SettleVolt, SafeVolt, ArmVolt, Relock, SetFreq,
         PostChange, At, requests
<1>. QED
  BY <1>1, ProceedKeepsRecompute, RequestsKept

(* *_free: the request goes back to its initial level, and only the level   *)
(* it belongs to becomes stale                                              *)
LEMMA LockFreeResetRequests ==
  ASSUME TypeInv, RequestsInv, NEW t \in Threads,
         NEW op \in {"lock_free", "resume"}, NEW id \in Ids,
         LockFreeReset(t, op, id)
  PROVE  RequestsInv'
<1>1. /\ set_cpu_freq_lock = NoThread /\ set_cpu_freq_lock' = t
      /\ lock_id' = lock_id \ {id} /\ lock_val' = [lock_val EXCEPT ![id] = MinIdx]
      /\ UNCHANGED <<limit_id, limit_val, limit_level>>
  BY DEF LockFreeReset, Freed
<1>2. t # NoThread
  BY ThreadsAssumption
<1>3. \A u \in Threads : pc'[u] = "recompute" => u = t
  BY <1>1, ThreadsAssumption
     DEF LockFreeReset, Goto, TypeInv, TypeOK, RequestsInv, RecomputeExclusive
<1>4. call'[t].op = op
  BY NoCallType DEF LockFreeReset, TypeInv, TypeOK, NoCall
<1>5. FreeRequestsReset'
  BY <1>1 DEF RequestsInv, FreeRequestsReset, TypeInv, TypeOK
<1>6. RecomputeExclusive'
  BY <1>1, <1>3, <1>4
     DEF RecomputeExclusive, LimitCovered, RequestsInv, RequestsCovered
<1>. QED
  BY <1>1, <1>2, <1>5, <1>6 DEF RequestsInv, RequestsCovered

LEMMA LimitFreeResetRequests ==
  ASSUME TypeInv, RequestsInv, NEW t \in Threads, LimitFreeReset(t)
  PROVE  RequestsInv'
<1>1. PICK id \in LimitIds[t] :
        /\ limit_id' = limit_id \ {id}
        /\ limit_val' = Freed(limit_val, id, MaxIdx)
        /\ call' = [call EXCEPT ![t] =
                      [NoCall EXCEPT !.op = "limit_free", !.id = id]]
  BY DEF LimitFreeReset
<1>2. /\ set_cpu_freq_lock = NoThread /\ set_cpu_freq_lock' = t
      /\ UNCHANGED <<lock_id, lock_val, lock_level>>
  BY DEF LimitFreeReset
<1>3. id \in Ids
  BY IdsAssumption DEF LimitFreeReset
<1>4. t # NoThread
  BY ThreadsAssumption
<1>5. \A u \in Threads : pc'[u] = "recompute" => u = t
  BY <1>2, ThreadsAssumption
     DEF LimitFreeReset, Goto, TypeInv, TypeOK, RequestsInv, RecomputeExclusive
<1>6. call'[t].op = "limit_free"
  BY <1>1, NoCallType DEF TypeInv, TypeOK, NoCall
<1>7. FreeRequestsReset'
  BY <1>1, <1>2, <1>3 DEF RequestsInv, FreeRequestsReset, TypeInv, TypeOK, Freed
<1>8. RecomputeExclusive'
  BY <1>2, <1>5, <1>6
     DEF RecomputeExclusive, LockCovered, RequestsInv, RequestsCovered
<1>. QED
  BY <1>2, <1>4, <1>7, <1>8 DEF RequestsInv, RequestsCovered

(* Recording a request: the level in force is at least as strong as before  *)
(* and as the request                                                       *)
LEMMA RecordRequests ==
  ASSUME TypeInv, RequestsInv, NEW t \in Threads,
         LockRecord(t) \/ LimitRecord(t)
  PROVE  RequestsInv'
<1>1. call[t] \in Calls /\ set_cpu_freq_lock = NoThread
  BY DEF TypeInv, TypeOK, LockRecord, LimitRecord
<1>2. \A u \in Threads : pc'[u] # "recompute"
  BY <1>1, ThreadsAssumption
     DEF LockRecord, LimitRecord, Goto, TypeInv, TypeOK, RequestsInv,
         RecomputeExclusive
<1>3. CASE LockRecord(t)
  <2>1. FreeRequestsReset'
    BY <1>1, <1>3
       DEF LockRecord, RequestsInv, FreeRequestsReset, TypeInv, TypeOK, Calls
  <2>2. RequestsCovered'
    BY <1>1, <1>3
       DEF LockRecord, StrongerFloor, RequestsInv, RequestsCovered, TypeInv,
           TypeOK, Calls, Levels
  <2>. QED
    BY <1>2, <2>1, <2>2 DEF RequestsInv, RecomputeExclusive
<1>4. CASE LimitRecord(t)
  <2>1. FreeRequestsReset'
    BY <1>1, <1>4
       DEF LimitRecord, RequestsInv, FreeRequestsReset, TypeInv, TypeOK, Calls
  <2>2. RequestsCovered'
    BY <1>1, <1>4
       DEF LimitRecord, RequestsInv, RequestsCovered, TypeInv, TypeOK, Calls,
           Levels
  <2>. QED
    BY <1>2, <2>1, <2>2 DEF RequestsInv, RecomputeExclusive
<1>. QED
  BY <1>3, <1>4

(* The end of *_free: every id left is covered, and a freed one asks for    *)
(* the initial level, which is the weakest                                  *)
LEMMA RecomputeRequests ==
  ASSUME TypeInv, RequestsInv, NEW t \in Threads,
         LockRecompute(t) \/ LimitRecompute(t)
  PROVE  RequestsInv'
<1>1. /\ set_cpu_freq_lock = t /\ set_cpu_freq_lock' = NoThread
      /\ UNCHANGED <<lock_id, lock_val, limit_id, limit_val>>
  BY DEF LockRecompute, LimitRecompute, RequestsInv, RecomputeExclusive
<1>2. \A u \in Threads : pc'[u] # "recompute"
  BY <1>1 DEF LockRecompute, LimitRecompute, Return, Goto, TypeInv, TypeOK,
              RequestsInv, RecomputeExclusive
<1>3. RequestsCovered'
  <2>1. CASE LockRecompute(t)
    <3>1. lock_level' = FastestLock(lock_id, lock_val)
          /\ UNCHANGED limit_level
      BY <2>1 DEF LockRecompute
    <3>2. LimitCovered
      BY <2>1 DEF LockRecompute, RequestsInv, RecomputeExclusive
    <3>3. \A d \in Ids : FastestLock(lock_id, lock_val) <= lock_val[d]
      <4>1. CASE lock_id = {}
        BY <4>1, LevelsAssumption
           DEF FastestLock, RequestsInv, FreeRequestsReset
      <4>2. CASE lock_id # {}
        BY <4>2, FastestLockCovers DEF TypeInv, TypeOK
      <4>. QED
        BY <4>1, <4>2
    <3>. QED
      BY <1>1, <3>1, <3>2, <3>3 DEF RequestsCovered, LimitCovered
  <2>2. CASE LimitRecompute(t)
    <3>1. limit_level' = SlowestLimit(limit_id, limit_val)
          /\ UNCHANGED lock_level
      BY <2>2 DEF LimitRecompute
    <3>2. LockCovered
      BY <2>2 DEF LimitRecompute, RequestsInv, RecomputeExclusive
    <3>3. \A d \in Ids : limit_val[d] <= SlowestLimit(limit_id, limit_val)
      <4>1. CASE limit_id = {}
        BY <4>1, LevelsAssumption
           DEF SlowestLimit, RequestsInv, FreeRequestsReset
      <4>2. CASE limit_id # {}
        BY <4>2, SlowestLimitCovers DEF TypeInv, TypeOK
      <4>. QED
        BY <4>1, <4>2
    <3>. QED
      BY <1>1, <3>1, <3>2, <3>3 DEF RequestsCovered, LockCovered
  <2>. QED
    BY <2>1, <2>2
<1>. QED
  BY <1>1, <1>2, <1>3
     DEF RequestsInv, FreeRequestsReset, RecomputeExclusive

LEMMA ScanRequests ==
  ASSUME TypeInv, RequestsInv, NEW t \in Threads, LockScan(t) \/ LimitScan(t)
  PROVE  RequestsInv'
<1>1. /\ set_cpu_freq_lock = t /\ t # NoThread
      /\ UNCHANGED <<lock_id, lock_val, limit_id, limit_val, pc, call,
                     set_cpu_freq_lock>>
  BY ThreadsAssumption
     DEF LockScan, LimitScan, RequestsInv, RecomputeExclusive
<1>2. RecomputeExclusive'
  <2>1. CASE LockScan(t)
    BY <1>1, <2>1 DEF LockScan, RequestsInv, RecomputeExclusive, LimitCovered
  <2>2. CASE LimitScan(t)
    BY <1>1, <2>2 DEF LimitScan, RequestsInv, RecomputeExclusive, LockCovered
  <2>. QED
    BY <2>1, <2>2
<1>. QED
  BY <1>1, <1>2 DEF RequestsInv, FreeRequestsReset, RequestsCovered

LEMMA RequestsInvNext == TypeInv /\ RequestsInv /\ [Next]_vars => RequestsInv'
<1>. SUFFICES ASSUME TypeInv, RequestsInv, [Next]_vars PROVE RequestsInv'
  OBVIOUS
<1>1. CASE PolicyAdjust \/ PolicyBounds \/ UNCHANGED vars
  BY <1>1, RequestsKept DEF PolicyAdjust, PolicyBounds, vars, requests
<1>2. ASSUME NEW t \in Threads, Start(t) PROVE RequestsInv'
  <2>1. CASE \/ TargetCall(t) \/ FixCall(t) \/ Unfix(t) \/ ClientLock(t)
             \/ ClientLimit(t) \/ SuspendPrepare(t) \/ Reboot(t)
    <3>1. UNCHANGED <<requests, set_cpu_freq_lock>>
      BY <2>1 DEF TargetCall, FixCall, Unfix, ClientLock, ClientLimit,
                  SuspendPrepare, Reboot, LockCall, requests
    <3>2. \A u \in Threads : pc'[u] = "recompute" => u # t
      BY <2>1 DEF TargetCall, FixCall, Unfix, ClientLock, ClientLimit,
                  SuspendPrepare, Reboot, LockCall, Goto, TypeInv, TypeOK
    <3>3. \A u \in Threads : u # t => pc'[u] = pc[u] /\ call'[u] = call[u]
      BY <2>1 DEF TargetCall, FixCall, Unfix, ClientLock, ClientLimit,
                  SuspendPrepare, Reboot, LockCall, Goto, TypeInv, TypeOK
    <3>. QED
      BY <3>1, <3>2, <3>3, RequestsKept
  <2>2. CASE ClientLockFree(t)
    BY <2>2, LockFreeResetRequests, IdsAssumption DEF ClientLockFree
  <2>3. CASE LimitFreeReset(t)
    BY <2>3, LimitFreeResetRequests
  <2>4. CASE PostSuspend(t, "suspended")
    BY <2>4, LockFreeResetRequests, IdsAssumption DEF PostSuspend
  <2>. QED
    BY <1>2, <2>1, <2>2, <2>3, <2>4 DEF Start
<1>3. ASSUME NEW t \in Threads, Acquire(t) PROVE RequestsInv'
  <2>1. CASE TargetLock(t) \/ LockRaise(t) \/ LimitCap(t) \/ PostSuspendRestore(t)
    <3>1. UNCHANGED <<requests, set_cpu_freq_lock>>
      BY <2>1 DEF TargetLock, LockRaise, LimitCap, PostSuspendRestore, requests
    <3>2. \A u \in Threads : pc'[u] = "recompute" => u # t
      <4>1. \E p : p # "recompute" /\ pc' = [pc EXCEPT ![t] = p]
        <5>1. CASE TargetLock(t)
          BY <5>1, ReturnPcNotRecompute DEF TargetLock, Goto, Return
        <5>2. CASE LockRaise(t)
          BY <5>2, ReturnPcNotRecompute DEF LockRaise, BeginRequest, Goto, Return
        <5>3. CASE LimitCap(t)
          BY <5>3, ReturnPcNotRecompute DEF LimitCap, BeginRequest, Goto, Return
        <5>4. CASE PostSuspendRestore(t)
          BY <5>4 DEF PostSuspendRestore, Goto
        <5>. QED
          BY <2>1, <5>1, <5>2, <5>3, <5>4
      <4>. QED
        BY <4>1 DEF TypeInv, TypeOK
    <3>3. \A u \in Threads : u # t => pc'[u] = pc[u] /\ call'[u] = call[u]
      BY <2>1 DEF TargetLock, LockRaise, LimitCap, PostSuspendRestore,
                  BeginRequest, Goto, Return, TypeInv, TypeOK
    <3>. QED
      BY <3>1, <3>2, <3>3, RequestsKept
  <2>2. CASE LockRecord(t) \/ LimitRecord(t)
    BY <2>2, RecordRequests
  <2>3. CASE PostSuspend(t, "bad")
    BY <2>3, LockFreeResetRequests, IdsAssumption DEF PostSuspend
  <2>. QED
    BY <1>3, <2>1, <2>2, <2>3 DEF Acquire
<1>4. ASSUME NEW t \in Threads, Continue(t) PROVE RequestsInv'
  <2>1. CASE \/ TargetFloor(t) \/ TargetCap(t) \/ FixDisable(t) \/ LockCheck(t)
             \/ SuspendDisable(t) \/ PostSuspendEnable(t)
    <3>1. UNCHANGED <<requests, set_cpu_freq_lock>>
      BY <2>1 DEF TargetFloor, TargetCap, FixDisable, LockCheck, SuspendDisable,
                  PostSuspendEnable, requests
    <3>2. \A u \in Threads : pc'[u] = "recompute" => u # t
      BY <2>1, ReturnPcNotRecompute
         DEF TargetFloor, TargetCap, FixDisable, LockCheck, SuspendDisable,
             PostSuspendEnable, Goto, Return, TypeInv, TypeOK
    <3>3. \A u \in Threads : u # t => pc'[u] = pc[u] /\ call'[u] = call[u]
      BY <2>1 DEF TargetFloor, TargetCap, FixDisable, LockCheck, SuspendDisable,
                  PostSuspendEnable, Goto, Return, TypeInv, TypeOK
    <3>. QED
      BY <3>1, <3>2, <3>3, RequestsKept
  <2>2. CASE \/ PreChange(t) \/ RaiseVolt(t) \/ SettleVolt(t) \/ SafeVolt(t)
             \/ ArmVolt(t) \/ Relock(t) \/ SetFreq(t) \/ PostChange(t)
    BY <2>2, StagesKeepRequests
  <2>3. CASE LockScan(t) \/ LimitScan(t)
    BY <2>3, ScanRequests
  <2>4. CASE LockRecompute(t) \/ LimitRecompute(t)
    BY <2>4, RecomputeRequests
  <2>. QED
    BY <1>4, <2>1, <2>2, <2>3, <2>4 DEF Continue
<1>. QED
  BY <1>1, <1>2, <1>3, <1>4 DEF Next

(* No recorded floor or ceiling is ever forgotten, for any number of        *)
(* threads, ids and levels, callers that share an id included: whenever the *)
(* requests' mutex is free, the two levels in force cover them all.         *)
THEOREM NoRequestForgotten == Spec => []RequestsCovered
<1>1. Spec => []TypeInv
  BY TypeInvInit, TypeInvNext, PTL DEF Spec
<1>2. Spec => []RequestsInv
  BY <1>1, RequestsInvInit, RequestsInvNext, PTL DEF Spec
<1>3. RequestsInv => RequestsCovered
  BY DEF RequestsInv
<1>. QED
  BY <1>2, <1>3, PTL

-----------------------------------------------------------------------------
(* Recorded floors are kept                                                *)

(* A step of one thread moves no other, nor changes its call               *)
LEMMA OthersKept ==
  ASSUME TypeInv, NEW t \in Threads, Start(t) \/ Acquire(t) \/ Continue(t)
  PROVE  \A u \in Threads : u # t => pc'[u] = pc[u] /\ call'[u] = call[u]
<1>1. CASE Start(t)
  BY <1>1 DEF Start, TargetCall, FixCall, Unfix, ClientLock, ClientLockFree,
     ClientLimit, LimitFreeReset, SuspendPrepare, PostSuspend, Reboot, LockCall,
     LockFreeReset, Goto, TypeInv, TypeOK
<1>2. CASE Acquire(t)
  BY <1>2 DEF Acquire, TargetLock, LockRecord, LockRaise, LimitRecord, LimitCap,
     PostSuspend, LockFreeReset, PostSuspendRestore, BeginRequest, Return, Goto,
     TypeInv, TypeOK
<1>3. CASE Continue(t)
  BY <1>3 DEF Continue, TargetFloor, TargetCap, FixDisable, PreChange, RaiseVolt,
     SettleVolt, SafeVolt, ArmVolt, Relock, SetFreq, PostChange, Proceed,
     LockCheck, LockScan, LockRecompute, LimitScan, LimitRecompute,
     SuspendDisable, PostSuspendEnable, Return, Goto, TypeInv, TypeOK
<1>. QED
  BY <1>1, <1>2, <1>3

(* Where a step may start                                                  *)
LEMMA StepFrom ==
  ASSUME NEW t \in Threads
  PROVE  /\ Start(t) => pc[t] \in {"idle", "suspended"}
         /\ Acquire(t) => pc[t] \in {"want_freq", "record", "want_raise",
                                     "want_cap", "bad", "thaw"}
         /\ Continue(t) =>
              \/ TargetFloor(t)
              \/ pc[t] \in {"cap", "fixing", "run", "recorded", "recompute",
                            "prepared", "enable"}
<1>1. ASSUME Start(t) PROVE pc[t] \in {"idle", "suspended"}
  BY <1>1 DEF Start, TargetCall, FixCall, Unfix, ClientLock, ClientLockFree,
     ClientLimit, LimitFreeReset, SuspendPrepare, PostSuspend, Reboot
<1>2. ASSUME Acquire(t)
      PROVE  pc[t] \in {"want_freq", "record", "want_raise", "want_cap", "bad",
                        "thaw"}
  BY <1>2 DEF Acquire, TargetLock, LockRecord, LockRaise, LimitRecord, LimitCap,
     PostSuspend, PostSuspendRestore
<1>3. ASSUME Continue(t), ~TargetFloor(t)
      PROVE  pc[t] \in {"cap", "fixing", "run", "recorded", "recompute",
                        "prepared", "enable"}
  BY <1>3 DEF Continue, TargetCap, FixDisable, PreChange, RaiseVolt, SettleVolt,
     SafeVolt, ArmVolt, Relock, SetFreq, PostChange, At, LockCheck, LockScan,
     LockRecompute, LimitScan, LimitRecompute, SuspendDisable,
     PostSuspendEnable
<1>. QED
  BY <1>1, <1>2, <1>3

(* A level that exynos_target reads while nobody recomputes it is at least  *)
(* as fast as every recorded floor.                                         *)
LEMMA FloorReadCovers ==
  ASSUME TypeInv, RequestsInv, [Next]_vars, NEW t \in Threads,
         pc[t] = "floor", pc'[t] = "cap", ~lock_disable, ~call'[t].torn
  PROVE  \A d \in Ids : call'[t].new <= lock_val[d]
<1>1. TargetFloor(t)
  <2>1. pc' # pc
    OBVIOUS
  <2>2. PICK u \in Threads : Start(u) \/ Acquire(u) \/ Continue(u)
    BY <2>1 DEF Next, PolicyAdjust, PolicyBounds, vars
  <2>3. u = t
    BY <2>2, OthersKept
  <2>. QED
    BY <2>2, <2>3, StepFrom
<1>2. call[t] \in Calls
  BY DEF TypeInv, TypeOK
<1>3. set_cpu_freq_lock = NoThread
  BY <1>1, <1>2 DEF TargetFloor, Torn, Calls, TypeInv, TypeOK
<1>4. call'[t].new <= lock_level
  BY <1>1, <1>2 DEF TargetFloor, Calls, Levels, TypeInv, TypeOK
<1>5. call'[t].new \in Levels
  BY <1>1, <1>2 DEF TargetFloor, Calls, TypeInv, TypeOK
<1>. QED
  BY <1>3, <1>4, <1>5, LevelsAssumption
     DEF RequestsInv, RequestsCovered, Levels, TypeInv, TypeOK

(* exynos_target keeps every recorded floor, unless it reads while a *_free *)
(* is recomputing them, whatever the number of clients and governors.       *)
THEOREM FloorsAreKept == Spec => FloorsKept
<1>1. Spec => []TypeInv
  BY TypeInvInit, TypeInvNext, PTL DEF Spec
<1>2. Spec => []RequestsInv
  BY <1>1, RequestsInvInit, RequestsInvNext, PTL DEF Spec
<1>3. TypeInv /\ RequestsInv /\ [Next]_vars
        => [\A t \in Threads :
              pc[t] = "floor" /\ pc'[t] = "cap" /\ ~lock_disable
                /\ ~call'[t].torn
                => \A d \in Ids : call'[t].new <= lock_val[d]]_vars
  BY FloorReadCovers
<1>. QED
  BY <1>1, <1>2, <1>3, PTL DEF Spec, FloorsKept

-----------------------------------------------------------------------------
(* The levels in force are exact                                           *)

(* Each id has one caller.                                                 *)
OneCaller ==
  \A c, d \in Clients :
    c # d => /\ LockIds[c] \cap LockIds[d] = {}
             /\ LimitIds[c] \cap LimitIds[d] = {}

Floors == {MinIdx} \cup { lock_val[d] : d \in Ids }
Ceilings == {MaxIdx} \cup { limit_val[d] : d \in Ids }

LockExact == lock_level = Fastest(Floors)
LimitExact == limit_level = Slowest(Ceilings)

(* A call that is about to record its request has an id that it alone uses  *)
(* and that holds no request.                                               *)
AsksFresh(t) ==
  \/ /\ call[t].op \in LockOps /\ call[t].id \notin lock_id
     /\ \/ t \in Clients /\ call[t].id \in LockIds[t]
        \/ t \in PmThreads /\ call[t].id = PmId
  \/ /\ call[t].op = "limit" /\ call[t].id \notin limit_id
     /\ t \in Clients /\ call[t].id \in LimitIds[t]

(* Each level is exact unless it is being recomputed.                      *)
ExactInv ==
  /\ \A t \in Threads : pc[t] = "record" => AsksFresh(t)
  /\ set_cpu_freq_lock = NoThread => LockExact /\ LimitExact
  /\ \A t \in Threads : pc[t] = "recompute" =>
       IF call[t].op = "limit_free" THEN LockExact ELSE LimitExact

LEMMA FloorsFacts ==
  ASSUME TypeInv
  PROVE  /\ Fastest(Floors) \in Floors /\ Floors \in SUBSET Levels
         /\ \A l \in Floors : Fastest(Floors) <= l
<1>1. MinIdx \in Levels
  BY LevelsAssumption DEF Levels
<1>2. Floors \in SUBSET Levels /\ Floors # {}
  BY <1>1 DEF Floors, TypeInv, TypeOK
<1>. QED
  BY <1>2, FastestExists

LEMMA CeilingsFacts ==
  ASSUME TypeInv
  PROVE  /\ Slowest(Ceilings) \in Ceilings /\ Ceilings \in SUBSET Levels
         /\ \A l \in Ceilings : l <= Slowest(Ceilings)
<1>1. MaxIdx \in Levels
  BY LevelsAssumption DEF Levels
<1>2. Ceilings \in SUBSET Levels /\ Ceilings # {}
  BY <1>1 DEF Ceilings, TypeInv, TypeOK
<1>. QED
  BY <1>2, SlowestExists

(* Where no id holds a request, the loops of *_free need not look           *)
LEMMA RecomputedExact ==
  ASSUME TypeInv, FreeRequestsReset
  PROVE  /\ FastestLock(lock_id, lock_val) = Fastest(Floors)
         /\ SlowestLimit(limit_id, limit_val) = Slowest(Ceilings)
<1>1. FastestLock(lock_id, lock_val) = Fastest(Floors)
  <2>1. CASE lock_id = {}
    <3>1. Floors = {MinIdx}
      BY <2>1 DEF Floors, FreeRequestsReset
    <3>2. Fastest(Floors) = MinIdx
      BY <3>1, FloorsFacts
    <3>. QED
      BY <2>1, <3>2 DEF FastestLock
  <2>2. CASE lock_id # {}
    BY <2>2 DEF FastestLock, Floors
  <2>. QED
    BY <2>1, <2>2
<1>2. SlowestLimit(limit_id, limit_val) = Slowest(Ceilings)
  <2>1. CASE limit_id = {}
    <3>1. Ceilings = {MaxIdx}
      BY <2>1 DEF Ceilings, FreeRequestsReset
    <3>2. Slowest(Ceilings) = MaxIdx
      BY <3>1, CeilingsFacts
    <3>. QED
      BY <2>1, <3>2 DEF SlowestLimit
  <2>2. CASE limit_id # {}
    BY <2>2 DEF SlowestLimit, Ceilings
  <2>. QED
    BY <2>1, <2>2
<1>. QED
  BY <1>1, <1>2

LEMMA ExactInvInit == Init => ExactInv
<1>. SUFFICES ASSUME Init PROVE ExactInv
  OBVIOUS
<1>1. TypeInv /\ FreeRequestsReset
  BY TypeInvInit, RequestsInvInit DEF RequestsInv
<1>2. lock_id = {} /\ lock_level = MinIdx /\ limit_id = {}
      /\ limit_level = MaxIdx
  BY DEF Init
<1>3. LockExact /\ LimitExact
  BY <1>1, <1>2, RecomputedExact
     DEF LockExact, LimitExact, FastestLock, SlowestLimit
<1>. QED
  BY <1>3 DEF Init, ExactInv

(* A step that leaves the requests alone                                    *)
LEMMA ExactKept ==
  ASSUME ExactInv, UNCHANGED <<requests, set_cpu_freq_lock>>,
         \A u \in Threads : pc'[u] = "recompute" =>
           pc[u] = "recompute" /\ call'[u].op = call[u].op,
         \A u \in Threads : pc'[u] = "record" =>
           (pc[u] = "record" /\ call'[u] = call[u]) \/ AsksFresh(u)'
  PROVE  ExactInv'
<1>1. UNCHANGED <<lock_id, lock_val, lock_level, limit_id, limit_val,
                  limit_level>>
  BY DEF requests
<1>2. UNCHANGED <<LockExact, LimitExact>>
  BY <1>1 DEF LockExact, LimitExact, Floors, Ceilings
<1>. QED
  BY <1>1, <1>2 DEF ExactInv, AsksFresh

(* The steps that have nothing to do with the requests                      *)
LEMMA AwayFromRequests ==
  ASSUME TypeInv, NEW t \in Threads,
         \/ TargetCall(t) \/ FixCall(t) \/ Unfix(t)
         \/ TargetLock(t) \/ LockRaise(t) \/ LimitCap(t)
         \/ PostSuspendRestore(t)
         \/ TargetFloor(t) \/ TargetCap(t) \/ FixDisable(t) \/ LockCheck(t)
         \/ PreChange(t) \/ RaiseVolt(t) \/ SettleVolt(t) \/ SafeVolt(t)
         \/ ArmVolt(t) \/ Relock(t) \/ SetFreq(t) \/ PostChange(t)
         \/ SuspendDisable(t) \/ PostSuspendEnable(t)
  PROVE  /\ UNCHANGED <<requests, set_cpu_freq_lock>>
         /\ pc'[t] \notin {"record", "recompute"}
<1>1. \A op : /\ ReturnPc(op) \notin {"record", "recompute"}
              /\ ErrorPc(op) \notin {"record", "recompute"}
  BY DEF ReturnPc, ErrorPc
<1>2. CASE TargetCall(t) \/ FixCall(t) \/ Unfix(t)
  BY <1>2 DEF TargetCall, FixCall, Unfix, Goto, requests, TypeInv, TypeOK
<1>3. CASE TargetLock(t) \/ LockRaise(t) \/ LimitCap(t) \/ PostSuspendRestore(t)
  <2>1. UNCHANGED <<requests, set_cpu_freq_lock>>
    BY <1>3 DEF TargetLock, LockRaise, LimitCap, PostSuspendRestore
  <2>2. \E p : p \notin {"record", "recompute"} /\ Goto(t, p)
    <3>1. CASE TargetLock(t)
      BY <1>1, <3>1 DEF TargetLock, Return
    <3>2. CASE LockRaise(t)
      BY <1>1, <3>2 DEF LockRaise, BeginRequest, Return
    <3>3. CASE LimitCap(t)
      BY <1>1, <3>3 DEF LimitCap, BeginRequest, Return
    <3>4. CASE PostSuspendRestore(t)
      BY <3>4 DEF PostSuspendRestore
    <3>. QED
      BY <1>3, <3>1, <3>2, <3>3, <3>4
  <2>. QED
    BY <2>1, <2>2 DEF Goto, TypeInv, TypeOK
<1>4. CASE \/ TargetFloor(t) \/ TargetCap(t) \/ FixDisable(t) \/ LockCheck(t)
           \/ SuspendDisable(t) \/ PostSuspendEnable(t)
  BY <1>1, <1>4 DEF TargetFloor, TargetCap, FixDisable, LockCheck,
                    SuspendDisable, PostSuspendEnable, Return, Goto, requests,
                    TypeInv, TypeOK
<1>5. CASE \/ PreChange(t) \/ RaiseVolt(t) \/ SettleVolt(t) \/ SafeVolt(t)
           \/ ArmVolt(t) \/ Relock(t) \/ SetFreq(t) \/ PostChange(t)
  <2>1. /\ Proceed(t) /\ pc[t] = "run"
        /\ UNCHANGED <<requests, set_cpu_freq_lock>>
    BY <1>5 DEF PreChange, RaiseVolt, SettleVolt, SafeVolt, ArmVolt, Relock,
                SetFreq, PostChange, At, requests
  <2>. QED
    BY <1>1, <2>1 DEF Proceed, Return, Goto, TypeInv, TypeOK
<1>. QED
  BY <1>2, <1>3, <1>4, <1>5

(* Recording a request whose id held none: the new level is the stronger of *)
(* the old one and the request                                              *)
LEMMA RecordExact ==
  ASSUME OneCaller, TypeInv, TypeInv', RequestsInv, RequestsInv', ExactInv,
         NEW t \in Threads, LockRecord(t) \/ LimitRecord(t)
  PROVE  ExactInv'
<1>. DEFINE id == call[t].id
            level == call[t].level
<1>1. id \in Ids /\ level \in Levels /\ AsksFresh(t) /\ LockExact /\ LimitExact
      /\ set_cpu_freq_lock = NoThread
  BY DEF LockRecord, LimitRecord, ExactInv, TypeInv, TypeOK, Calls
<1>2. \A u \in Threads : u # t => pc'[u] = pc[u] /\ call'[u] = call[u]
  BY OthersKept DEF Acquire
<1>3. /\ Fastest(Floors) \in Levels /\ \A l \in Floors : Fastest(Floors) <= l
      /\ Slowest(Ceilings) \in Levels /\ \A l \in Ceilings : l <= Slowest(Ceilings)
  BY FloorsFacts, CeilingsFacts
<1>4. \A u \in Threads : pc'[u] # "recompute" /\ (pc'[u] = "record" => u # t)
  BY <1>1, ThreadsAssumption
     DEF LockRecord, LimitRecord, Goto, TypeInv, TypeOK, RequestsInv,
         RecomputeExclusive
<1>5. CASE LockRecord(t)
  <2>1. /\ lock_val' = [lock_val EXCEPT ![id] = level]
        /\ lock_level' = StrongerFloor(level) /\ lock_id' = lock_id \cup {id}
        /\ UNCHANGED <<limit_id, limit_val, limit_level>>
        /\ id \notin lock_id /\ call[t].op \in LockOps
    BY <1>1, <1>5 DEF LockRecord, AsksFresh, LockOps
  <2>2. lock_val[id] = MinIdx
    BY <1>1, <2>1 DEF RequestsInv, FreeRequestsReset
  <2>3. Floors' = Floors \cup {level}
    BY <1>1, <2>1, <2>2 DEF Floors, TypeInv, TypeOK
  <2>4. /\ Fastest(Floors)' \in Floors' /\ Floors' \in SUBSET Levels
        /\ \A l \in Floors' : Fastest(Floors)' <= l
    <3>1. Floors' \in SUBSET Levels /\ Floors' # {}
      BY <1>1, <2>3, FloorsFacts
    <3>. QED
      BY <3>1, FastestExists
  <2>5. lock_level' = Fastest(Floors)'
    BY <1>1, <1>3, <2>1, <2>3, <2>4, FloorsFacts
       DEF StrongerFloor, LockExact, Levels
  <2>6. LimitExact'
    BY <1>1, <2>1 DEF LimitExact, Ceilings
  <2>7. ASSUME NEW u \in Threads, pc'[u] = "record" PROVE AsksFresh(u)'
    <3>1. u # t /\ AsksFresh(u) /\ call'[u] = call[u]
      BY <1>2, <1>4, <2>7 DEF ExactInv
    <3>2. call[u].op \in LockOps => call[u].id # id
      BY <1>1, <2>1, <3>1, IdsAssumption, ThreadsAssumption
         DEF AsksFresh, OneCaller, LockOps
    <3>. QED
      BY <2>1, <3>1, <3>2 DEF AsksFresh
  <2>. QED
    BY <1>4, <2>5, <2>6, <2>7 DEF ExactInv, LockExact
<1>6. CASE LimitRecord(t)
  <2>1. /\ limit_val' = [limit_val EXCEPT ![id] = level]
        /\ limit_level' = IF level > limit_level THEN level ELSE limit_level
        /\ limit_id' = limit_id \cup {id}
        /\ UNCHANGED <<lock_id, lock_val, lock_level>>
        /\ id \notin limit_id /\ call[t].op = "limit"
    BY <1>1, <1>6 DEF LimitRecord, AsksFresh, LockOps
  <2>2. limit_val[id] = MaxIdx
    BY <1>1, <2>1 DEF RequestsInv, FreeRequestsReset
  <2>3. Ceilings' = Ceilings \cup {level}
    BY <1>1, <2>1, <2>2 DEF Ceilings, TypeInv, TypeOK
  <2>4. /\ Slowest(Ceilings)' \in Ceilings' /\ Ceilings' \in SUBSET Levels
        /\ \A l \in Ceilings' : l <= Slowest(Ceilings)'
    <3>1. Ceilings' \in SUBSET Levels /\ Ceilings' # {}
      BY <1>1, <2>3, CeilingsFacts
    <3>. QED
      BY <3>1, SlowestExists
  <2>5. limit_level' = Slowest(Ceilings)'
    BY <1>1, <1>3, <2>1, <2>3, <2>4, CeilingsFacts DEF LimitExact, Levels
  <2>6. LockExact'
    BY <1>1, <2>1 DEF LockExact, Floors
  <2>7. ASSUME NEW u \in Threads, pc'[u] = "record" PROVE AsksFresh(u)'
    <3>1. u # t /\ AsksFresh(u) /\ call'[u] = call[u]
      BY <1>2, <1>4, <2>7 DEF ExactInv
    <3>2. call[u].op = "limit" => call[u].id # id
      BY <1>1, <2>1, <3>1 DEF AsksFresh, OneCaller, LockOps
    <3>. QED
      BY <2>1, <3>1, <3>2 DEF AsksFresh
  <2>. QED
    BY <1>4, <2>5, <2>6, <2>7 DEF ExactInv, LimitExact
<1>. QED
  BY <1>5, <1>6

(* *_free: one level is given up to be recomputed, the other stays exact    *)
LEMMA FreeExact ==
  ASSUME TypeInv, RequestsInv, ExactInv, NEW t \in Threads,
         \/ \E op \in {"lock_free", "resume"}, id \in Ids :
              LockFreeReset(t, op, id)
         \/ LimitFreeReset(t)
  PROVE  ExactInv'
<1>1. /\ set_cpu_freq_lock = NoThread /\ set_cpu_freq_lock' = t
      /\ t # NoThread /\ LockExact /\ LimitExact
      /\ pc' = [pc EXCEPT ![t] = "recompute"]
  BY ThreadsAssumption DEF LockFreeReset, LimitFreeReset, Goto, ExactInv
<1>2. lock_id' \subseteq lock_id /\ limit_id' \subseteq limit_id
  BY DEF LockFreeReset, LimitFreeReset
<1>3. \A u \in Threads : u # t => call'[u] = call[u]
  BY DEF LockFreeReset, LimitFreeReset, TypeInv, TypeOK
<1>4. \A u \in Threads : pc'[u] = "recompute" => u = t
  BY <1>1, ThreadsAssumption DEF TypeInv, TypeOK, RequestsInv, RecomputeExclusive
<1>5. \A u \in Threads : pc'[u] = "record" => AsksFresh(u)'
  BY <1>1, <1>2, <1>3 DEF ExactInv, AsksFresh, TypeInv, TypeOK
<1>6. IF call'[t].op = "limit_free" THEN LockExact' ELSE LimitExact'
  <2>1. CASE \E op \in {"lock_free", "resume"}, id \in Ids :
               LockFreeReset(t, op, id)
    <3>1. UNCHANGED <<limit_val, limit_level>>
      BY <2>1 DEF LockFreeReset
    <3>2. PICK op \in {"lock_free", "resume"}, id \in Ids :
            call' = [call EXCEPT ![t] = [NoCall EXCEPT !.op = op, !.id = id]]
      BY <2>1 DEF LockFreeReset
    <3>3. call'[t].op # "limit_free"
      BY <3>2, NoCallType DEF NoCall, TypeInv, TypeOK
    <3>. QED
      BY <1>1, <3>1, <3>3 DEF LimitExact, Ceilings
  <2>2. CASE LimitFreeReset(t)
    <3>1. UNCHANGED <<lock_val, lock_level>>
      BY <2>2 DEF LimitFreeReset
    <3>2. PICK id \in LimitIds[t] :
            call' = [call EXCEPT ![t] =
                       [NoCall EXCEPT !.op = "limit_free", !.id = id]]
      BY <2>2 DEF LimitFreeReset
    <3>3. call'[t].op = "limit_free"
      BY <3>2, NoCallType DEF NoCall, TypeInv, TypeOK
    <3>. QED
      BY <1>1, <3>1, <3>3 DEF LockExact, Floors
  <2>. QED
    BY <2>1, <2>2
<1>. QED
  BY <1>1, <1>4, <1>5, <1>6 DEF ExactInv

LEMMA RecomputeExact ==
  ASSUME TypeInv, RequestsInv, ExactInv, NEW t \in Threads,
         \/ LockScan(t) \/ LimitScan(t) \/ LockRecompute(t) \/ LimitRecompute(t)
  PROVE  ExactInv'
<1>1. /\ pc[t] = "recompute" /\ set_cpu_freq_lock = t /\ t # NoThread
      /\ UNCHANGED <<lock_id, lock_val, limit_id, limit_val>>
  BY ThreadsAssumption
     DEF LockScan, LimitScan, LockRecompute, LimitRecompute, RequestsInv,
         RecomputeExclusive
<1>2. \A u \in Threads : pc[u] = "recompute" => u = t
  BY <1>1 DEF RequestsInv, RecomputeExclusive
<1>3. \A u \in Threads : u # t => pc'[u] = pc[u] /\ call'[u] = call[u]
  BY OthersKept DEF Continue
<1>4. pc'[t] # "record"
  BY <1>1 DEF LockScan, LimitScan, LockRecompute, LimitRecompute, Return, Goto,
              TypeInv, TypeOK
<1>5. \A u \in Threads : pc'[u] = "record" => AsksFresh(u)'
  BY <1>1, <1>3, <1>4 DEF ExactInv, AsksFresh
<1>6. UNCHANGED <<Floors, Ceilings>>
  BY <1>1 DEF Floors, Ceilings
<1>7. CASE LockScan(t) \/ LimitScan(t)
  <2>1. UNCHANGED <<pc, call, set_cpu_freq_lock>>
    BY <1>7 DEF LockScan, LimitScan
  <2>2. IF call[t].op = "limit_free" THEN UNCHANGED lock_level
        ELSE UNCHANGED limit_level
    BY <1>7 DEF LockScan, LimitScan
  <2>. QED
    BY <1>1, <1>2, <1>5, <1>6, <2>1, <2>2
       DEF ExactInv, LockExact, LimitExact
<1>8. CASE LockRecompute(t) \/ LimitRecompute(t)
  <2>1. \A u \in Threads : pc'[u] # "recompute"
    BY <1>1, <1>2, <1>3, <1>8
       DEF LockRecompute, LimitRecompute, Return, Goto, TypeInv, TypeOK
  <2>2. LockExact' /\ LimitExact'
    <3>1. IF call[t].op = "limit_free" THEN LockExact ELSE LimitExact
      BY <1>1 DEF ExactInv
    <3>2. CASE LockRecompute(t)
      BY <1>6, <3>1, <3>2, RecomputedExact
         DEF LockRecompute, LockExact, LimitExact, RequestsInv
    <3>3. CASE LimitRecompute(t)
      BY <1>6, <3>1, <3>3, RecomputedExact
         DEF LimitRecompute, LockExact, LimitExact, RequestsInv
    <3>. QED
      BY <1>8, <3>2, <3>3
  <2>. QED
    BY <1>5, <2>1, <2>2 DEF ExactInv
<1>. QED
  BY <1>7, <1>8

(* A request is asked for                                                   *)
LEMMA AskExact ==
  ASSUME TypeInv, ExactInv, NEW t \in Threads,
         ClientLock(t) \/ ClientLimit(t) \/ SuspendPrepare(t) \/ Reboot(t)
  PROVE  ExactInv'
<1>1. UNCHANGED <<requests, set_cpu_freq_lock>>
  BY DEF ClientLock, ClientLimit, SuspendPrepare, Reboot, LockCall, requests
<1>2. \A u \in Threads : u # t => pc'[u] = pc[u] /\ call'[u] = call[u]
  BY OthersKept DEF Start
<1>3. pc'[t] # "recompute"
  BY DEF ClientLock, ClientLimit, SuspendPrepare, Reboot, LockCall, Goto,
         TypeInv, TypeOK
<1>4. pc'[t] = "record" => AsksFresh(t)'
  <2>1. ASSUME NEW op \in LockOps, NEW id, NEW l, LockCall(t, op, id, l),
               \/ t \in Clients /\ id \in LockIds[t]
               \/ t \in PmThreads /\ id = PmId
        PROVE  AsksFresh(t)'
    <3>1. call'[t].op = op /\ call'[t].id = id /\ id \notin lock_id
          /\ lock_id' = lock_id
      BY <2>1 DEF LockCall, NoCall, requests, TypeInv, TypeOK
    <3>. QED
      BY <2>1, <3>1 DEF AsksFresh
  <2>2. CASE ClientLock(t)
    BY <2>1, <2>2 DEF ClientLock, LockOps
  <2>3. CASE SuspendPrepare(t)
    <3>1. CASE LockCall(t, "suspend", PmId, PmLockIdx)
      BY <2>1, <2>3, <3>1 DEF SuspendPrepare, LockOps
    <3>2. CASE Goto(t, "bad")
      BY <3>2 DEF Goto, TypeInv, TypeOK
    <3>. QED
      BY <2>3, <3>1, <3>2 DEF SuspendPrepare
  <2>4. CASE Reboot(t)
    BY <2>1, <2>4 DEF Reboot, LockOps
  <2>5. CASE ClientLimit(t)
    <3>1. PICK id \in LimitIds[t] \ limit_id, l \in ReqLevels :
            call' = [call EXCEPT ![t] =
                       [NoCall EXCEPT !.op = "limit", !.id = id, !.level = l]]
      BY <2>5 DEF ClientLimit
    <3>2. call'[t].op = "limit" /\ call'[t].id = id
      BY <3>1 DEF NoCall, TypeInv, TypeOK
    <3>3. t \in Clients /\ limit_id' = limit_id
      BY <2>5 DEF ClientLimit, requests
    <3>. QED
      BY <3>2, <3>3 DEF AsksFresh
  <2>. QED
    BY <2>2, <2>3, <2>4, <2>5
<1>. QED
  BY <1>1, <1>2, <1>3, <1>4, ExactKept

LEMMA ExactInvNext ==
  ASSUME OneCaller
  PROVE  TypeInv /\ TypeInv' /\ RequestsInv /\ RequestsInv' /\ ExactInv
           /\ [Next]_vars => ExactInv'
<1>. SUFFICES ASSUME TypeInv, TypeInv', RequestsInv, RequestsInv', ExactInv,
                     [Next]_vars
              PROVE  ExactInv'
  OBVIOUS
<1>1. CASE PolicyAdjust \/ PolicyBounds \/ UNCHANGED vars
  BY <1>1, ExactKept DEF PolicyAdjust, PolicyBounds, vars, requests
<1>2. ASSUME NEW t \in Threads, Start(t) \/ Acquire(t) \/ Continue(t)
      PROVE  ExactInv'
  <2>1. CASE \/ TargetCall(t) \/ FixCall(t) \/ Unfix(t)
             \/ TargetLock(t) \/ LockRaise(t) \/ LimitCap(t)
             \/ PostSuspendRestore(t)
             \/ TargetFloor(t) \/ TargetCap(t) \/ FixDisable(t) \/ LockCheck(t)
             \/ PreChange(t) \/ RaiseVolt(t) \/ SettleVolt(t) \/ SafeVolt(t)
             \/ ArmVolt(t) \/ Relock(t) \/ SetFreq(t) \/ PostChange(t)
             \/ SuspendDisable(t) \/ PostSuspendEnable(t)
    BY <1>2, <2>1, AwayFromRequests, OthersKept, ExactKept
  <2>2. CASE ClientLock(t) \/ ClientLimit(t) \/ SuspendPrepare(t) \/ Reboot(t)
    BY <2>2, AskExact
  <2>3. CASE \/ ClientLockFree(t) \/ LimitFreeReset(t)
             \/ PostSuspend(t, "suspended") \/ PostSuspend(t, "bad")
    BY <2>3, FreeExact, IdsAssumption DEF ClientLockFree, PostSuspend
  <2>4. CASE LockRecord(t) \/ LimitRecord(t)
    BY <2>4, RecordExact
  <2>5. CASE \/ LockScan(t) \/ LimitScan(t) \/ LockRecompute(t)
             \/ LimitRecompute(t)
    BY <2>5, RecomputeExact
  <2>. QED
    BY <1>2, <2>1, <2>2, <2>3, <2>4, <2>5 DEF Start, Acquire, Continue
<1>. QED
  BY <1>1, <1>2 DEF Next

(* When each id has one caller, as enum cpufreq_lock_ID intends, the levels *)
(* in force are exactly the fastest recorded floor and the slowest recorded *)
(* ceiling: what the incremental updates of exynos_cpufreq_lock and         *)
(* _upper_limit yield is what the loops of *_free compute.                  *)
THEOREM RequestsStayExact ==
  ASSUME OneCaller
  PROVE  Spec => []RequestsExact
<1>1. Spec => []TypeInv
  BY TypeInvInit, TypeInvNext, PTL DEF Spec
<1>2. Spec => []RequestsInv
  BY <1>1, RequestsInvInit, RequestsInvNext, PTL DEF Spec
<1>3. Spec => []ExactInv
  BY <1>1, <1>2, ExactInvInit, ExactInvNext, PTL DEF Spec
<1>4. TypeInv /\ RequestsInv /\ ExactInv => RequestsExact
  BY RecomputedExact
     DEF RequestsInv, ExactInv, LockExact, LimitExact, RequestsExact
<1>. QED
  BY <1>1, <1>2, <1>3, <1>4, PTL

-----------------------------------------------------------------------------
(* The clock: between transitions the core and the hardware agree on the    *)
(* frequency, the voltage carries it, it obeys the ceilings, and the        *)
(* machine sleeps at the PM floor.                                          *)

(* Where the clock and policy->cur change in the stages of an operation    *)
SetAt(op) ==
  CASE op \in {"target", "fix"}         -> 4
    [] op \in LockOps \cup {"resume"}   -> 5
    [] OTHER                            -> 3

PostAt(op) ==
  CASE op \in {"target", "fix"} -> 5
    [] OTHER                    -> 6

InMutex == {"floor", "cap", "run"}
LookUpPcs == {"want_freq", "floor", "cap"}

(* A transition in progress: what holds before, at and after the stages     *)
(* that move the clock and policy->cur                                      *)
InTransition(t) ==
  LET s == call[t].stage
      S == SetAt(call[t].op)
      P == PostAt(call[t].op)
  IN  /\ freqs.new = Freq[call[t].new]
      /\ 1 < s /\ s <= S => freqs.old = policy.cur
      /\ s < S => clk = policy.cur
      /\ s = S /\ ~ClockMoves(t) => clk = policy.cur
      /\ S < s => clk = freqs.new
      /\ P < s => policy.cur = clk
      /\ s < S /\ call[t].op \in LockOps \cup {"limit"}
           => Freq[call[t].old] = policy.cur

ClockInv ==
  /\ lock_disable = FALSE
  /\ \A t \in Threads : pc[t] \in InMutex <=> set_freq_lock = t
  /\ \A t \in Threads : pc[t] # "run" => call[t].stage = 1
  /\ \A t \in Threads : pc[t] \in LookUpPcs => call[t].op \in {"target", "fix"}
  /\ (\A t \in Threads : pc[t] # "run") => policy.cur = clk
  /\ \A t \in Threads : pc[t] = "run" => InTransition(t)

-----------------------------------------------------------------------------
(* The stages, by number                                                   *)

LEMMA StageNumbers ==
  ASSUME NEW t \in Threads, call[t] \in Calls
  PROVE  LET s == call[t].stage
             S == SetAt(call[t].op)
             P == PostAt(call[t].op)
         IN  /\ S \in 3 .. 5 /\ P \in 5 .. 6 /\ S < P
             /\ At(t, "pre")    => s = 1
             /\ At(t, "relock") => s = S - 1
             /\ At(t, "set")    => s = S
             /\ At(t, "post")   => s = P
             /\ At(t, "raise") \/ At(t, "settle") \/ At(t, "safe") \/ At(t, "arm")
                  => s \in 2 .. 6 /\ s # S - 1 /\ s # S /\ s # P
<1>1. call[t].stage \in 1 .. 6
  BY DEF Calls, LastStage
<1>2. CASE call[t].op \in {"target", "fix"}
  <2>1. SetAt(call[t].op) = 4 /\ PostAt(call[t].op) = 5
        /\ Stages(call[t].op)
             = <<"pre", "raise", "relock", "set", "post", "settle">>
    BY <1>2 DEF SetAt, PostAt, Stages, LockOps
  <2>. QED
    BY <1>1, <2>1 DEF At
<1>3. CASE call[t].op \in LockOps \cup {"resume"}
  <2>1. SetAt(call[t].op) = 5 /\ PostAt(call[t].op) = 6
        /\ Stages(call[t].op)
             = <<"pre", "safe", "arm", "relock", "set", "post">>
    BY <1>3 DEF SetAt, PostAt, Stages, LockOps
  <2>. QED
    BY <1>1, <2>1 DEF At
<1>4. CASE call[t].op \notin {"target", "fix"} \cup LockOps \cup {"resume"}
  <2>1. SetAt(call[t].op) = 3 /\ PostAt(call[t].op) = 6
        /\ Stages(call[t].op)
             = <<"pre", "relock", "set", "safe", "arm", "post">>
    BY <1>4 DEF SetAt, PostAt, Stages
  <2>. QED
    BY <1>1, <2>1 DEF At
<1>. QED
  BY <1>2, <1>3, <1>4

(* Where an operation returns to is outside set_freq_lock                   *)
LEMMA ReturnOutsideMutex ==
  ASSUME NEW op
  PROVE  /\ ReturnPc(op) \notin InMutex \cup LookUpPcs
         /\ ErrorPc(op) \notin InMutex \cup LookUpPcs
  BY DEF ReturnPc, ErrorPc, InMutex, LookUpPcs

-----------------------------------------------------------------------------
(* A step outside set_freq_lock: it moves neither the clock nor policy->cur *)

LEMMA OutsideKeepsClock ==
  ASSUME TypeInv, ClockInv, NEW t \in Threads,
         pc[t] \notin InMutex, pc'[t] \notin InMutex, call'[t].stage = 1,
         \A u \in Threads : u # t => pc'[u] = pc[u] /\ call'[u] = call[u],
         pc'[t] = "want_freq" => call'[t].op \in {"target", "fix"},
         policy'.cur = policy.cur,
         UNCHANGED <<clk, freqs, set_freq_lock, lock_disable>>
  PROVE  ClockInv'
<1>1. \A u \in Threads : pc[u] = "run" => u # t
  BY DEF InMutex
<1>2. \A u \in Threads : pc'[u] = "run" => u # t
  BY DEF InMutex
<1>3. \A u \in Threads : u # t /\ InTransition(u) => InTransition(u)'
  BY DEF InTransition, ClockMoves
<1>. QED
  BY <1>1, <1>2, <1>3 DEF ClockInv, InMutex, LookUpPcs

(* A new call starts at its first stage                                     *)
LEMMA FreshCallStage ==
  ASSUME TypeInv, NEW t \in Threads,
         \/ \E op, id :
              call' = [call EXCEPT ![t] = [NoCall EXCEPT !.op = op, !.id = id]]
         \/ \E op, id, level : call' = [call EXCEPT ![t] =
              [NoCall EXCEPT !.op = op, !.id = id, !.level = level]]
         \/ \E op, f, r : call' = [call EXCEPT ![t] =
              [NoCall EXCEPT !.op = op, !.target = f, !.rel = r]]
  PROVE  call'[t].stage = 1
<1>1. \E c : c.stage = 1 /\ call' = [call EXCEPT ![t] = c]
  <2>1. ASSUME NEW op, NEW id,
               call' = [call EXCEPT ![t] = [NoCall EXCEPT !.op = op, !.id = id]]
        PROVE  \E c : c.stage = 1 /\ call' = [call EXCEPT ![t] = c]
    <3>. DEFINE d == [NoCall EXCEPT !.op = op, !.id = id]
    <3>1. d.stage = 1 /\ call' = [call EXCEPT ![t] = d]
      BY <2>1 DEF NoCall
    <3>. HIDE DEF d
    <3>. QED
      BY <3>1
  <2>2. ASSUME NEW op, NEW id, NEW level, call' = [call EXCEPT ![t] =
                 [NoCall EXCEPT !.op = op, !.id = id, !.level = level]]
        PROVE  \E c : c.stage = 1 /\ call' = [call EXCEPT ![t] = c]
    <3>. DEFINE d == [NoCall EXCEPT !.op = op, !.id = id, !.level = level]
    <3>1. d.stage = 1 /\ call' = [call EXCEPT ![t] = d]
      BY <2>2 DEF NoCall
    <3>. HIDE DEF d
    <3>. QED
      BY <3>1
  <2>3. ASSUME NEW op, NEW f, NEW r, call' = [call EXCEPT ![t] =
                 [NoCall EXCEPT !.op = op, !.target = f, !.rel = r]]
        PROVE  \E c : c.stage = 1 /\ call' = [call EXCEPT ![t] = c]
    <3>. DEFINE d == [NoCall EXCEPT !.op = op, !.target = f, !.rel = r]
    <3>1. d.stage = 1 /\ call' = [call EXCEPT ![t] = d]
      BY <2>3 DEF NoCall
    <3>. HIDE DEF d
    <3>. QED
      BY <3>1
  <2>. QED
    BY <2>1, <2>2, <2>3
<1>. QED
  BY <1>1 DEF TypeInv, TypeOK

(* The steps of Next other than the stages of a transition, exynos_target's *)
(* look-ups and the beginning of a transition: they are all outside         *)
(* set_freq_lock                                                            *)
OtherStep(t) ==
  \/ Start(t)
  \/ LockRecord(t) \/ LimitRecord(t) \/ PostSuspend(t, "bad")
  \/ PostSuspendRestore(t)
  \/ FixDisable(t) \/ LockCheck(t) \/ LockScan(t) \/ LockRecompute(t)
  \/ LimitScan(t) \/ LimitRecompute(t)
  \/ SuspendDisable(t) \/ PostSuspendEnable(t)

LEMMA OtherStepsFacts ==
  ASSUME TypeInv, ClockInv, NEW t \in Threads, OtherStep(t)
  PROVE  /\ UNCHANGED <<clk, volt, policy, freqs, set_freq_lock, lock_disable,
                        mover>>
         /\ pc[t] \notin InMutex \cup {"want_cap"} /\ pc'[t] \notin InMutex
         /\ call'[t].stage = 1
         /\ \A u \in Threads : u # t => pc'[u] = pc[u] /\ call'[u] = call[u]
         /\ pc'[t] = "want_freq" => call'[t].op \in {"target", "fix"}
<1>. USE DEF OtherStep
<1>1. NoCall.stage = 1 /\ lock_disable = FALSE
  BY DEF NoCall, ClockInv
<1>2. call[t].stage = 1 \/ pc[t] = "run"
  BY DEF ClockInv
<1>3. UNCHANGED <<clk, volt, policy, freqs, set_freq_lock, lock_disable, mover>>
  BY <1>1 DEF Start, TargetCall, FixCall, Unfix, ClientLock, ClientLockFree,
     ClientLimit, LimitFreeReset, SuspendPrepare, PostSuspend, Reboot, LockCall,
     LockFreeReset, LockRecord, LimitRecord, PostSuspendRestore, FixDisable,
     LockCheck, LockScan, LockRecompute, LimitScan, LimitRecompute,
     SuspendDisable, PostSuspendEnable, hardware
<1>4. pc[t] \notin InMutex /\ pc'[t] \notin InMutex /\ call'[t].stage = 1
  <2>0. CASE \/ ClientLockFree(t) \/ LimitFreeReset(t)
             \/ PostSuspend(t, "suspended") \/ PostSuspend(t, "bad")
    <3>1. \E op, id :
            call' = [call EXCEPT ![t] = [NoCall EXCEPT !.op = op, !.id = id]]
      BY <2>0 DEF ClientLockFree, LimitFreeReset, PostSuspend, LockFreeReset
    <3>2. pc' = [pc EXCEPT ![t] = "recompute"]
          /\ pc[t] \in {"idle", "suspended", "bad"}
      BY <2>0 DEF ClientLockFree, LimitFreeReset, PostSuspend, LockFreeReset,
                  Goto
    <3>. QED
      BY <3>1, <3>2, FreshCallStage DEF InMutex, TypeInv, TypeOK
  <2>1. CASE Start(t)
    <3>1. CASE TargetCall(t) \/ FixCall(t)
      <4>1. \E op, f, r : call' = [call EXCEPT ![t] =
              [NoCall EXCEPT !.op = op, !.target = f, !.rel = r]]
        BY <3>1 DEF TargetCall, FixCall
      <4>2. pc[t] = "idle" /\ Goto(t, "want_freq")
        BY <3>1 DEF TargetCall, FixCall
      <4>. QED
        BY <4>1, <4>2, FreshCallStage DEF Goto, InMutex, TypeInv, TypeOK
    <3>2. CASE ClientLock(t) \/ Reboot(t) \/ SuspendPrepare(t) \/ ClientLimit(t)
      <4>1. \/ UNCHANGED call
            \/ \E op, id, level : call' = [call EXCEPT ![t] =
                  [NoCall EXCEPT !.op = op, !.id = id, !.level = level]]
        BY <3>2 DEF ClientLock, Reboot, SuspendPrepare, ClientLimit, LockCall
      <4>2. pc[t] = "idle" /\ (Goto(t, "record") \/ Goto(t, "bad"))
        BY <3>2 DEF ClientLock, Reboot, SuspendPrepare, ClientLimit, LockCall
      <4>. QED
        BY <1>2, <4>1, <4>2, FreshCallStage DEF Goto, InMutex, TypeInv, TypeOK
    <3>3. CASE Unfix(t)
      BY <1>2, <3>3 DEF Unfix, InMutex
    <3>. QED
      BY <2>1, <2>0, <3>1, <3>2, <3>3 DEF Start
  <2>2. CASE LockRecord(t) \/ LimitRecord(t) \/ PostSuspendRestore(t)
    BY <1>1, <1>2, <2>2
       DEF LockRecord, LimitRecord, PostSuspendRestore, Goto, InMutex, TypeInv,
           TypeOK
  <2>3. CASE \/ FixDisable(t) \/ LockScan(t) \/ LimitScan(t)
             \/ SuspendDisable(t) \/ PostSuspendEnable(t)
    BY <1>2, <2>3 DEF FixDisable, LockScan, LimitScan, SuspendDisable,
                      PostSuspendEnable, Goto, InMutex, TypeInv, TypeOK
  <2>4. CASE LockCheck(t) \/ LockRecompute(t) \/ LimitRecompute(t)
    BY <1>1, <1>2, <2>4, ReturnOutsideMutex
       DEF LockCheck, LockRecompute, LimitRecompute, Return, Goto, InMutex,
           TypeInv, TypeOK
  <2>. QED
    BY <2>0, <2>1, <2>2, <2>3, <2>4
<1>5. \A u \in Threads : u # t => pc'[u] = pc[u] /\ call'[u] = call[u]
  BY OthersKept DEF Acquire, Continue
<1>6. pc'[t] = "want_freq" => call'[t].op \in {"target", "fix"}
  <2>1. CASE TargetCall(t) \/ FixCall(t)
    <3>1. \E op \in {"target", "fix"} : \E f, r : call' = [call EXCEPT ![t] =
            [NoCall EXCEPT !.op = op, !.target = f, !.rel = r]]
      BY <2>1 DEF TargetCall, FixCall
    <3>. QED
      BY <3>1 DEF NoCall, TypeInv, TypeOK
  <2>2. CASE \E p : p # "want_freq" /\ Goto(t, p)
    BY <2>2 DEF Goto, TypeInv, TypeOK
  <2>3. CASE UNCHANGED <<pc, call>>
    BY <2>3 DEF ClockInv, LookUpPcs
  <2>4. CASE ClientLockFree(t) \/ LimitFreeReset(t)
             \/ PostSuspend(t, "suspended") \/ PostSuspend(t, "bad")
    <3>1. Goto(t, "recompute")
      BY <2>4 DEF ClientLockFree, LimitFreeReset, PostSuspend, LockFreeReset
    <3>. QED
      BY <2>2, <3>1
  <2>5. CASE \/ Unfix(t) \/ ClientLock(t) \/ ClientLimit(t)
             \/ SuspendPrepare(t) \/ Reboot(t)
    <3>1. UNCHANGED <<pc, call>> \/ Goto(t, "record") \/ Goto(t, "bad")
      BY <2>5 DEF Unfix, ClientLock, ClientLimit, SuspendPrepare, Reboot, LockCall
    <3>. QED
      BY <2>2, <2>3, <3>1
  <2>6. CASE LockCheck(t) \/ LockRecompute(t) \/ LimitRecompute(t)
    <3>1. \/ Goto(t, "want_raise") \/ Goto(t, ReturnPc(call[t].op))
          \/ Goto(t, "thaw") \/ Goto(t, "idle")
      BY <2>6 DEF LockCheck, LockRecompute, LimitRecompute, Return
    <3>2. ReturnPc(call[t].op) # "want_freq"
      BY ReturnOutsideMutex DEF LookUpPcs
    <3>. QED
      BY <2>2, <3>1, <3>2
  <2>7. CASE \/ LockRecord(t) \/ LimitRecord(t) \/ PostSuspendRestore(t)
             \/ FixDisable(t) \/ SuspendDisable(t) \/ PostSuspendEnable(t)
    <3>1. \/ Goto(t, "recorded") \/ Goto(t, "want_cap") \/ Goto(t, "run")
          \/ Goto(t, "enable") \/ Goto(t, "idle") \/ Goto(t, "suspended")
      BY <2>7 DEF LockRecord, LimitRecord, PostSuspendRestore, FixDisable,
                  SuspendDisable, PostSuspendEnable
    <3>. QED
      BY <2>2, <3>1
  <2>8. CASE LockScan(t) \/ LimitScan(t)
    BY <2>3, <2>8 DEF LockScan, LimitScan
  <2>. QED
    BY <2>1, <2>4, <2>5, <2>6, <2>7, <2>8 DEF Start
<1>7. pc[t] # "want_cap"
  <2>1. Start(t) => pc[t] # "want_cap"
    BY StepFrom
  <2>. QED
    BY <2>1 DEF LockRecord, LimitRecord, PostSuspend, PostSuspendRestore,
       FixDisable, LockCheck, LockScan, LockRecompute, LimitScan,
       LimitRecompute, SuspendDisable, PostSuspendEnable
<1>. QED
  BY <1>3, <1>4, <1>5, <1>6, <1>7

LEMMA OtherSteps ==
  ASSUME TypeInv, ClockInv, NEW t \in Threads, OtherStep(t)
  PROVE  ClockInv'
<1>1. policy'.cur = policy.cur /\ UNCHANGED <<clk, freqs, set_freq_lock,
                                             lock_disable>>
  BY OtherStepsFacts
<1>. QED
  BY <1>1, OtherStepsFacts, OutsideKeepsClock

-----------------------------------------------------------------------------
(* exynos_target takes set_freq_lock and looks up the new level             *)

LEMMA TargetSteps ==
  ASSUME TypeInv, ClockInv, NEW t \in Threads,
         TargetLock(t) \/ TargetFloor(t) \/ TargetCap(t)
  PROVE  ClockInv'
<1>1. pc[t] # "run" /\ call[t].stage = 1 /\ call[t] \in Calls
      /\ call[t].op \in {"target", "fix"}
  BY DEF TargetLock, TargetFloor, TargetCap, ClockInv, LookUpPcs, TypeInv, TypeOK
<1>2. \A u \in Threads : u # t => pc'[u] = pc[u] /\ call'[u] = call[u]
  BY DEF TargetLock, TargetFloor, TargetCap, Return, Goto, TypeInv, TypeOK
<1>3. UNCHANGED <<clk, policy, lock_disable>>
  BY DEF TargetLock, TargetFloor, TargetCap, hardware
<1>4. CASE TargetLock(t) /\ disable
  <2>1. UNCHANGED <<set_freq_lock, freqs>> /\ Return(t, ReturnPc(call[t].op))
    BY <1>4 DEF TargetLock
  <2>2. pc[t] = "want_freq"
    BY <1>4 DEF TargetLock
  <2>3. pc'[t] \notin InMutex \cup LookUpPcs /\ call'[t].stage = 1
    BY <2>1, ReturnOutsideMutex DEF Return, Goto, NoCall, TypeInv, TypeOK
  <2>. QED
    BY <1>2, <1>3, <2>1, <2>2, <2>3, OutsideKeepsClock DEF InMutex, LookUpPcs
<1>5. CASE ~(TargetLock(t) /\ disable)
  <2>1. set_freq_lock' = t
    BY <1>5 DEF TargetLock, TargetFloor, TargetCap, ClockInv, InMutex
  <2>2. \A u \in Threads : u # t => pc[u] \notin InMutex
    BY <1>5, ThreadsAssumption
       DEF TargetLock, TargetFloor, TargetCap, FreqMutexFree, ClockInv, InMutex
  <2>3. policy.cur = clk
    BY <1>1, <2>2 DEF ClockInv, InMutex
  <2>4. pc'[t] \in InMutex /\ call'[t].op = call[t].op /\ call'[t].stage = 1
    BY <1>1, <1>5 DEF TargetLock, TargetFloor, TargetCap, Goto, InMutex, Calls,
                      TypeInv, TypeOK
  <2>5. pc'[t] = "run" => InTransition(t)'
    <3>1. CASE TargetCap(t)
      <4>1. freqs'.new = Freq[call'[t].new]
        BY <1>1, <3>1 DEF TargetCap, CappedFreq, Calls, TypeInv, TypeOK
      <4>2. SetAt(call'[t].op) = 4 /\ PostAt(call'[t].op) = 5
        BY <1>1, <2>4 DEF SetAt, PostAt, LockOps
      <4>3. call'[t].op \notin LockOps \cup {"limit"}
        BY <1>1, <2>4 DEF LockOps
      <4>. QED
        BY <1>3, <2>3, <2>4, <4>1, <4>2, <4>3 DEF InTransition
    <3>2. CASE ~TargetCap(t)
      BY <1>5, <3>2 DEF TargetLock, TargetFloor, Goto, TypeInv, TypeOK
    <3>. QED
      BY <3>1, <3>2
  <2>. QED
    BY <1>1, <1>2, <1>3, <2>1, <2>2, <2>3, <2>4, <2>5
       DEF ClockInv, InMutex, LookUpPcs
<1>. QED
  BY <1>4, <1>5

(* A request takes set_freq_lock and begins its transition, or returns      *)
LEMMA RequestSteps ==
  ASSUME TypeInv, ClockInv, NEW t \in Threads, LockRaise(t) \/ LimitCap(t)
  PROVE  ClockInv'
<1>1. pc[t] \in {"want_raise", "want_cap"} /\ call[t].stage = 1
      /\ call[t] \in Calls /\ set_freq_lock = NoThread
  BY DEF LockRaise, LimitCap, FreqMutexFree, ClockInv, TypeInv, TypeOK
<1>2. \A u \in Threads : pc[u] \notin InMutex
  BY <1>1, ThreadsAssumption DEF ClockInv
<1>3. policy.cur = clk
  BY <1>2 DEF ClockInv, InMutex
<1>4. UNCHANGED <<clk, policy, lock_disable>>
  BY DEF LockRaise, LimitCap, hardware
<1>5. ASSUME NEW p, p \notin InMutex \cup LookUpPcs, Return(t, p),
             UNCHANGED <<set_freq_lock, freqs>>
      PROVE  ClockInv'
  <2>1. pc'[t] = p /\ call'[t].stage = 1
    BY <1>5 DEF Return, Goto, NoCall, TypeInv, TypeOK
  <2>2. \A u \in Threads : u # t => pc'[u] = pc[u] /\ call'[u] = call[u]
    BY <1>5 DEF Return, Goto, TypeInv, TypeOK
  <2>. QED
    BY <1>1, <1>2, <1>4, <1>5, <2>1, <2>2, OutsideKeepsClock DEF LookUpPcs
<1>6. ASSUME NEW old \in LevelsOfFreq(policy.cur),
             set_freq_lock' = t,
             freqs' = [old |-> policy.cur, new |-> Freq[call[t].level]],
             call' = [call EXCEPT ![t].old = old, ![t].new = call[t].level],
             Goto(t, "run")
      PROVE  ClockInv'
  <2>1. pc'[t] = "run" /\ call'[t].stage = 1 /\ call'[t].op = call[t].op
        /\ call'[t].old = old /\ call'[t].new = call[t].level
    BY <1>1, <1>6 DEF Goto, Calls, TypeInv, TypeOK
  <2>2. \A u \in Threads : u # t => pc'[u] = pc[u] /\ call'[u] = call[u]
    BY <1>6 DEF Goto, TypeInv, TypeOK
  <2>3. Freq[call'[t].old] = policy.cur
    BY <2>1 DEF LevelsOfFreq
  <2>4. SetAt(call[t].op) \in 3 .. 5 /\ PostAt(call[t].op) \in 5 .. 6
    BY <1>1, StageNumbers
  <2>5. InTransition(t)'
    BY <1>3, <1>4, <1>6, <2>1, <2>3, <2>4 DEF InTransition
  <2>6. \A u \in Threads : u # t => pc'[u] \notin InMutex
    BY <1>2, <2>2
  <2>7. lock_disable' = FALSE /\ (\A u \in Threads : pc'[u] \in InMutex <=> u = t)
    BY <1>4, <2>1, <2>6 DEF ClockInv, InMutex
  <2>8. \A u \in Threads :
          pc'[u] \in LookUpPcs => call'[u].op \in {"target", "fix"}
    BY <2>1, <2>2 DEF ClockInv, LookUpPcs
  <2>9. \A u \in Threads : pc'[u] # "run" => call'[u].stage = 1
    BY <2>1, <2>2 DEF ClockInv
  <2>10. \A u \in Threads : pc'[u] = "run" => InTransition(u)'
    BY <2>5, <2>6 DEF InMutex
  <2>. QED
    BY <1>6, <2>1, <2>7, <2>8, <2>9, <2>10 DEF ClockInv
<1>7. ReturnPc(call[t].op) \notin InMutex \cup LookUpPcs
      /\ ErrorPc(call[t].op) \notin InMutex \cup LookUpPcs
  BY ReturnOutsideMutex
<1>8. CASE BeginRequest(t)
  BY <1>5, <1>6, <1>7, <1>8 DEF BeginRequest
<1>9. CASE Return(t, ReturnPc(call[t].op)) /\ UNCHANGED <<set_freq_lock, freqs>>
  BY <1>5, <1>7, <1>9
<1>. QED
  BY <1>8, <1>9 DEF LockRaise, LimitCap

-----------------------------------------------------------------------------
(* The stages of a transition                                              *)

(* A stage ends: either the next one begins or set_freq_lock is released    *)
LEMMA StageEnd ==
  ASSUME TypeInv, ClockInv, NEW t \in Threads, pc[t] = "run", Proceed(t),
         UNCHANGED lock_disable,
         call[t].stage < 6 /\ call' = [call EXCEPT ![t].stage = @ + 1]
           => InTransition(t)',
         call[t].stage = 6 => policy'.cur = clk'
  PROVE  ClockInv'
<1>1. call[t] \in Calls /\ set_freq_lock = t /\ t # NoThread
  BY ThreadsAssumption DEF ClockInv, InMutex, TypeInv, TypeOK
<1>2. \A u \in Threads : u # t => pc[u] \notin InMutex
  BY <1>1 DEF ClockInv
<1>3. \A u \in Threads : u # t => pc'[u] = pc[u] /\ call'[u] = call[u]
  BY DEF Proceed, Return, Goto, TypeInv, TypeOK
<1>4. CASE call[t].stage = LastStage
  <2>1. set_freq_lock' = NoThread /\ pc'[t] = ReturnPc(call[t].op)
        /\ call'[t].stage = 1
    BY <1>4 DEF Proceed, Return, Goto, NoCall, TypeInv, TypeOK
  <2>2. pc'[t] \notin InMutex \cup LookUpPcs
    BY <2>1, ReturnOutsideMutex
  <2>3. \A u \in Threads : pc'[u] \notin InMutex
    BY <1>2, <1>3, <2>2
  <2>4. policy'.cur = clk'
    BY <1>4 DEF LastStage
  <2>. QED
    BY <1>1, <1>3, <2>1, <2>2, <2>3, <2>4, ThreadsAssumption
       DEF ClockInv, InMutex, LookUpPcs
<1>5. CASE call[t].stage # LastStage
  <2>1. call' = [call EXCEPT ![t].stage = @ + 1] /\ UNCHANGED <<pc, set_freq_lock>>
    BY <1>5 DEF Proceed
  <2>2. call[t].stage < 6
    BY <1>1, <1>5 DEF Calls, LastStage
  <2>3. InTransition(t)'
    BY <2>1, <2>2
  <2>. QED
    BY <1>1, <1>2, <1>3, <2>1, <2>3 DEF ClockInv, InMutex, LookUpPcs
<1>. QED
  BY <1>4, <1>5

LEMMA StageSteps ==
  ASSUME TypeInv, ClockInv, NEW t \in Threads,
         \/ PreChange(t) \/ RaiseVolt(t) \/ SettleVolt(t) \/ SafeVolt(t)
         \/ ArmVolt(t) \/ Relock(t) \/ SetFreq(t) \/ PostChange(t)
  PROVE  ClockInv'
<1>. DEFINE s == call[t].stage
            S == SetAt(call[t].op)
            P == PostAt(call[t].op)
<1>1. /\ pc[t] = "run" /\ Proceed(t) /\ UNCHANGED lock_disable
      /\ InTransition(t) /\ call[t] \in Calls
  BY DEF PreChange, RaiseVolt, SettleVolt, SafeVolt, ArmVolt, Relock, SetFreq,
         PostChange, At, ClockInv, TypeInv, TypeOK
<1>2. s \in 1 .. 6 /\ S \in 3 .. 5 /\ P \in 5 .. 6 /\ S < P
  BY <1>1, StageNumbers DEF Calls, LastStage
<1>3. /\ freqs.new = Freq[call[t].new]
      /\ 1 < s /\ s <= S => freqs.old = policy.cur
      /\ s < S => clk = policy.cur
      /\ s = S /\ ~ClockMoves(t) => clk = policy.cur
      /\ S < s => clk = freqs.new
      /\ P < s => policy.cur = clk
      /\ s < S /\ call[t].op \in LockOps \cup {"limit"}
           => Freq[call[t].old] = policy.cur
  BY <1>1 DEF InTransition
<1>4. ASSUME call' = [call EXCEPT ![t].stage = @ + 1]
      PROVE  call'[t].stage = s + 1 /\ call'[t].op = call[t].op
             /\ call'[t].new = call[t].new /\ call'[t].old = call[t].old
  BY <1>1, <1>4 DEF Calls, TypeInv, TypeOK
<1>5. CASE PreChange(t)
  <2>1. s = 1 /\ freqs' = [freqs EXCEPT !.old = policy.cur]
        /\ UNCHANGED <<policy, clk>>
    BY <1>1, <1>5, StageNumbers DEF PreChange, hardware
  <2>2. freqs'.old = policy.cur /\ freqs'.new = freqs.new
    BY <2>1 DEF TypeInv, TypeOK
  <2>3. ASSUME call' = [call EXCEPT ![t].stage = @ + 1] PROVE InTransition(t)'
    BY <1>2, <1>3, <1>4, <2>1, <2>2, <2>3 DEF InTransition
  <2>. QED
    BY <1>1, <2>1, <2>3, StageEnd
<1>6. CASE RaiseVolt(t) \/ SettleVolt(t) \/ SafeVolt(t) \/ ArmVolt(t)
  <2>1. UNCHANGED <<freqs, policy, clk>>
    BY <1>6 DEF RaiseVolt, SettleVolt, SafeVolt, ArmVolt
  <2>2. s \in 2 .. 6 /\ s # S - 1 /\ s # S /\ s # P
    BY <1>1, <1>6, StageNumbers DEF RaiseVolt, SettleVolt, SafeVolt, ArmVolt
  <2>3. ASSUME call' = [call EXCEPT ![t].stage = @ + 1] PROVE InTransition(t)'
    BY <1>2, <1>3, <1>4, <2>1, <2>2, <2>3 DEF InTransition
  <2>4. s = 6 => policy'.cur = clk'
    BY <1>2, <1>3, <2>1, <2>2
  <2>. QED
    BY <1>1, <2>3, <2>4, StageEnd
<1>7. CASE Relock(t)
  <2>1. UNCHANGED <<freqs, policy>> /\ (~ClockMoves(t) => clk' = clk)
    BY <1>7 DEF Relock
  <2>2. s = S - 1
    BY <1>1, <1>7, StageNumbers DEF Relock
  <2>3. ASSUME call' = [call EXCEPT ![t].stage = @ + 1] PROVE InTransition(t)'
    BY <1>2, <1>3, <1>4, <2>1, <2>2, <2>3 DEF InTransition, ClockMoves
  <2>. QED
    BY <1>1, <1>2, <2>2, <2>3, StageEnd
<1>8. CASE SetFreq(t)
  <2>1. UNCHANGED <<freqs, policy>>
        /\ clk' = IF ClockMoves(t) THEN Freq[call[t].new] ELSE clk
    BY <1>8 DEF SetFreq
  <2>2. s = S
    BY <1>1, <1>8, StageNumbers DEF SetFreq
  <2>3. clk' = freqs.new
    BY <1>2, <1>3, <2>1, <2>2 DEF ClockMoves
  <2>4. ASSUME call' = [call EXCEPT ![t].stage = @ + 1] PROVE InTransition(t)'
    BY <1>2, <1>3, <1>4, <2>1, <2>2, <2>3, <2>4 DEF InTransition
  <2>. QED
    BY <1>1, <1>2, <2>2, <2>4, StageEnd
<1>9. CASE PostChange(t)
  <2>1. UNCHANGED <<freqs, clk>> /\ policy'.cur = freqs.new
    BY <1>9 DEF PostChange, hardware, TypeInv, TypeOK
  <2>2. s = P
    BY <1>1, <1>9, StageNumbers DEF PostChange
  <2>3. ASSUME call' = [call EXCEPT ![t].stage = @ + 1] PROVE InTransition(t)'
    BY <1>2, <1>3, <1>4, <2>1, <2>2, <2>3 DEF InTransition
  <2>4. policy'.cur = clk'
    BY <1>2, <1>3, <2>1, <2>2
  <2>. QED
    BY <1>1, <2>3, <2>4, StageEnd
<1>. QED
  BY <1>5, <1>6, <1>7, <1>8, <1>9

-----------------------------------------------------------------------------

LEMMA ClockInvInit ==
  ASSUME TRUE \notin LevelLockOff
  PROVE  Init => ClockInv
<1>. SUFFICES ASSUME Init PROVE ClockInv
  OBVIOUS
<1>1. lock_disable = FALSE
  BY RequestsAssumption DEF Init
<1>2. \A t \in Threads : pc[t] = "idle" /\ call[t].stage = 1 /\ t # NoThread
  BY ThreadsAssumption DEF Init, NoCall
<1>3. set_freq_lock = NoThread /\ policy.cur = clk
  BY DEF Init
<1>. QED
  BY <1>1, <1>2, <1>3 DEF ClockInv, InMutex, LookUpPcs

LEMMA ClockInvNext ==
  ASSUME TRUE \notin LevelLockOff
  PROVE  TypeInv /\ ClockInv /\ [Next]_vars => ClockInv'
<1>. SUFFICES ASSUME TypeInv, ClockInv, [Next]_vars PROVE ClockInv'
  OBVIOUS
<1>1. CASE PolicyAdjust \/ PolicyBounds \/ UNCHANGED vars
  <2>1. lock_disable' = FALSE
    BY <1>1, RequestsAssumption DEF PolicyAdjust, PolicyBounds, vars, ClockInv
  <2>2. policy'.cur = policy.cur /\ UNCHANGED <<clk, freqs, set_freq_lock, pc, call>>
    BY <1>1 DEF PolicyAdjust, PolicyBounds, vars, hardware, TypeInv, TypeOK
  <2>. QED
    BY <2>1, <2>2 DEF ClockInv, InTransition, ClockMoves
<1>2. ASSUME NEW t \in Threads, Start(t) \/ Acquire(t) \/ Continue(t)
      PROVE  ClockInv'
  BY <1>2, OtherSteps, TargetSteps, RequestSteps, StageSteps
     DEF OtherStep, Acquire, Continue
<1>. QED
  BY <1>1, <1>2 DEF Next

(* With governors that respect floors, whatever requests, targets, policy   *)
(* changes, suspends and fixes race, between transitions policy->cur is the *)
(* frequency of the clock.                                                  *)
THEOREM CurIsClock ==
  ASSUME TRUE \notin LevelLockOff
  PROVE  Spec => []CurMatchesClock
<1>1. Spec => []TypeInv
  BY TypeInvInit, TypeInvNext, PTL DEF Spec
<1>2. Spec => []ClockInv
  BY <1>1, ClockInvInit, ClockInvNext, PTL DEF Spec
<1>3. ClockInv => CurMatchesClock
  BY ThreadsAssumption DEF ClockInv, CurMatchesClock, InMutex
<1>. QED
  BY <1>2, <1>3, PTL

(* A floor or ceiling transition starts from the level the clock is at.     *)
THEOREM StartLevelIsExact ==
  ASSUME TRUE \notin LevelLockOff
  PROVE  Spec => []StartLevelExact
<1>1. Spec => []TypeInv
  BY TypeInvInit, TypeInvNext, PTL DEF Spec
<1>2. Spec => []ClockInv
  BY <1>1, ClockInvInit, ClockInvNext, PTL DEF Spec
<1>3. TypeInv /\ ClockInv => StartLevelExact
  <2>1. SUFFICES ASSUME TypeInv, ClockInv, NEW t \in Threads, At(t, "relock"),
                        call[t].op \in LockOps \cup {"limit"}
                 PROVE  Freq[call[t].old] = clk
    BY DEF StartLevelExact
  <2>2. pc[t] = "run" /\ InTransition(t) /\ call[t] \in Calls
    BY <2>1 DEF At, ClockInv, TypeInv, TypeOK
  <2>3. call[t].stage < SetAt(call[t].op)
    BY <2>1, <2>2, StageNumbers DEF Calls, LastStage
  <2>. QED
    BY <2>1, <2>2, <2>3 DEF InTransition
<1>. QED
  BY <1>1, <1>2, <1>3, PTL

-----------------------------------------------------------------------------
(* Which operation a thread can be in, where                               *)

TargetOps == {"target", "fix"}

OpsOk(t) ==
  /\ pc[t] \in {"recorded", "want_raise"} => call[t].op \in LockOps
  /\ pc[t] = "want_cap" => call[t].op = "limit"
  /\ pc[t] = "run" => call[t].op \in TargetOps \cup LockOps \cup {"limit"}

OpsInv == \A t \in Threads : OpsOk(t)

LEMMA ReturnOps ==
  ASSUME TypeInv, NEW t \in Threads, NEW op,
         Goto(t, ReturnPc(op)) \/ Goto(t, ErrorPc(op)) \/ Goto(t, "thaw")
           \/ Goto(t, "idle")
  PROVE  OpsOk(t)'
<1>1. pc'[t] \in {"fixing", "prepared", "enable", "halted", "idle", "bad",
                  "thaw"}
  BY DEF ReturnPc, ErrorPc, Goto, TypeInv, TypeOK
<1>. QED
  BY <1>1 DEF OpsOk

LEMMA OpsInvNext ==
  ASSUME TypeInv, ClockInv, OpsInv, [Next]_vars
  PROVE  OpsInv'
<1>1. CASE PolicyAdjust \/ PolicyBounds \/ UNCHANGED vars
  BY <1>1 DEF PolicyAdjust, PolicyBounds, vars, OpsInv, OpsOk
<1>2. ASSUME NEW t \in Threads, Start(t) \/ Acquire(t) \/ Continue(t)
      PROVE  OpsInv'
  <2>1. \A u \in Threads : u # t => pc'[u] = pc[u] /\ call'[u] = call[u]
    BY <1>2, OthersKept
  <2>2. OpsOk(t) /\ lock_disable = FALSE
    BY DEF OpsInv, ClockInv
  <2>. SUFFICES OpsOk(t)'
    BY <2>1 DEF OpsInv, OpsOk
  <2>3. CASE Start(t)
    <3>1. \/ UNCHANGED <<pc, call>>
          \/ Goto(t, "want_freq") \/ Goto(t, "record") \/ Goto(t, "recompute")
          \/ Goto(t, "bad")
      BY <2>3 DEF Start, TargetCall, FixCall, Unfix, ClientLock, ClientLockFree,
         ClientLimit, LimitFreeReset, SuspendPrepare, PostSuspend, Reboot,
         LockCall, LockFreeReset
    <3>. QED
      BY <2>2, <3>1 DEF OpsOk, Goto, TypeInv, TypeOK
  <2>4. CASE \/ TargetLock(t) \/ TargetFloor(t) \/ TargetCap(t)
    <3>1. \/ Goto(t, ReturnPc(call[t].op)) \/ Goto(t, "floor") \/ Goto(t, "cap")
          \/ /\ Goto(t, "run") /\ call[t].op \in TargetOps
             /\ call'[t].op = call[t].op
      BY <2>4 DEF TargetLock, TargetFloor, TargetCap, Return, ClockInv,
                  LookUpPcs, TargetOps, TypeInv, TypeOK, Calls
    <3>. QED
      BY <3>1, ReturnOps DEF OpsOk, Goto, TypeInv, TypeOK
  <2>5. CASE LockRecord(t) \/ LimitRecord(t)
    BY <2>5 DEF LockRecord, LimitRecord, OpsOk, Goto, TypeInv, TypeOK
  <2>6. CASE LockRaise(t) \/ LimitCap(t)
    <3>1. \/ Goto(t, ReturnPc(call[t].op)) \/ Goto(t, ErrorPc(call[t].op))
          \/ Goto(t, "run") /\ call'[t].op = call[t].op
      <4>1. BeginRequest(t) \/ Return(t, ReturnPc(call[t].op))
        BY <2>6 DEF LockRaise, LimitCap
      <4>2. CASE BeginRequest(t)
        <5>1. ASSUME NEW old, call' = [call EXCEPT ![t].old = old,
                                                   ![t].new = call[t].level]
              PROVE  call'[t].op = call[t].op
          BY <5>1 DEF TypeInv, TypeOK, Calls
        <5>. QED
          BY <4>2, <5>1 DEF BeginRequest, Return
      <4>. QED
        BY <4>1, <4>2 DEF Return
    <3>2. call[t].op \in LockOps \cup {"limit"}
      BY <2>2, <2>6 DEF LockRaise, LimitCap, OpsOk
    <3>. QED
      BY <3>1, <3>2, ReturnOps DEF OpsOk, Goto, TypeInv, TypeOK
  <2>7. CASE PostSuspend(t, "bad")
    BY <2>7 DEF PostSuspend, LockFreeReset, OpsOk, Goto, TypeInv, TypeOK
  <2>8. CASE PostSuspendRestore(t)
    BY <2>2, <2>8 DEF PostSuspendRestore, OpsOk, Goto, TypeInv, TypeOK
  <2>9. CASE FixDisable(t) \/ SuspendDisable(t) \/ PostSuspendEnable(t)
    BY <2>9 DEF FixDisable, SuspendDisable, PostSuspendEnable, OpsOk, Goto,
                TypeInv, TypeOK
  <2>10. CASE \/ PreChange(t) \/ RaiseVolt(t) \/ SettleVolt(t) \/ SafeVolt(t)
              \/ ArmVolt(t) \/ Relock(t) \/ SetFreq(t) \/ PostChange(t)
    <3>1. \/ Goto(t, ReturnPc(call[t].op))
          \/ UNCHANGED pc /\ call'[t].op = call[t].op
      BY <2>10 DEF PreChange, RaiseVolt, SettleVolt, SafeVolt, ArmVolt, Relock,
         SetFreq, PostChange, Proceed, Return, TypeInv, TypeOK, Calls
    <3>. QED
      BY <2>2, <3>1, ReturnOps DEF OpsOk
  <2>11. CASE LockCheck(t) \/ LockRecompute(t) \/ LimitRecompute(t)
    <3>1. \/ Goto(t, ReturnPc(call[t].op)) \/ Goto(t, "thaw") \/ Goto(t, "idle")
          \/ pc[t] = "recorded" /\ Goto(t, "want_raise") /\ UNCHANGED call
      BY <2>11 DEF LockCheck, LockRecompute, LimitRecompute, Return
    <3>. QED
      BY <2>2, <3>1, ReturnOps DEF OpsOk, Goto, TypeInv, TypeOK
  <2>12. CASE LockScan(t) \/ LimitScan(t)
    BY <2>2, <2>12 DEF LockScan, LimitScan, OpsOk
  <2>. QED
    BY <1>2, <2>3, <2>4, <2>5, <2>6, <2>7, <2>8, <2>9, <2>10, <2>11, <2>12
       DEF Acquire, Continue
<1>. QED
  BY <1>1, <1>2 DEF Next

(* What holds between, before and in the transitions                       *)
LEMMA ClockInvariants ==
  ASSUME TRUE \notin LevelLockOff
  PROVE  Spec => [](TypeInv /\ RequestsInv /\ ClockInv /\ OpsInv)
<1>1. Spec => []TypeInv
  BY TypeInvInit, TypeInvNext, PTL DEF Spec
<1>2. Spec => []RequestsInv
  BY <1>1, RequestsInvInit, RequestsInvNext, PTL DEF Spec
<1>3. Spec => []ClockInv
  BY <1>1, ClockInvInit, ClockInvNext, PTL DEF Spec
<1>4. Init => OpsInv
  BY DEF Init, OpsInv, OpsOk
<1>5. TypeInv /\ ClockInv /\ OpsInv /\ [Next]_vars => OpsInv'
  BY OpsInvNext
<1>. QED
  BY <1>1, <1>2, <1>3, <1>4, <1>5, PTL DEF Spec

-----------------------------------------------------------------------------
(* The voltages of the tables                                              *)

LEMMA LevelFreqs ==
  ASSUME NEW l \in Levels
  PROVE  Freq[l] \in Nat \ {0} /\ Freq[l] <= Freq[MaxIdx]
<1>1. MaxIdx \in Levels /\ MaxIdx <= l
  BY LevelsAssumption DEF Levels
<1>. QED
  BY <1>1, LevelsAssumption, FreqAssumption DEF Levels

(* A faster clock needs no less voltage ...                                *)
LEMMA NeedVoltMonotone ==
  ASSUME NEW f \in Nat, NEW g \in Nat, f <= g, g <= Freq[MaxIdx]
  PROVE  /\ NeedVolt(f) \in Nat /\ NeedVolt(g) \in Nat
         /\ NeedVolt(f) <= NeedVolt(g)
<1>. DEFINE S == { i \in Levels : Freq[i] >= f }
            T == { i \in Levels : Freq[i] >= g }
<1>1. MaxIdx \in Levels /\ Freq[MaxIdx] \in Nat
      /\ \A i \in Levels : Freq[i] \in Nat
  BY LevelsAssumption, FreqAssumption DEF Levels
<1>2. /\ MaxIdx \in T /\ T \in SUBSET S /\ S \in SUBSET Levels
  BY <1>1
<1>3. /\ Slowest(S) \in S /\ \A i \in S : i <= Slowest(S)
      /\ Slowest(T) \in T
  <2>. HIDE DEF S, T
  <2>. QED
    BY <1>2, SlowestExists
<1>4. /\ Slowest(S) \in Levels /\ Slowest(T) \in Levels
      /\ Slowest(T) <= Slowest(S)
  BY <1>2, <1>3
<1>5. Volt[Slowest(S)] <= Volt[Slowest(T)]
  <2>. HIDE DEF S, T
  <2>. QED
    BY <1>4, VoltAssumption, LevelsAssumption DEF Levels
<1>6. Volt[Slowest(S)] \in Nat /\ Volt[Slowest(T)] \in Nat
  BY <1>4, VoltAssumption
<1>. QED
  BY <1>5, <1>6 DEF NeedVolt

(* ... and the voltage of a level is what its frequency needs.             *)
LEMMA LevelCarries ==
  ASSUME NEW l \in Levels, NEW f \in Nat, f <= Freq[l]
  PROVE  NeedVolt(f) \in Nat /\ NeedVolt(f) <= Volt[l]
<1>. DEFINE S == { i \in Levels : Freq[i] >= Freq[l] }
<1>1. l \in S /\ S \in SUBSET Levels
  BY LevelFreqs
<1>2. Slowest(S) \in S /\ \A i \in S : i <= Slowest(S)
  <2>. HIDE DEF S
  <2>. QED
    BY <1>1, SlowestExists
<1>3. /\ Slowest(S) \in Levels /\ l <= Slowest(S)
      /\ Freq[Slowest(S)] >= Freq[l]
  BY <1>1, <1>2
<1>4. Slowest(S) = l
  <2>. HIDE DEF S
  <2>1. l < Slowest(S) => Freq[Slowest(S)] < Freq[l]
    BY <1>3, FreqAssumption
  <2>. QED
    BY <1>3, <2>1, LevelFreqs, LevelsAssumption DEF Levels
<1>5. NeedVolt(Freq[l]) = Volt[l]
  BY <1>4 DEF NeedVolt
<1>. QED
  BY <1>5, LevelFreqs, NeedVoltMonotone

(* The safe voltage carries the MPLL and both ends of the transition       *)
LEMMA SafeVoltCarries ==
  ASSUME NEW i \in Levels, NEW j \in Levels
  PROVE  /\ SafeArmVolt(i, j) # 0
              => /\ SafeArmVolt(i, j) = Volt[PllSafeIdx]
                 /\ <<i, j>> \in ApllChange
                 /\ Freq[i] < MpllFreq /\ Freq[j] < MpllFreq
         /\ SafeArmVolt(i, j) = 0 /\ <<i, j>> \in ApllChange
              => MpllFreq <= Freq[i] \/ MpllFreq <= Freq[j]
<1>1. Volt[PllSafeIdx] \in Nat \ {0} /\ Freq[i] \in Nat /\ Freq[j] \in Nat
      /\ MpllFreq \in Nat
  BY VoltAssumption, FreqAssumption, PllAssumption
<1>. QED
  BY <1>1 DEF SafeArmVolt

-----------------------------------------------------------------------------
(* The voltage in a transition                                             *)

Carries(f) == volt >= NeedVolt(f)

(* exynos_target takes another level for the clock's                       *)
StartsOff(t) == call[t].op \in TargetOps /\ Freq[call[t].old] # policy.cur

OverMpll(t) == <<call[t].old, call[t].new>> \in ApllChange /\ ClockMoves(t)

VoltInTransition(t) ==
  LET s == call[t].stage
      S == SetAt(call[t].op)
  IN  /\ s <= S /\ call[t].op \in LockOps => policy.cur < freqs.new
      /\ s <= S /\ call[t].op = "limit" => freqs.new < policy.cur
      /\ s < S - 1 => Carries(policy.cur)
      /\ s \in {S - 1, S} => Carries(policy.cur) \/ StartsOff(t)
      /\ S - 1 <= s => Carries(freqs.new)
      /\ s \in {S - 1, S} /\ call[t].op \in TargetOps /\ OverMpll(t)
           => Carries(MpllFreq) \/ StartsOff(t)
      /\ s = S => clk = policy.cur \/ (clk = MpllFreq /\ OverMpll(t))

VoltInv ==
  /\ policy.cur <= Freq[MaxIdx]
  /\ (\A t \in Threads : pc[t] # "run") => Carries(policy.cur)
  /\ \A t \in Threads : pc[t] = "run" => VoltInTransition(t)

(* Where the stages are that set the voltage, and where those that set the  *)
(* clock are                                                               *)
LEMMA VoltStages ==
  ASSUME NEW t \in Threads, call[t] \in Calls
  PROVE  LET s == call[t].stage
             S == SetAt(call[t].op)
             op == call[t].op
         IN  /\ S = IF op \in TargetOps THEN 4
                    ELSE IF op \in LockOps \cup {"resume"} THEN 5 ELSE 3
             /\ At(t, "raise")  => op \in TargetOps /\ s = 2
             /\ At(t, "settle") => op \in TargetOps /\ s = 6
             /\ At(t, "safe") => op \notin TargetOps /\ (s = IF S = 5 THEN 2 ELSE 4)
             /\ At(t, "arm")  => op \notin TargetOps /\ (s = IF S = 5 THEN 3 ELSE 5)
             /\ pc[t] = "run" /\ s = S - 1 => At(t, "relock")
             /\ pc[t] = "run" /\ s = S     => At(t, "set")
<1>1. call[t].stage \in 1 .. 6
  BY DEF Calls, LastStage
<1>2. CASE call[t].op \in {"target", "fix"}
  <2>1. SetAt(call[t].op) = 4
        /\ Stages(call[t].op)
             = <<"pre", "raise", "relock", "set", "post", "settle">>
    BY <1>2 DEF SetAt, Stages, LockOps
  <2>. QED
    BY <1>1, <1>2, <2>1 DEF At, TargetOps
<1>3. CASE call[t].op \in LockOps \cup {"resume"}
  <2>1. SetAt(call[t].op) = 5 /\ call[t].op \notin TargetOps
        /\ Stages(call[t].op)
             = <<"pre", "safe", "arm", "relock", "set", "post">>
    BY <1>3 DEF SetAt, Stages, LockOps, TargetOps
  <2>. QED
    BY <1>1, <1>3, <2>1 DEF At
<1>4. CASE call[t].op \notin {"target", "fix"} \cup LockOps \cup {"resume"}
  <2>1. SetAt(call[t].op) = 3 /\ call[t].op \notin TargetOps
        /\ Stages(call[t].op)
             = <<"pre", "relock", "set", "safe", "arm", "post">>
    BY <1>4 DEF SetAt, Stages, TargetOps
  <2>. QED
    BY <1>1, <1>4, <2>1 DEF At
<1>. QED
  BY <1>2, <1>3, <1>4

(* A step that leaves the hardware and the transitions alone               *)
LEMMA VoltKept ==
  ASSUME VoltInv, policy'.cur = policy.cur, UNCHANGED <<clk, volt, freqs>>,
         \A u \in Threads : pc'[u] = "run" <=> pc[u] = "run",
         \A u \in Threads : pc[u] = "run" => call'[u] = call[u]
  PROVE  VoltInv'
<1>1. ASSUME NEW u \in Threads, pc'[u] = "run" PROVE VoltInTransition(u)'
  <2>1. VoltInTransition(u) /\ call'[u] = call[u]
    BY <1>1 DEF VoltInv
  <2>. QED
    BY <2>1 DEF VoltInTransition, Carries, StartsOff, OverMpll, ClockMoves
<1>2. (\A u \in Threads : pc'[u] # "run") => Carries(policy.cur)'
  BY DEF VoltInv, Carries
<1>. QED
  BY <1>1, <1>2 DEF VoltInv

LEMMA VoltInvInit == Init => VoltInv
<1>. SUFFICES ASSUME Init PROVE VoltInv
  OBVIOUS
<1>1. policy.cur = clk /\ volt = NeedVolt(clk) /\ clk \in Nat
      /\ clk <= Freq[MaxIdx]
  BY BootAssumption DEF Init
<1>2. \A t \in Threads : pc[t] # "run"
  BY DEF Init
<1>3. NeedVolt(clk) \in Nat
  BY <1>1, NeedVoltIsVolt
<1>. QED
  BY <1>1, <1>2, <1>3 DEF VoltInv, Carries

(* A transition begins                                                     *)
LEMMA VoltBegin ==
  ASSUME TypeInv, ClockInv, ClockInv', OpsInv, OpsInv', VoltInv, NEW t \in Threads,
         \/ TargetLock(t) \/ TargetFloor(t) \/ TargetCap(t) \/ LockRaise(t)
         \/ LimitCap(t)
  PROVE  VoltInv'
<1>1. UNCHANGED <<clk, volt, policy>>
  BY DEF TargetLock, TargetFloor, TargetCap, LockRaise, LimitCap, hardware
<1>2. \A u \in Threads : u # t => pc'[u] = pc[u] /\ call'[u] = call[u]
  BY OthersKept DEF Acquire, Continue
<1>3. \A u \in Threads : pc[u] # "run"
  <2>1. CASE TargetFloor(t) \/ TargetCap(t)
    <3>1. pc[t] \in {"floor", "cap"}
      BY <2>1 DEF TargetFloor, TargetCap
    <3>. QED
      BY <3>1 DEF ClockInv, InMutex
  <2>2. CASE TargetLock(t) \/ LockRaise(t) \/ LimitCap(t)
    <3>1. set_freq_lock = NoThread
      BY <2>2 DEF TargetLock, LockRaise, LimitCap, FreqMutexFree
    <3>. QED
      BY <3>1, ThreadsAssumption DEF ClockInv, InMutex
  <2>. QED
    BY <2>1, <2>2
<1>4. Carries(policy.cur)' /\ policy'.cur <= Freq[MaxIdx]
  BY <1>1, <1>3 DEF VoltInv, Carries
<1>5. ASSUME pc'[t] = "run" PROVE VoltInTransition(t)'
  <2>1. call[t] \in Calls /\ call[t].stage = 1
    BY <1>3 DEF ClockInv, TypeInv, TypeOK
  <2>2. CASE TargetLock(t) \/ TargetFloor(t) \/ TargetCap(t)
    <3>1. TargetCap(t)
      <4>1. TargetLock(t) => pc'[t] # "run"
        BY ReturnOutsideMutex
           DEF TargetLock, Return, Goto, InMutex, TypeInv, TypeOK
      <4>2. TargetFloor(t) => pc'[t] # "run"
        BY DEF TargetFloor, Goto, TypeInv, TypeOK
      <4>. QED
        BY <1>5, <2>2, <4>1, <4>2
    <3>2. call'[t].stage = 1 /\ call'[t].op = call[t].op
      BY <2>1, <3>1 DEF TargetCap, Calls, TypeInv, TypeOK
    <3>3. call[t].op \in TargetOps
      BY <3>1 DEF TargetCap, ClockInv, LookUpPcs, TargetOps
    <3>4. SetAt(call'[t].op) = 4 /\ call'[t].op \notin LockOps \cup {"limit"}
      BY <3>2, <3>3 DEF SetAt, TargetOps, LockOps
    <3>. QED
      BY <1>4, <3>2, <3>4 DEF VoltInTransition
  <2>3. CASE LockRaise(t) \/ LimitCap(t)
    <3>1. PICK old \in LevelsOfFreq(policy.cur) :
            /\ freqs' = [old |-> policy.cur, new |-> Freq[call[t].level]]
            /\ call' = [call EXCEPT ![t].old = old, ![t].new = call[t].level]
      <4>1. ASSUME NEW op, Return(t, ReturnPc(op)) \/ Return(t, ErrorPc(op))
            PROVE  pc'[t] # "run"
        BY <4>1, ReturnOutsideMutex DEF Return, Goto, InMutex, TypeInv, TypeOK
      <4>2. BeginRequest(t)
        BY <1>5, <2>3, <4>1 DEF LockRaise, LimitCap
      <4>. QED
        BY <1>5, <4>1, <4>2 DEF BeginRequest
    <3>2. call'[t].stage = 1 /\ call'[t].op = call[t].op
          /\ freqs'.new = Freq[call[t].level] /\ policy'.cur = policy.cur
      BY <1>1, <2>1, <3>1 DEF Calls, TypeInv, TypeOK
    <3>3. CASE LockRaise(t)
      <4>1. call[t].op \in LockOps /\ policy.cur < Freq[call[t].level]
        <5>1. pc[t] = "want_raise"
          BY <3>3 DEF LockRaise
        <5>2. ~(policy.cur < Freq[call[t].level])
                => Return(t, ReturnPc(call[t].op))
          BY <3>3 DEF LockRaise
        <5>3. Return(t, ReturnPc(call[t].op)) => pc'[t] # "run"
          BY ReturnOutsideMutex DEF Return, Goto, InMutex, TypeInv, TypeOK
        <5>. QED
          BY <1>5, <5>1, <5>2, <5>3 DEF OpsInv, OpsOk
      <4>2. SetAt(call'[t].op) = 5 /\ call'[t].op # "limit"
            /\ call'[t].op \notin TargetOps
        BY <3>2, <4>1 DEF SetAt, LockOps, TargetOps
      <4>. QED
        BY <1>4, <3>2, <4>1, <4>2 DEF VoltInTransition
    <3>4. CASE LimitCap(t)
      <4>1. call[t].op = "limit" /\ policy.cur > Freq[call[t].level]
        <5>1. pc[t] = "want_cap"
          BY <3>4 DEF LimitCap
        <5>2. ~(policy.cur > Freq[call[t].level])
                => Return(t, ReturnPc(call[t].op))
          BY <3>4 DEF LimitCap, AboveCeiling
        <5>3. Return(t, ReturnPc(call[t].op)) => pc'[t] # "run"
          BY ReturnOutsideMutex DEF Return, Goto, InMutex, TypeInv, TypeOK
        <5>. QED
          BY <1>5, <5>1, <5>2, <5>3 DEF OpsInv, OpsOk
      <4>2. SetAt(call'[t].op) = 3 /\ call'[t].op \notin LockOps
            /\ call'[t].op \notin TargetOps
        BY <3>2, <4>1 DEF SetAt, LockOps, TargetOps
      <4>3. freqs'.new < policy'.cur
        BY <2>1, <3>2, <4>1, LevelFreqs DEF TypeInv, TypeOK, Calls
      <4>. QED
        BY <1>4, <3>2, <4>1, <4>2, <4>3 DEF VoltInTransition
    <3>. QED
      BY <2>3, <3>3, <3>4
  <2>. QED
    BY <2>2, <2>3
<1>. QED
  BY <1>2, <1>3, <1>4, <1>5 DEF VoltInv

(* A stage ends: either the next one begins or the transition is over      *)
LEMMA VoltStageEnd ==
  ASSUME TypeInv, ClockInv, VoltInv, NEW t \in Threads, pc[t] = "run",
         Proceed(t), policy'.cur <= Freq[MaxIdx],
         call[t].stage < 6 /\ call' = [call EXCEPT ![t].stage = @ + 1]
           => VoltInTransition(t)',
         call[t].stage = 6 => Carries(policy.cur)'
  PROVE  VoltInv'
<1>1. call[t] \in Calls /\ set_freq_lock = t
  BY DEF ClockInv, InMutex, TypeInv, TypeOK
<1>2. \A u \in Threads : u # t => pc'[u] # "run"
  BY <1>1 DEF ClockInv, InMutex, Proceed, Return, Goto, TypeInv, TypeOK
<1>3. CASE call[t].stage = LastStage
  <2>1. pc'[t] # "run"
    BY <1>3, ReturnOutsideMutex
       DEF Proceed, Return, Goto, InMutex, TypeInv, TypeOK
  <2>. QED
    BY <1>2, <1>3, <2>1 DEF VoltInv, LastStage
<1>4. CASE call[t].stage # LastStage
  <2>1. call' = [call EXCEPT ![t].stage = @ + 1] /\ UNCHANGED pc
        /\ call[t].stage < 6
    BY <1>1, <1>4 DEF Proceed, Calls, LastStage
  <2>. QED
    BY <1>2, <2>1 DEF VoltInv
<1>. QED
  BY <1>3, <1>4

LEMMA VoltStageSteps ==
  ASSUME TypeInv, TypeInv', ClockInv, OpsInv, VoltInv, NEW t \in Threads,
         \/ PreChange(t) \/ RaiseVolt(t) \/ SettleVolt(t) \/ SafeVolt(t)
         \/ ArmVolt(t) \/ Relock(t) \/ SetFreq(t) \/ PostChange(t)
  PROVE  VoltInv'
<1>. DEFINE s == call[t].stage
            S == SetAt(call[t].op)
            old == call[t].old
            new == call[t].new
            cur == policy.cur
<1>1. /\ pc[t] = "run" /\ Proceed(t) /\ InTransition(t) /\ VoltInTransition(t)
      /\ call[t] \in Calls
      /\ call[t].op \in TargetOps \cup LockOps \cup {"limit"}
  BY DEF PreChange, RaiseVolt, SettleVolt, SafeVolt, ArmVolt, Relock, SetFreq,
         PostChange, At, ClockInv, VoltInv, OpsInv, OpsOk, TypeInv, TypeOK
<1>2. /\ s \in 1 .. 6 /\ S \in 3 .. 5
      /\ S = IF call[t].op \in TargetOps THEN 4
             ELSE IF call[t].op \in LockOps THEN 5 ELSE 3
      /\ PostAt(call[t].op) \in 5 .. 6 /\ S < PostAt(call[t].op)
  BY <1>1, StageNumbers, VoltStages DEF Calls, LastStage, TargetOps, LockOps
<1>3. /\ old \in Levels /\ new \in Levels /\ cur \in Nat /\ cur <= Freq[MaxIdx]
      /\ volt \in Nat /\ volt' \in Nat /\ clk \in Nat
      /\ Freq[MaxIdx] \in Nat /\ Freq[old] \in Nat /\ Freq[new] \in Nat
      /\ Freq[new] <= Freq[MaxIdx] /\ freqs.new = Freq[new]
      /\ MpllFreq \in Nat /\ MpllFreq <= Freq[MaxIdx]
  <2>1. MaxIdx \in Levels
    BY LevelsAssumption DEF Levels
  <2>. QED
    BY <1>1, <2>1, LevelFreqs, PllAssumption
       DEF InTransition, VoltInv, TypeInv, TypeOK, Calls
<1>4. /\ NeedVolt(cur) \in Nat /\ NeedVolt(Freq[new]) \in Nat
      /\ NeedVolt(MpllFreq) \in Nat
      /\ NeedVolt(Freq[new]) <= Volt[new] /\ Volt[new] \in Nat
      /\ NeedVolt(MpllFreq) <= Volt[PllSafeIdx] /\ Volt[PllSafeIdx] \in Nat
  BY <1>3, LevelCarries, NeedVoltMonotone, PllAssumption, VoltAssumption
<1>5. \A f, g \in {cur, Freq[new], MpllFreq} :
        f <= g => NeedVolt(f) <= NeedVolt(g)
  BY <1>3, NeedVoltMonotone
<1>6. ASSUME call' = [call EXCEPT ![t].stage = @ + 1]
      PROVE  /\ call'[t].stage = s + 1 /\ call'[t].op = call[t].op
             /\ call'[t].old = old /\ call'[t].new = new
             /\ SetAt(call'[t].op) = S
  BY <1>1, <1>6 DEF Calls, TypeInv, TypeOK
<1>7. /\ s <= S /\ call[t].op \in LockOps => cur < Freq[new]
      /\ s <= S /\ call[t].op = "limit" => Freq[new] < cur
      /\ s < S - 1 => volt >= NeedVolt(cur)
      /\ s \in {S - 1, S} => volt >= NeedVolt(cur) \/ StartsOff(t)
      /\ S - 1 <= s => volt >= NeedVolt(Freq[new])
      /\ s \in {S - 1, S} /\ call[t].op \in TargetOps /\ OverMpll(t)
           => volt >= NeedVolt(MpllFreq) \/ StartsOff(t)
  BY <1>1, <1>3 DEF VoltInTransition, Carries
<1>8. /\ 1 < s /\ s <= S => freqs.old = cur
      /\ s < S => clk = cur
      /\ s < S /\ call[t].op \in LockOps \cup {"limit"} => Freq[old] = cur
      /\ PostAt(call[t].op) < s => cur = clk
      /\ S < s => clk = Freq[new]
  BY <1>1, <1>3 DEF InTransition
<1>9. TargetOps \cap (LockOps \cup {"limit"}) = {} /\ "limit" \notin LockOps
  BY DEF TargetOps, LockOps
<1>10. \/ Safe(t) = 0
       \/ /\ Safe(t) = Volt[PllSafeIdx]
          /\ Freq[old] < MpllFreq /\ Freq[new] < MpllFreq
  BY <1>3, SafeVoltCarries DEF Safe
<1>11. Freq[old] = cur /\ Safe(t) # 0 => NeedVolt(cur) <= Volt[PllSafeIdx]
  BY <1>3, <1>4, <1>5, <1>10
<1>12. Safe(t) # 0 => NeedVolt(Freq[new]) <= Volt[PllSafeIdx]
  BY <1>3, <1>4, <1>5, <1>10
<1>13. CASE PreChange(t)
  <2>1. s = 1 /\ freqs'.new = Freq[new] /\ UNCHANGED <<policy, clk, volt>>
    BY <1>1, <1>3, <1>13, StageNumbers DEF PreChange, hardware, TypeInv, TypeOK
  <2>2. ASSUME call' = [call EXCEPT ![t].stage = @ + 1]
        PROVE  VoltInTransition(t)'
    <3>1. call'[t].stage = 2 /\ 2 < S
      BY <1>2, <1>6, <2>1, <2>2
    <3>2. volt >= NeedVolt(cur)
      BY <1>2, <1>7, <2>1
    <3>3. S = 3 => call[t].op = "limit" /\ volt >= NeedVolt(Freq[new])
      BY <1>1, <1>2, <1>3, <1>4, <1>5, <1>7, <2>1, <3>2
    <3>. QED
      BY <1>2, <1>6, <1>7, <1>9, <2>1, <2>2, <3>1, <3>2, <3>3
         DEF VoltInTransition, Carries
  <2>. QED
    BY <1>1, <1>3, <2>1, <2>2, VoltStageEnd
<1>14. CASE RaiseVolt(t)
  <2>1. /\ s = 2 /\ S = 4 /\ call[t].op \in TargetOps
        /\ volt' = FirstVolt(t) /\ UNCHANGED <<freqs, policy, clk>>
        /\ freqs.old = cur
    BY <1>1, <1>2, <1>8, <1>14, VoltStages DEF RaiseVolt
  <2>2. volt >= NeedVolt(cur)
    BY <1>7, <2>1
  <2>3. volt' >= NeedVolt(Freq[new])
    BY <1>3, <1>4, <1>5, <1>10, <1>12, <2>1, <2>2 DEF FirstVolt
  <2>4. Freq[old] = cur => volt' >= NeedVolt(cur)
    BY <1>3, <1>4, <1>5, <1>10, <1>11, <2>1, <2>2 DEF FirstVolt
  <2>5. Freq[old] = cur /\ OverMpll(t) => volt' >= NeedVolt(MpllFreq)
    BY <1>3, <1>4, <1>5, <2>1, <2>2, SafeVoltCarries
       DEF FirstVolt, Safe, OverMpll
  <2>6. ASSUME call' = [call EXCEPT ![t].stage = @ + 1]
        PROVE  VoltInTransition(t)'
    <3>1. call'[t].stage = 3 /\ SetAt(call'[t].op) = 4
          /\ call'[t].op \notin LockOps \cup {"limit"}
      BY <1>6, <1>9, <2>1, <2>6
    <3>2. (OverMpll(t)' => OverMpll(t)) /\ (StartsOff(t)' <=> Freq[old] # cur)
      BY <1>6, <2>1, <2>6 DEF OverMpll, ClockMoves, StartsOff, TargetOps
    <3>3. freqs'.new = Freq[new]
      BY <1>3, <2>1
    <3>. QED
      BY <2>1, <2>3, <2>4, <2>5, <3>1, <3>2, <3>3 DEF VoltInTransition, Carries
  <2>. QED
    BY <1>1, <1>3, <2>1, <2>6, VoltStageEnd
<1>15. CASE SettleVolt(t)
  <2>1. s = 6 /\ UNCHANGED policy /\ volt' \in {volt, Volt[new]}
    BY <1>1, <1>15, VoltStages DEF SettleVolt
  <2>2. cur = Freq[new] /\ volt >= NeedVolt(Freq[new])
    BY <1>1, <1>2, <1>7, <1>8, <1>15, <2>1, VoltStages
       DEF SettleVolt, PostAt, TargetOps
  <2>3. Carries(policy.cur)'
    BY <1>4, <2>1, <2>2 DEF Carries
  <2>. QED
    BY <1>1, <1>3, <2>1, <2>3, VoltStageEnd
<1>16. CASE SafeVolt(t) \/ ArmVolt(t)
  <2>1. /\ call[t].op \notin TargetOps /\ UNCHANGED <<freqs, policy, clk>>
        /\ s < 6 /\ s # S - 1 /\ s # S
        /\ S = 5 \/ S = 3
        /\ S = 5 => s \in {2, 3}
        /\ S = 3 => s \in {4, 5}
        /\ ArmVolt(t) => s \in {3, 5}
    BY <1>1, <1>2, <1>16, VoltStages DEF SafeVolt, ArmVolt
  <2>2. CASE S = 5
    <3>1. call[t].op \in LockOps /\ cur < Freq[new] /\ Freq[old] = cur
          /\ volt >= NeedVolt(cur) /\ call[t].op # "limit"
      BY <1>1, <1>2, <1>7, <1>8, <1>9, <2>1, <2>2
    <3>2. volt' >= NeedVolt(cur)
      BY <1>3, <1>4, <1>5, <1>16, <1>10, <1>11, <3>1 DEF SafeVolt, ArmVolt
    <3>3. s = 3 => volt' >= NeedVolt(Freq[new])
      <4>1. s = 3 => ArmVolt(t)
        BY <1>1, <1>16, <2>2, VoltStages DEF SafeVolt
      <4>. QED
        BY <1>4, <4>1 DEF ArmVolt
    <3>4. ASSUME call' = [call EXCEPT ![t].stage = @ + 1]
          PROVE  VoltInTransition(t)'
      <4>1. call'[t].stage \in {3, 4} /\ SetAt(call'[t].op) = 5
            /\ (call'[t].stage = 4 => s = 3)
            /\ call'[t].op \notin TargetOps \cup {"limit"}
        BY <1>6, <2>1, <2>2, <3>1, <3>4
      <4>. QED
        BY <1>3, <2>1, <3>1, <3>2, <3>3, <4>1 DEF VoltInTransition, Carries
    <3>. QED
      BY <1>1, <1>3, <2>1, <3>4, VoltStageEnd
  <2>3. CASE S = 3
    <3>1. volt' >= NeedVolt(Freq[new])
      BY <1>3, <1>4, <1>7, <1>16, <1>10, <1>12, <2>1, <2>3
         DEF SafeVolt, ArmVolt
    <3>2. ASSUME call' = [call EXCEPT ![t].stage = @ + 1]
          PROVE  VoltInTransition(t)'
      <4>1. call'[t].stage \in {5, 6} /\ SetAt(call'[t].op) = 3
        BY <1>6, <2>1, <2>3, <3>2
      <4>. QED
        BY <1>3, <2>1, <3>1, <4>1 DEF VoltInTransition, Carries
    <3>. QED
      BY <1>1, <1>3, <2>1, <3>2, VoltStageEnd
  <2>. QED
    BY <2>1, <2>2, <2>3
<1>17. CASE Relock(t)
  <2>1. /\ s = S - 1 /\ UNCHANGED <<freqs, policy, volt>> /\ clk = cur
        /\ clk' = IF OverMpll(t) THEN MpllFreq ELSE clk
    BY <1>1, <1>2, <1>8, <1>17, StageNumbers DEF Relock, OverMpll
  <2>2. ASSUME call' = [call EXCEPT ![t].stage = @ + 1]
        PROVE  VoltInTransition(t)'
    <3>1. call'[t].stage = S /\ SetAt(call'[t].op) = S
      BY <1>2, <1>6, <2>1, <2>2
    <3>2. (OverMpll(t)' <=> OverMpll(t)) /\ (StartsOff(t)' <=> StartsOff(t))
      BY <1>6, <2>1, <2>2 DEF OverMpll, ClockMoves, StartsOff
    <3>. QED
      BY <1>2, <1>3, <1>6, <1>7, <2>1, <2>2, <3>1, <3>2
         DEF VoltInTransition, Carries
  <2>. QED
    BY <1>1, <1>2, <1>3, <2>1, <2>2, VoltStageEnd
<1>18. CASE SetFreq(t)
  <2>1. s = S /\ UNCHANGED <<freqs, policy, volt>>
    BY <1>1, <1>18, StageNumbers DEF SetFreq
  <2>2. ASSUME call' = [call EXCEPT ![t].stage = @ + 1]
        PROVE  VoltInTransition(t)'
    <3>1. call'[t].stage = S + 1 /\ SetAt(call'[t].op) = S
      BY <1>2, <1>6, <2>1, <2>2
    <3>. QED
      BY <1>2, <1>3, <1>7, <2>1, <3>1 DEF VoltInTransition, Carries
  <2>. QED
    BY <1>1, <1>2, <1>3, <2>1, <2>2, VoltStageEnd
<1>19. CASE PostChange(t)
  <2>1. /\ s = PostAt(call[t].op) /\ UNCHANGED <<freqs, volt>>
        /\ policy'.cur = Freq[new]
    BY <1>1, <1>3, <1>19, StageNumbers DEF PostChange, hardware, TypeInv, TypeOK
  <2>2. ASSUME call' = [call EXCEPT ![t].stage = @ + 1]
        PROVE  VoltInTransition(t)'
    <3>1. call'[t].stage = s + 1 /\ SetAt(call'[t].op) = S /\ S < s
      BY <1>2, <1>6, <2>1, <2>2
    <3>. QED
      BY <1>2, <1>3, <1>7, <2>1, <3>1 DEF VoltInTransition, Carries
  <2>3. Carries(policy.cur)'
    BY <1>2, <1>3, <1>7, <2>1 DEF Carries
  <2>. QED
    BY <1>1, <1>3, <2>1, <2>2, <2>3, VoltStageEnd
<1>. QED
  BY <1>13, <1>14, <1>15, <1>16, <1>17, <1>18, <1>19

LEMMA VoltInvNext ==
  ASSUME TypeInv, TypeInv', ClockInv, ClockInv', OpsInv, OpsInv', VoltInv,
         [Next]_vars
  PROVE  VoltInv'
<1>1. CASE PolicyAdjust \/ PolicyBounds \/ UNCHANGED vars
  <2>1. policy'.cur = policy.cur /\ UNCHANGED <<clk, volt, freqs, pc, call>>
    BY <1>1 DEF PolicyAdjust, PolicyBounds, vars, hardware, TypeInv, TypeOK
  <2>. QED
    BY <2>1, VoltKept
<1>2. ASSUME NEW t \in Threads, OtherStep(t) PROVE VoltInv'
  <2>1. /\ policy'.cur = policy.cur /\ UNCHANGED <<clk, volt, freqs>>
        /\ pc[t] # "run" /\ pc'[t] # "run"
        /\ \A u \in Threads : u # t => pc'[u] = pc[u] /\ call'[u] = call[u]
    BY <1>2, OtherStepsFacts DEF InMutex
  <2>. QED
    BY <2>1, VoltKept
<1>3. ASSUME NEW t \in Threads, Start(t) \/ Acquire(t) \/ Continue(t)
      PROVE  VoltInv'
  BY <1>2, <1>3, VoltBegin, VoltStageSteps DEF OtherStep, Acquire, Continue
<1>. QED
  BY <1>1, <1>3 DEF Next

LEMMA VoltInvariant ==
  ASSUME TRUE \notin LevelLockOff
  PROVE  Spec => []VoltInv
<1>1. TypeInv /\ TypeInv' /\ ClockInv /\ ClockInv' /\ OpsInv /\ OpsInv' /\ VoltInv
        /\ [Next]_vars => VoltInv'
  BY VoltInvNext
<1>. QED
  BY <1>1, ClockInvariants, VoltInvInit, PTL DEF Spec

(* With governors that respect floors, for all tables whose voltages do not *)
(* fall as frequencies rise: the only clocks that vdd_arm may not carry are *)
(* the MPLL of a floor or ceiling transition and those of a transition of   *)
(* exynos_target from a level that is not the clock's.                      *)
THEOREM VoltageIsEnough ==
  ASSUME TRUE \notin LevelLockOff
  PROVE  Spec => []VoltageCarriesKnownClock
<1>1. TypeInv /\ ClockInv /\ OpsInv /\ VoltInv => VoltageCarriesKnownClock
  <2>. SUFFICES ASSUME TypeInv, ClockInv, OpsInv, VoltInv
                PROVE  VoltageCarriesKnownClock
    OBVIOUS
  <2>1. CASE \A t \in Threads : pc[t] # "run"
    BY <2>1 DEF ClockInv, VoltInv, Carries, VoltageCarriesKnownClock,
                VoltageCarriesClock
  <2>2. ASSUME NEW t \in Threads, pc[t] = "run"
        PROVE  VoltageCarriesKnownClock
    <3>. DEFINE s == call[t].stage
                S == SetAt(call[t].op)
    <3>1. /\ call[t] \in Calls /\ InTransition(t) /\ VoltInTransition(t)
          /\ call[t].op \in TargetOps \cup LockOps \cup {"limit"}
      BY <2>2 DEF ClockInv, VoltInv, OpsInv, OpsOk, TypeInv, TypeOK
    <3>2. /\ s \in 1 .. 6 /\ S \in 3 .. 5
          /\ s = S - 1 => At(t, "relock")
          /\ s = S     => At(t, "set")
      BY <2>2, <3>1, StageNumbers, VoltStages DEF Calls, LastStage
    <3>3. CASE s < S - 1 \/ S < s
      BY <3>1, <3>2, <3>3
         DEF InTransition, VoltInTransition, Carries, VoltageCarriesKnownClock,
             VoltageCarriesClock
    <3>4. CASE s \in {S - 1, S} /\ StartsOff(t)
      BY <3>2, <3>4 DEF StartsOff, VoltageCarriesKnownClock
    <3>5. CASE s = S - 1 /\ ~StartsOff(t)
      BY <3>1, <3>2, <3>5
         DEF InTransition, VoltInTransition, Carries, VoltageCarriesKnownClock,
             VoltageCarriesClock
    <3>6. CASE s = S /\ ~StartsOff(t)
      BY <3>1, <3>2, <3>6
         DEF VoltInTransition, Carries, VoltageCarriesKnownClock,
             VoltageCarriesClock, TargetOps
    <3>. QED
      BY <3>2, <3>3, <3>4, <3>5, <3>6
  <2>. QED
    BY <2>1, <2>2
<1>. QED
  BY <1>1, ClockInvariants, VoltInvariant, PTL

-----------------------------------------------------------------------------
(* The ceilings                                                            *)

(* The ceilings that are in force, or are again when a *_free is done      *)
AllCeilings == {limit_level} \cup Ceilings

PendingAt(l) ==
  \E u \in Threads :
    /\ call[u].op = "limit" /\ pc[u] \in {"want_cap", "run"}
    /\ l <= call[u].level

(* A clock that runs at f owes that to an operation that may pass ceilings  *)
Passed(f) ==
  \/ mover \in LockOps \cup {"resume", "torn"}
  \/ mover = "boot" /\ LevelsOfFreq(f) = {}

HeldTo(l, f) == Passed(f) \/ PendingAt(l) \/ f <= Freq[l]

(* Only the boot loader leaves a frequency that is not in the table        *)
OnTable(f) == LevelsOfFreq(f) # {} \/ mover = "boot"

CeilInTransition(t) ==
  LET s == call[t].stage
      S == SetAt(call[t].op)
  IN  /\ call[t].op = "limit" => call[t].new = call[t].level
      /\ s <= S =>
           /\ OnTable(policy.cur)
           /\ \A l \in AllCeilings : HeldTo(l, policy.cur)
           /\ call[t].op \in TargetOps =>
                \A l \in AllCeilings :
                  call[t].torn \/ PendingAt(l) \/ l <= call[t].new
           /\ call[t].op \notin TargetOps => LevelsOfFreq(policy.cur) # {}
      /\ S < s => \A l \in AllCeilings : HeldTo(l, freqs.new)

CeilInv ==
  /\ (\A t \in Threads : pc[t] # "run") =>
       /\ OnTable(policy.cur)
       /\ \A l \in AllCeilings : HeldTo(l, policy.cur)
  /\ \A t \in Threads : pc[t] = "run" => CeilInTransition(t)

(* The slower level has the lower frequency                                *)
LEMMA LevelsSlower ==
  ASSUME NEW i \in Levels, NEW j \in Levels, i <= j
  PROVE  Freq[j] <= Freq[i]
  BY LevelFreqs, FreqAssumption, LevelsAssumption DEF Levels

(* Outside a transition no ceiling arises but one that is still to be       *)
(* applied, and none that is to be applied goes away                        *)
LEMMA CeilingChanges ==
  ASSUME TypeInv, RequestsInv, ClockInv, NEW t \in Threads, OtherStep(t)
  PROVE  /\ \A l \in AllCeilings' : l \in AllCeilings \/ PendingAt(l)'
         /\ \A l : PendingAt(l) => PendingAt(l)'
<1>1. \A l : PendingAt(l) => PendingAt(l)'
  BY OtherStepsFacts DEF PendingAt, InMutex
<1>2. CASE LimitRecord(t)
  <2>1. /\ call[t].op = "limit" /\ call[t].level \in Levels
        /\ call[t].level <= call[t].level
    BY <1>2, LevelsAssumption DEF LimitRecord, TypeInv, TypeOK, Calls, Levels
  <2>2. \A l : l = call[t].level => PendingAt(l)'
    BY <1>2, <2>1 DEF LimitRecord, PendingAt, Goto, TypeInv, TypeOK
  <2>3. /\ limit_level' \in {limit_level, call[t].level}
        /\ \A d \in Ids : limit_val'[d] \in {limit_val[d], call[t].level}
    BY <1>2 DEF LimitRecord, TypeInv, TypeOK
  <2>4. \A l \in AllCeilings' : l \in AllCeilings \/ l = call[t].level
    BY <2>3 DEF AllCeilings, Ceilings
  <2>. QED
    BY <1>1, <2>2, <2>4
<1>3. CASE LimitFreeReset(t)
  <2>1. /\ limit_level' = MaxIdx
        /\ \A d \in Ids : limit_val'[d] \in {limit_val[d], MaxIdx}
    BY <1>3 DEF LimitFreeReset, Freed, TypeInv, TypeOK
  <2>. QED
    BY <1>1, <2>1 DEF AllCeilings, Ceilings
<1>4. CASE LimitScan(t)
  <2>1. limit_val' = limit_val /\ \E d \in Ids : limit_level' = limit_val[d]
    BY <1>4 DEF LimitScan
  <2>. QED
    BY <1>1, <2>1 DEF AllCeilings, Ceilings
<1>5. CASE LimitRecompute(t)
  <2>1. limit_val' = limit_val /\ limit_level' = Slowest(Ceilings)
    BY <1>5, RecomputedExact DEF LimitRecompute, RequestsInv
  <2>2. Slowest(Ceilings) \in Ceilings
    BY CeilingsFacts
  <2>. QED
    BY <1>1, <2>1, <2>2 DEF AllCeilings, Ceilings
<1>6. CASE ~(\/ LimitRecord(t) \/ LimitFreeReset(t) \/ LimitScan(t)
             \/ LimitRecompute(t))
  <2>1. UNCHANGED <<limit_val, limit_level>>
    BY <1>6
       DEF OtherStep, Start, TargetCall, FixCall, Unfix, ClientLock,
           ClientLockFree, ClientLimit, SuspendPrepare, PostSuspend, Reboot,
           LockCall, LockFreeReset, LockRecord, PostSuspendRestore, FixDisable,
           LockCheck, LockScan, LockRecompute, SuspendDisable,
           PostSuspendEnable, requests
  <2>. QED
    BY <1>1, <2>1 DEF AllCeilings, Ceilings
<1>. QED
  BY <1>2, <1>3, <1>4, <1>5, <1>6

(* A step that leaves the clock and the transitions alone                  *)
LEMMA CeilKept ==
  ASSUME CeilInv, policy'.cur = policy.cur, UNCHANGED <<freqs, mover>>,
         \A l \in AllCeilings' : l \in AllCeilings \/ PendingAt(l)',
         \A l : PendingAt(l) => PendingAt(l)',
         \A u \in Threads : pc'[u] = "run" <=> pc[u] = "run",
         \A u \in Threads : pc[u] = "run" => call'[u] = call[u]
  PROVE  CeilInv'
<1>1. \A f : (OnTable(f)' <=> OnTable(f)) /\ (Passed(f)' <=> Passed(f))
  BY DEF OnTable, Passed
<1>2. \A l, f : HeldTo(l, f) => HeldTo(l, f)'
  BY <1>1 DEF HeldTo
<1>3. ASSUME NEW f, \A l \in AllCeilings : HeldTo(l, f)
      PROVE  \A l \in AllCeilings' : HeldTo(l, f)'
  BY <1>2, <1>3 DEF HeldTo
<1>4. ASSUME NEW u \in Threads, pc'[u] = "run" PROVE CeilInTransition(u)'
  <2>1. CeilInTransition(u) /\ call'[u] = call[u]
    BY <1>4 DEF CeilInv
  <2>. QED
    BY <1>1, <1>3, <2>1 DEF CeilInTransition
<1>. QED
  BY <1>1, <1>3, <1>4 DEF CeilInv

LEMMA CeilInvInit == Init => CeilInv
<1>. SUFFICES ASSUME Init PROVE CeilInv
  OBVIOUS
<1>1. /\ limit_level = MaxIdx /\ \A d \in Ids : limit_val[d] = MaxIdx
      /\ policy.cur <= Freq[MaxIdx] /\ mover = "boot"
      /\ \A t \in Threads : pc[t] # "run"
  BY BootAssumption DEF Init
<1>2. \A l \in AllCeilings : l = MaxIdx
  BY <1>1 DEF AllCeilings, Ceilings
<1>. QED
  BY <1>1, <1>2 DEF CeilInv, OnTable, HeldTo

(* A transition begins; a ceiling that returns instead has nothing to lower *)
LEMMA CeilBegin ==
  ASSUME TypeInv, RequestsInv, ClockInv, OpsInv, CeilInv, NEW t \in Threads,
         \/ TargetLock(t) \/ TargetFloor(t) \/ TargetCap(t) \/ LockRaise(t)
         \/ LimitCap(t)
  PROVE  CeilInv'
<1>1. UNCHANGED <<policy, mover, limit_level, limit_val>>
  BY DEF TargetLock, TargetFloor, TargetCap, LockRaise, LimitCap, hardware,
         requests
<1>2. \A u \in Threads : u # t => pc'[u] = pc[u] /\ call'[u] = call[u]
  BY OthersKept DEF Acquire, Continue
<1>3. \A u \in Threads : pc[u] # "run"
  <2>1. CASE TargetFloor(t) \/ TargetCap(t)
    <3>1. pc[t] \in {"floor", "cap"}
      BY <2>1 DEF TargetFloor, TargetCap
    <3>. QED
      BY <3>1 DEF ClockInv, InMutex
  <2>2. CASE TargetLock(t) \/ LockRaise(t) \/ LimitCap(t)
    <3>1. set_freq_lock = NoThread
      BY <2>2 DEF TargetLock, LockRaise, LimitCap, FreqMutexFree
    <3>. QED
      BY <3>1, ThreadsAssumption DEF ClockInv, InMutex
  <2>. QED
    BY <2>1, <2>2
<1>4. /\ OnTable(policy.cur)
      /\ \A l \in AllCeilings : HeldTo(l, policy.cur)
  BY <1>3 DEF CeilInv
<1>5. /\ AllCeilings' = AllCeilings /\ policy'.cur = policy.cur
      /\ \A f : (OnTable(f)' <=> OnTable(f)) /\ (Passed(f)' <=> Passed(f))
  BY <1>1 DEF AllCeilings, Ceilings, OnTable, Passed
<1>6. call[t] \in Calls /\ call[t].stage = 1
  BY <1>3 DEF ClockInv, TypeInv, TypeOK
<1>7. ASSUME \A l : PendingAt(l) => PendingAt(l)'
      PROVE  OnTable(policy.cur)' /\ \A l \in AllCeilings' : HeldTo(l, policy.cur)'
  BY <1>1, <1>4, <1>5, <1>7 DEF HeldTo, OnTable, Passed
<1>8. CASE TargetLock(t) \/ TargetFloor(t) \/ TargetCap(t)
  <2>1. pc[t] \in {"want_freq", "floor", "cap"} /\ call[t].op \in TargetOps
    BY <1>8 DEF TargetLock, TargetFloor, TargetCap, ClockInv, LookUpPcs, TargetOps
  <2>2. \A l : PendingAt(l) => PendingAt(l)'
    BY <1>2, <2>1 DEF PendingAt
  <2>3. CASE pc'[t] # "run"
    BY <1>2, <1>3, <1>7, <2>2, <2>3 DEF CeilInv
  <2>4. CASE pc'[t] = "run"
    <3>1. TargetCap(t)
      <4>1. TargetLock(t) => pc'[t] # "run"
        BY ReturnOutsideMutex
           DEF TargetLock, Return, Goto, InMutex, TypeInv, TypeOK
      <4>2. TargetFloor(t) => pc'[t] # "run"
        BY DEF TargetFloor, Goto, TypeInv, TypeOK
      <4>. QED
        BY <1>8, <2>4, <4>1, <4>2
    <3>2. /\ call'[t].stage = 1 /\ call'[t].op = call[t].op
          /\ call'[t].new = Capped(t) /\ call'[t].torn = Torn(t)
      BY <1>6, <3>1 DEF TargetCap, Calls, TypeInv, TypeOK
    <3>3. SetAt(call'[t].op) = 4 /\ call'[t].op \in TargetOps
          /\ call'[t].op # "limit"
      BY <2>1, <3>2 DEF SetAt, TargetOps, LockOps
    <3>4. limit_level <= Capped(t) /\ Capped(t) \in Levels /\ limit_level \in Levels
      BY <1>6, LevelsAssumption DEF Capped, Calls, Levels, TypeInv, TypeOK
    <3>5. ASSUME ~Torn(t), NEW l \in AllCeilings PROVE l <= Capped(t)
      <4>1. \A d \in Ids : limit_val[d] <= limit_level
        BY <3>5 DEF Torn, RequestsInv, RequestsCovered
      <4>2. l \in Levels /\ l <= limit_level
        BY <3>4, <4>1, LevelsAssumption
           DEF AllCeilings, Ceilings, Levels, TypeInv, TypeOK
      <4>. QED
        BY <3>4, <4>2, LevelsAssumption DEF Levels
    <3>6. \A l \in AllCeilings' : call'[t].torn \/ l <= call'[t].new
      BY <1>5, <3>2, <3>5
    <3>7. CeilInTransition(t)'
      BY <1>7, <2>2, <3>2, <3>3, <3>6 DEF CeilInTransition
    <3>. QED
      BY <1>2, <1>3, <2>4, <3>7 DEF CeilInv
  <2>. QED
    BY <2>3, <2>4
<1>9. CASE LockRaise(t) \/ LimitCap(t)
  <2>1. /\ pc[t] \in {"want_raise", "want_cap"}
        /\ pc[t] = "want_raise" => call[t].op # "limit" /\ LockRaise(t)
        /\ call[t].op \in LockOps \cup {"limit"}
    BY <1>9 DEF LockRaise, LimitCap, OpsInv, OpsOk, LockOps
  <2>2. ASSUME NEW old \in LevelsOfFreq(policy.cur), Goto(t, "run"),
               call' = [call EXCEPT ![t].old = old, ![t].new = call[t].level]
        PROVE  CeilInv'
    <3>1. /\ pc'[t] = "run" /\ call'[t].stage = 1 /\ call'[t].op = call[t].op
          /\ call'[t].new = call'[t].level /\ call'[t].level = call[t].level
      BY <1>6, <2>2 DEF Goto, Calls, TypeInv, TypeOK
    <3>2. \A l : PendingAt(l) => PendingAt(l)'
      BY <1>2, <3>1 DEF PendingAt
    <3>3. call'[t].op \notin TargetOps /\ SetAt(call'[t].op) \in 3 .. 5
      BY <2>1, <3>1 DEF SetAt, TargetOps, LockOps
    <3>4. CeilInTransition(t)'
      BY <1>1, <1>7, <2>2, <3>1, <3>2, <3>3 DEF CeilInTransition, LevelsOfFreq
    <3>. QED
      BY <1>2, <1>3, <3>1, <3>4 DEF CeilInv
  <2>3. ASSUME Return(t, ReturnPc(call[t].op)) \/ Return(t, ErrorPc(call[t].op)),
               \/ pc[t] = "want_raise"
               \/ policy.cur <= Freq[call[t].level]
               \/ LevelsOfFreq(policy.cur) = {}
        PROVE  CeilInv'
    <3>1. pc'[t] # "run"
      BY <2>3, ReturnOutsideMutex DEF Return, Goto, InMutex, TypeInv, TypeOK
    <3>2. ASSUME NEW l \in AllCeilings PROVE HeldTo(l, policy.cur)'
      <4>1. CASE LevelsOfFreq(policy.cur) = {}
        BY <1>1, <1>4, <4>1 DEF OnTable, HeldTo, Passed
      <4>2. CASE PendingAt(l) /\ ~PendingAt(l)' /\ LevelsOfFreq(policy.cur) # {}
        <5>1. call[t].op = "limit" /\ l <= call[t].level
          BY <1>2, <4>2 DEF PendingAt
        <5>2. policy.cur <= Freq[call[t].level]
          BY <2>1, <2>3, <4>2, <5>1
        <5>3. l \in Levels /\ call[t].level \in Levels
          BY <1>6, LevelsAssumption
             DEF AllCeilings, Ceilings, Calls, Levels, TypeInv, TypeOK
        <5>4. Freq[call[t].level] <= Freq[l]
          BY <5>1, <5>3, LevelsSlower
        <5>. QED
          BY <1>1, <5>2, <5>3, <5>4, LevelFreqs DEF HeldTo, TypeInv, TypeOK
      <4>3. CASE ~PendingAt(l) \/ PendingAt(l)'
        BY <1>1, <1>4, <4>3 DEF HeldTo, Passed
      <4>. QED
        BY <4>1, <4>2, <4>3
    <3>. QED
      BY <1>1, <1>2, <1>3, <1>4, <1>5, <3>1, <3>2 DEF CeilInv, OnTable
  <2>4. CASE BeginRequest(t)
    BY <2>2, <2>3, <2>4 DEF BeginRequest
  <2>5. CASE /\ Return(t, ReturnPc(call[t].op))
             /\ pc[t] = "want_raise" \/ ~AboveCeiling(t)
    <3>1. policy.cur \in Nat /\ Freq[call[t].level] \in Nat
      BY <1>6, LevelFreqs DEF Calls, TypeInv, TypeOK
    <3>. QED
      BY <2>3, <2>5, <3>1 DEF AboveCeiling
  <2>. QED
    BY <1>9, <2>4, <2>5 DEF LockRaise, LimitCap
<1>. QED
  BY <1>8, <1>9

(* A stage ends: either the next one begins or the transition is over      *)
LEMMA CeilStageEnd ==
  ASSUME TypeInv, ClockInv, CeilInv, NEW t \in Threads, pc[t] = "run",
         Proceed(t), UNCHANGED requests,
         call[t].stage < 6 /\ call' = [call EXCEPT ![t].stage = @ + 1]
           /\ UNCHANGED pc => CeilInTransition(t)',
         call[t].stage = 6 => UNCHANGED mover /\ policy'.cur = freqs.new
  PROVE  CeilInv'
<1>1. /\ call[t] \in Calls /\ set_freq_lock = t /\ InTransition(t)
      /\ CeilInTransition(t) /\ SetAt(call[t].op) \in 3 .. 5
  BY StageNumbers DEF ClockInv, CeilInv, InMutex, TypeInv, TypeOK
<1>2. \A u \in Threads : u # t =>
        pc[u] # "run" /\ pc'[u] = pc[u] /\ call'[u] = call[u]
  BY <1>1 DEF ClockInv, InMutex, Proceed, Return, Goto, TypeInv, TypeOK
<1>3. CASE call[t].stage = LastStage
  <2>1. pc'[t] # "run" /\ UNCHANGED mover /\ policy'.cur = freqs.new
    BY <1>3, ReturnOutsideMutex
       DEF Proceed, Return, Goto, InMutex, LastStage, TypeInv, TypeOK
  <2>2. /\ call[t].new \in Levels /\ freqs.new = Freq[call[t].new]
        /\ call[t].op = "limit" => call[t].new = call[t].level
    BY <1>1 DEF InTransition, CeilInTransition, Calls
  <2>3. LevelsOfFreq(freqs.new) # {}
    BY <2>2 DEF LevelsOfFreq
  <2>4. ASSUME NEW l \in AllCeilings
        PROVE  Passed(freqs.new) \/ PendingAt(l)' \/ freqs.new <= Freq[l]
    <3>1. HeldTo(l, freqs.new)
      BY <1>1, <1>3 DEF CeilInTransition, LastStage
    <3>2. CASE PendingAt(l) /\ ~PendingAt(l)'
      <4>1. l \in Levels /\ l <= call[t].new
        BY <1>2, <2>2, <3>2, LevelsAssumption
           DEF PendingAt, AllCeilings, Ceilings, Levels, TypeInv, TypeOK
      <4>. QED
        BY <2>2, <4>1, LevelsSlower
    <3>. QED
      BY <3>1, <3>2 DEF HeldTo
  <2>5. AllCeilings' = AllCeilings
    BY DEF AllCeilings, Ceilings, requests
  <2>6. OnTable(policy.cur)' /\ \A l \in AllCeilings' : HeldTo(l, policy.cur)'
    BY <2>1, <2>3, <2>4, <2>5 DEF OnTable, HeldTo, Passed
  <2>. QED
    BY <1>2, <2>1, <2>6 DEF CeilInv
<1>4. CASE call[t].stage # LastStage
  <2>1. call' = [call EXCEPT ![t].stage = @ + 1] /\ UNCHANGED pc
        /\ call[t].stage < 6
    BY <1>1, <1>4 DEF Proceed, Calls, LastStage
  <2>. QED
    BY <1>2, <2>1 DEF CeilInv
<1>. QED
  BY <1>3, <1>4

LEMMA CeilStageSteps ==
  ASSUME TypeInv, ClockInv, OpsInv, VoltInv, CeilInv, NEW t \in Threads,
         \/ PreChange(t) \/ RaiseVolt(t) \/ SettleVolt(t) \/ SafeVolt(t)
         \/ ArmVolt(t) \/ Relock(t) \/ SetFreq(t) \/ PostChange(t)
  PROVE  CeilInv'
<1>. DEFINE s == call[t].stage
            S == SetAt(call[t].op)
            new == call[t].new
            cur == policy.cur
            NextStage == /\ call' = [call EXCEPT ![t].stage = @ + 1]
                     /\ UNCHANGED pc
<1>1. /\ pc[t] = "run" /\ Proceed(t) /\ UNCHANGED requests
      /\ InTransition(t) /\ VoltInTransition(t) /\ CeilInTransition(t)
      /\ call[t] \in Calls
      /\ call[t].op \in TargetOps \cup LockOps \cup {"limit"}
  BY DEF PreChange, RaiseVolt, SettleVolt, SafeVolt, ArmVolt, Relock, SetFreq,
         PostChange, At, ClockInv, VoltInv, CeilInv, OpsInv, OpsOk, TypeInv,
         TypeOK
<1>2. /\ s \in 1 .. 6 /\ S \in 3 .. 5
      /\ PostAt(call[t].op) \in 5 .. 6 /\ S < PostAt(call[t].op)
  BY <1>1, StageNumbers DEF Calls, LastStage
<1>3. /\ AllCeilings' = AllCeilings /\ AllCeilings \in SUBSET Levels
      /\ new \in Levels /\ freqs.new = Freq[new] /\ Freq[new] \in Nat
      /\ cur \in Nat
  BY <1>1, LevelFreqs, LevelsAssumption
     DEF AllCeilings, Ceilings, requests, InTransition, Calls, Levels, TypeInv,
         TypeOK
<1>4. /\ call[t].op = "limit" => new = call[t].level
      /\ s <= S =>
           /\ OnTable(cur)
           /\ \A l \in AllCeilings : HeldTo(l, cur)
           /\ call[t].op \in TargetOps =>
                \A l \in AllCeilings : call[t].torn \/ PendingAt(l) \/ l <= new
           /\ call[t].op \notin TargetOps => LevelsOfFreq(cur) # {}
      /\ S < s => \A l \in AllCeilings : HeldTo(l, freqs.new)
  BY <1>1 DEF CeilInTransition
<1>5. ASSUME NextStage
      PROVE  /\ call'[t].stage = s + 1 /\ call'[t].op = call[t].op
             /\ call'[t].new = new /\ call'[t].level = call[t].level
             /\ call'[t].torn = call[t].torn
             /\ SetAt(call'[t].op) = S
             /\ \A l : PendingAt(l)' <=> PendingAt(l)
  <2>1. /\ call'[t].stage = s + 1 /\ call'[t].op = call[t].op
        /\ call'[t].new = new /\ call'[t].level = call[t].level
        /\ call'[t].torn = call[t].torn
        /\ \A u \in Threads : u # t => call'[u] = call[u]
    BY <1>1, <1>5 DEF Calls, TypeInv, TypeOK
  <2>. QED
    BY <1>5, <2>1 DEF PendingAt
<1>6. CASE ~SetFreq(t) /\ ~PostChange(t)
  <2>1. /\ UNCHANGED <<policy, mover>> /\ freqs'.new = freqs.new
        /\ s # S /\ s # PostAt(call[t].op)
    BY <1>1, <1>6, <1>2, StageNumbers
       DEF PreChange, RaiseVolt, SettleVolt, SafeVolt, ArmVolt, Relock, hardware,
           TypeInv, TypeOK
  <2>2. ASSUME NextStage PROVE CeilInTransition(t)'
    <3>1. ASSUME NEW l, NEW f
          PROVE  Passed(f) \/ PendingAt(l) \/ f <= Freq[l]
                   => Passed(f) \/ PendingAt(l)' \/ f <= Freq[l]
      BY <1>5, <2>2
    <3>. QED
      BY <1>2, <1>3, <1>4, <1>5, <2>1, <2>2, <3>1
         DEF CeilInTransition, OnTable, HeldTo, Passed
  <2>3. s = 6 => policy'.cur = freqs.new
    BY <1>1, <1>2, <2>1 DEF InTransition
  <2>. QED
    BY <1>1, <2>1, <2>2, <2>3, CeilStageEnd
<1>7. CASE SetFreq(t)
  <2>1. s = S /\ UNCHANGED <<freqs, policy>>
        /\ mover' = IF ClockMoves(t) THEN Mover(t) ELSE mover
    BY <1>1, <1>7, StageNumbers DEF SetFreq
  <2>2. ASSUME NEW l \in AllCeilings
        PROVE  Passed(freqs.new)' \/ PendingAt(l) \/ freqs.new <= Freq[l]
    <3>1. HeldTo(l, cur) /\ Freq[l] \in Nat
      BY <1>2, <1>3, <1>4, <2>1, LevelFreqs
    <3>2. CASE ~ClockMoves(t)
      <4>1. freqs.new = cur
        BY <1>1, <1>2, <2>1, <3>2 DEF ClockMoves, InTransition
      <4>. QED
        BY <2>1, <3>1, <3>2, <4>1 DEF HeldTo, Passed
    <3>3. CASE ClockMoves(t) /\ call[t].torn
      BY <2>1, <3>3 DEF Mover, Passed
    <3>4. CASE ClockMoves(t) /\ ~call[t].torn /\ call[t].op \in TargetOps
      <4>1. PendingAt(l) \/ l <= new
        BY <1>2, <1>4, <2>1, <3>4
      <4>. QED
        BY <1>3, <4>1, LevelsSlower
    <3>5. CASE ClockMoves(t) /\ ~call[t].torn /\ call[t].op \notin TargetOps
      <4>1. mover' = IF mover \in LockOps \cup {"resume", "torn"}
                     THEN mover ELSE call[t].op
        BY <2>1, <3>5 DEF Mover, TargetOps
      <4>2. CASE mover' \in LockOps \cup {"resume", "torn"}
        BY <4>2 DEF Passed
      <4>3. CASE mover' \notin LockOps \cup {"resume", "torn"}
        <5>1. call[t].op = "limit" /\ ~Passed(cur)
          BY <1>1, <1>2, <1>4, <2>1, <3>5, <4>1, <4>3 DEF Passed
        <5>2. freqs.new < cur
          BY <1>1, <1>2, <2>1, <5>1 DEF VoltInTransition
        <5>. QED
          BY <1>3, <3>1, <5>1, <5>2 DEF HeldTo
      <4>. QED
        BY <4>2, <4>3
    <3>. QED
      BY <3>2, <3>3, <3>4, <3>5
  <2>3. ASSUME NextStage PROVE CeilInTransition(t)'
    <3>1. \A l \in AllCeilings' : HeldTo(l, freqs.new)'
      BY <1>3, <1>5, <2>1, <2>2, <2>3 DEF HeldTo, Passed
    <3>. QED
      BY <1>2, <1>4, <1>5, <2>1, <2>3, <3>1 DEF CeilInTransition
  <2>. QED
    BY <1>1, <1>2, <2>1, <2>3, CeilStageEnd
<1>8. CASE PostChange(t)
  <2>1. /\ s = PostAt(call[t].op) /\ UNCHANGED <<freqs, mover>>
        /\ policy'.cur = freqs.new
    BY <1>1, <1>8, StageNumbers DEF PostChange, hardware, TypeInv, TypeOK
  <2>2. ASSUME NextStage PROVE CeilInTransition(t)'
    <3>1. \A l \in AllCeilings' : HeldTo(l, freqs.new)'
      BY <1>2, <1>3, <1>4, <1>5, <2>1, <2>2 DEF HeldTo, Passed
    <3>. QED
      BY <1>2, <1>4, <1>5, <2>1, <2>2, <3>1 DEF CeilInTransition
  <2>. QED
    BY <1>1, <2>1, <2>2, CeilStageEnd
<1>. QED
  BY <1>6, <1>7, <1>8

LEMMA CeilInvNext ==
  ASSUME TypeInv, RequestsInv, ClockInv, OpsInv, VoltInv, CeilInv, [Next]_vars
  PROVE  CeilInv'
<1>1. CASE PolicyAdjust \/ PolicyBounds \/ UNCHANGED vars
  <2>1. policy'.cur = policy.cur
        /\ UNCHANGED <<freqs, mover, pc, call, limit_val, limit_level>>
    BY <1>1 DEF PolicyAdjust, PolicyBounds, vars, requests, TypeInv, TypeOK
  <2>2. AllCeilings' = AllCeilings /\ \A l : PendingAt(l) => PendingAt(l)'
    BY <2>1 DEF AllCeilings, Ceilings, PendingAt
  <2>. QED
    BY <2>1, <2>2, CeilKept
<1>2. ASSUME NEW t \in Threads, OtherStep(t) PROVE CeilInv'
  <2>1. /\ policy'.cur = policy.cur /\ UNCHANGED <<freqs, mover>>
        /\ pc[t] # "run" /\ pc'[t] # "run"
        /\ \A u \in Threads : u # t => pc'[u] = pc[u] /\ call'[u] = call[u]
    BY <1>2, OtherStepsFacts DEF InMutex
  <2>. QED
    BY <1>2, <2>1, CeilingChanges, CeilKept
<1>3. ASSUME NEW t \in Threads, Start(t) \/ Acquire(t) \/ Continue(t)
      PROVE  CeilInv'
  BY <1>2, <1>3, CeilBegin, CeilStageSteps DEF OtherStep, Acquire, Continue
<1>. QED
  BY <1>1, <1>3 DEF Next

(* With governors that respect floors, between transitions and ceiling      *)
(* requests the clock passes the ceiling in force only since a floor, since *)
(* exynos_target read half-updated levels, or since boot: no interleaving   *)
(* of requests, *_free calls and targets loses a ceiling.                   *)
THEOREM CeilingsHold ==
  ASSUME TRUE \notin LevelLockOff
  PROVE  Spec => []OnlyLocksPassLimit
<1>1. TypeInv /\ RequestsInv /\ ClockInv /\ OpsInv /\ VoltInv /\ CeilInv
        /\ [Next]_vars => CeilInv'
  BY CeilInvNext
<1>2. TypeInv /\ ClockInv /\ CeilInv => OnlyLocksPassLimit
  <2>. SUFFICES ASSUME TypeInv, ClockInv, CeilInv, set_freq_lock = NoThread,
                       ~LimitPending
                PROVE  \/ clk <= Freq[limit_level]
                       \/ mover \in LockOps \cup {"resume", "torn", "boot"}
    BY DEF OnlyLocksPassLimit
  <2>1. \A t \in Threads : pc[t] # "run"
    BY ThreadsAssumption DEF ClockInv, InMutex
  <2>2. HeldTo(limit_level, clk)
    BY <2>1 DEF ClockInv, CeilInv, AllCeilings
  <2>3. ~PendingAt(limit_level)
    BY DEF LimitPending, PendingAt
  <2>. QED
    BY <2>2, <2>3 DEF HeldTo, Passed
<1>. QED
  BY <1>1, <1>2, ClockInvariants, VoltInvariant, CeilInvInit, PTL DEF Spec

-----------------------------------------------------------------------------
(* The PM floor                                                            *)

(* The power management thread is alone, and no client asks with its id    *)
PmCalls(t) ==
  /\ call[t].op \in {"suspend", "reboot"}
     /\ pc[t] \in {"record", "recorded", "want_raise", "run"}
       => t \in PmThreads /\ call[t].id = PmId /\ call[t].level = PmLockIdx
  /\ call[t].op = "lock" /\ pc[t] = "record" => call[t].id # PmId
  /\ pc[t] \in {"bad", "prepared", "suspended"} => t \in PmThreads
  /\ call[t].op = "limit" /\ pc[t] \in {"record", "want_cap", "run"}
       => call[t].level <= PmLockIdx
  /\ call[t].op \in LockOps \cup {"limit"} /\ pc[t] = "run"
       => call[t].new = call[t].level

(* Its floor is recorded until PM_POST_SUSPEND ...                         *)
HoldsPmFloor(t) ==
  \/ pc[t] \in {"prepared", "suspended"}
  \/ call[t].op = "suspend" /\ pc[t] \in {"recorded", "want_raise", "run"}

(* ... and applied once the transition it asks for, if any, has set the     *)
(* clock.                                                                   *)
PmFloorApplied ==
  \E t \in Threads :
    \/ pc[t] \in {"prepared", "suspended"}
    \/ /\ call[t].op = "suspend" /\ pc[t] = "run"
       /\ SetAt("suspend") < call[t].stage

AtPmFloor(f) == mover = "torn" \/ f >= Freq[PmLockIdx]

ChosenAtPmFloor(t) == call[t].torn \/ call[t].new <= PmLockIdx

SleepInTransition(t) ==
  LET s == call[t].stage
      S == SetAt(call[t].op)
  IN  /\ s <= S => /\ AtPmFloor(policy.cur)
                   /\ call[t].op \in TargetOps => ChosenAtPmFloor(t)
      /\ S < s => AtPmFloor(freqs.new)

PmInv ==
  /\ \A t \in Threads : PmCalls(t)
  /\ \A t \in Threads : HoldsPmFloor(t) => lock_val[PmId] = PmLockIdx
  /\ limit_level <= PmLockIdx /\ \A d \in Ids : limit_val[d] <= PmLockIdx

SleepInv ==
  PmFloorApplied =>
    /\ (\A t \in Threads : pc[t] # "run") => AtPmFloor(policy.cur)
    /\ \A t \in Threads : pc[t] = "run" => SleepInTransition(t)
    /\ \A t \in Threads : pc[t] = "cap" => ChosenAtPmFloor(t)

(* No ceiling is asked for that is below the PM floor                      *)
CeilingsAbovePm ==
  \A c \in Clients : LimitIds[c] # {} => \A l \in ReqLevels : l <= PmLockIdx

LEMMA PmInvInit == Init => PmInv
<1>. SUFFICES ASSUME Init PROVE PmInv
  OBVIOUS
<1>1. MaxIdx <= PmLockIdx
  BY RequestsAssumption, LevelsAssumption DEF Levels
<1>2. \A t \in Threads : pc[t] = "idle"
  BY DEF Init
<1>3. limit_level = MaxIdx /\ \A d \in Ids : limit_val[d] = MaxIdx
  BY DEF Init
<1>. QED
  BY <1>1, <1>2, <1>3 DEF PmInv, PmCalls, HoldsPmFloor

(* The ceilings in force and recorded are not below the PM floor           *)
LEMMA CeilingsStayAbove ==
  ASSUME TypeInv, RequestsInv, PmInv, NEW t \in Threads,
         Start(t) \/ Acquire(t) \/ Continue(t)
  PROVE  limit_level' <= PmLockIdx /\ \A d \in Ids : limit_val'[d] <= PmLockIdx
<1>1. limit_level <= PmLockIdx /\ \A d \in Ids : limit_val[d] <= PmLockIdx
  BY DEF PmInv
<1>2. MaxIdx <= PmLockIdx
  BY RequestsAssumption, LevelsAssumption DEF Levels
<1>3. CASE LimitRecord(t)
  <2>1. call[t].level <= PmLockIdx
    BY <1>3 DEF LimitRecord, PmInv, PmCalls
  <2>. QED
    BY <1>1, <1>3, <2>1 DEF LimitRecord, TypeInv, TypeOK
<1>4. CASE LimitFreeReset(t)
  BY <1>1, <1>2, <1>4 DEF LimitFreeReset, Freed, TypeInv, TypeOK
<1>5. CASE LimitScan(t)
  BY <1>1, <1>5 DEF LimitScan
<1>6. CASE LimitRecompute(t)
  <2>1. limit_val' = limit_val /\ limit_level' \in Ceilings
    BY <1>6, RecomputedExact, CeilingsFacts DEF LimitRecompute, RequestsInv
  <2>. QED
    BY <1>1, <1>2, <2>1 DEF Ceilings
<1>7. CASE ~(\/ LimitRecord(t) \/ LimitFreeReset(t) \/ LimitScan(t)
             \/ LimitRecompute(t))
  <2>1. UNCHANGED <<limit_val, limit_level>>
    <3>1. Start(t) => UNCHANGED <<limit_val, limit_level>>
      BY <1>7 DEF Start, TargetCall, FixCall, Unfix, ClientLock, ClientLockFree,
         ClientLimit, SuspendPrepare, PostSuspend, Reboot, LockCall,
         LockFreeReset, requests
    <3>2. Acquire(t) => UNCHANGED <<limit_val, limit_level>>
      BY <1>7 DEF Acquire, TargetLock, LockRecord, LockRaise, LimitCap,
         PostSuspend, LockFreeReset, PostSuspendRestore, requests
    <3>3. Continue(t) => UNCHANGED <<limit_val, limit_level>>
      BY <1>7 DEF Continue, TargetFloor, TargetCap, FixDisable, PreChange,
         RaiseVolt, SettleVolt, SafeVolt, ArmVolt, Relock, SetFreq, PostChange,
         LockCheck, LockScan, LockRecompute, SuspendDisable, PostSuspendEnable,
         requests
    <3>. QED
      BY <3>1, <3>2, <3>3
  <2>. QED
    BY <1>1, <2>1
<1>. QED
  BY <1>3, <1>4, <1>5, <1>6, <1>7

(* Only the power management thread records or frees the PM floor          *)
LEMMA PmFloorKept ==
  ASSUME TypeInv, PmInv, NEW t \in Threads, Start(t) \/ Acquire(t) \/ Continue(t)
  PROVE  \/ lock_val'[PmId] = lock_val[PmId]
         \/ lock_val'[PmId] = PmLockIdx
         \/ t \in PmThreads /\ pc'[t] = "recompute" /\ call'[t].op = "resume"
<1>1. CASE LockRecord(t)
  <2>1. call[t].id = PmId => call[t].level = PmLockIdx
    BY <1>1 DEF LockRecord, PmInv, PmCalls, LockOps
  <2>2. lock_val' = [lock_val EXCEPT ![call[t].id] = call[t].level]
    BY <1>1 DEF LockRecord
  <2>. QED
    BY <2>1, <2>2, IdsAssumption DEF TypeInv, TypeOK
<1>2. CASE ClientLockFree(t)
  <2>1. PICK id \in LockIds[t] : LockFreeReset(t, "lock_free", id)
    BY <1>2 DEF ClientLockFree
  <2>2. id # PmId /\ lock_val' = [lock_val EXCEPT ![id] = MinIdx]
    BY <1>2, <2>1, IdsAssumption DEF ClientLockFree, LockFreeReset, Freed
  <2>. QED
    BY <2>2, IdsAssumption DEF TypeInv, TypeOK
<1>3. CASE PostSuspend(t, "suspended") \/ PostSuspend(t, "bad")
  <2>1. t \in PmThreads
    BY <1>3 DEF PostSuspend, PmInv, PmCalls
  <2>2. /\ pc' = [pc EXCEPT ![t] = "recompute"]
        /\ call' = [call EXCEPT ![t] =
                      [NoCall EXCEPT !.op = "resume", !.id = PmId]]
    BY <1>3 DEF PostSuspend, LockFreeReset, Goto
  <2>3. [NoCall EXCEPT !.op = "resume", !.id = PmId].op = "resume"
    BY DEF NoCall
  <2>. QED
    BY <2>1, <2>2, <2>3 DEF TypeInv, TypeOK
<1>4. CASE ~(\/ LockRecord(t) \/ ClientLockFree(t) \/ PostSuspend(t, "suspended")
             \/ PostSuspend(t, "bad"))
  <2>1. Start(t) => UNCHANGED lock_val
    BY <1>4 DEF Start, TargetCall, FixCall, Unfix, ClientLock, ClientLimit,
       LimitFreeReset, SuspendPrepare, Reboot, LockCall, requests
  <2>2. Acquire(t) => UNCHANGED lock_val
    BY <1>4 DEF Acquire, TargetLock, LimitRecord, LockRaise, LimitCap,
       PostSuspendRestore, requests
  <2>3. Continue(t) => UNCHANGED lock_val
    BY <1>4 DEF Continue, TargetFloor, TargetCap, FixDisable, PreChange,
       RaiseVolt, SettleVolt, SafeVolt, ArmVolt, Relock, SetFreq, PostChange,
       LockCheck, LockScan, LockRecompute, LimitScan, LimitRecompute,
       SuspendDisable, PostSuspendEnable, requests
  <2>. QED
    BY <2>1, <2>2, <2>3
<1>. QED
  BY <1>1, <1>2, <1>3, <1>4

(* A thread that returns holds the PM floor only if it has suspended       *)
LEMMA PmReturn ==
  ASSUME TypeInv, NEW t \in Threads, NEW p, Return(t, p),
         p \in {"idle", "fixing", "enable", "thaw", "halted"}
  PROVE  PmCalls(t)' /\ ~HoldsPmFloor(t)'
<1>1. call'[t].op = "none" /\ pc'[t] = p
  BY DEF Return, Goto, NoCall, TypeInv, TypeOK
<1>. QED
  BY <1>1 DEF PmCalls, HoldsPmFloor, LockOps

LEMMA PmReturnSuspend ==
  ASSUME TypeInv, NEW t \in PmThreads, NEW p \in {"prepared", "bad"},
         Return(t, p)
  PROVE  PmCalls(t)'
<1>1. call'[t].op = "none" /\ pc'[t] = p /\ t \in Threads
  BY DEF Return, Goto, NoCall, TypeInv, TypeOK, Threads
<1>. QED
  BY <1>1 DEF PmCalls, LockOps

(* What the thread that takes a step knows of its own call                 *)
LEMMA PmOwnCall ==
  ASSUME TypeInv, ClockInv, OpsInv, PmInv, NEW t \in Threads,
         Start(t) \/ Acquire(t) \/ Continue(t),
         CeilingsAbovePm
  PROVE  /\ PmCalls(t)'
         /\ HoldsPmFloor(t)' => HoldsPmFloor(t) \/ lock_val'[PmId] = PmLockIdx
<1>1. PmCalls(t) /\ OpsOk(t) /\ call[t] \in Calls /\ lock_disable = FALSE
  BY DEF PmInv, OpsInv, ClockInv, TypeInv, TypeOK
<1>2. CASE TargetCall(t) \/ FixCall(t)
  <2>1. \E op \in TargetOps : \E f, r : call' = [call EXCEPT ![t] =
          [NoCall EXCEPT !.op = op, !.target = f, !.rel = r]]
    BY <1>2 DEF TargetCall, FixCall, TargetOps
  <2>2. call'[t].op \in TargetOps
    BY <2>1 DEF NoCall, TypeInv, TypeOK
  <2>3. pc'[t] = "want_freq"
    BY <1>2 DEF TargetCall, FixCall, Goto, TypeInv, TypeOK
  <2>. QED
    BY <2>2, <2>3 DEF PmCalls, HoldsPmFloor, TargetOps, LockOps
<1>3. ASSUME NEW op, NEW id, NEW level, pc'[t] = "record",
             call' = [call EXCEPT ![t] =
               [NoCall EXCEPT !.op = op, !.id = id, !.level = level]],
             \/ op \in {"suspend", "reboot"} /\ t \in PmThreads /\ id = PmId
                /\ level = PmLockIdx
             \/ op = "lock" /\ id # PmId
             \/ op = "limit" /\ level <= PmLockIdx
      PROVE  /\ PmCalls(t)'
             /\ HoldsPmFloor(t)' => HoldsPmFloor(t) \/ lock_val'[PmId] = PmLockIdx
  <2>1. call'[t].op = op /\ call'[t].id = id /\ call'[t].level = level
    BY <1>3 DEF NoCall, TypeInv, TypeOK
  <2>. QED
    BY <1>3, <2>1 DEF PmCalls, HoldsPmFloor
<1>4. CASE ClientLock(t) \/ ClientLimit(t) \/ Reboot(t)
           \/ (SuspendPrepare(t) /\ pc'[t] = "record")
  <2>1. CASE ClientLock(t)
    <3>1. PICK id \in LockIds[t], l \in ReqLevels : LockCall(t, "lock", id, l)
      BY <2>1 DEF ClientLock
    <3>2. id # PmId
      BY <2>1, IdsAssumption DEF ClientLock
    <3>. QED
      BY <1>3, <3>1, <3>2 DEF LockCall, Goto, TypeInv, TypeOK
  <2>2. CASE ClientLimit(t)
    <3>1. PICK id \in LimitIds[t] \ limit_id, l \in ReqLevels :
            call' = [call EXCEPT ![t] =
                       [NoCall EXCEPT !.op = "limit", !.id = id, !.level = l]]
      BY <2>2 DEF ClientLimit
    <3>2. t \in Clients /\ pc'[t] = "record"
      BY <2>2 DEF ClientLimit, Goto, TypeInv, TypeOK
    <3>3. l <= PmLockIdx
      BY <3>1, <3>2 DEF CeilingsAbovePm
    <3>. QED
      BY <1>3, <3>1, <3>2, <3>3
  <2>3. CASE Reboot(t)
    BY <1>3, <2>3 DEF Reboot, LockCall, Goto, TypeInv, TypeOK
  <2>4. CASE SuspendPrepare(t) /\ pc'[t] = "record"
    <3>1. t \in PmThreads /\ LockCall(t, "suspend", PmId, PmLockIdx)
      BY <2>4 DEF SuspendPrepare, Goto, TypeInv, TypeOK
    <3>. QED
      BY <1>3, <2>4, <3>1 DEF LockCall
  <2>. QED
    BY <1>4, <2>1, <2>2, <2>3, <2>4
<1>5. CASE SuspendPrepare(t) /\ pc'[t] # "record"
  <2>1. t \in PmThreads /\ pc'[t] = "bad"
    BY <1>5 DEF SuspendPrepare, LockCall, Goto, TypeInv, TypeOK
  <2>. QED
    BY <2>1 DEF PmCalls, HoldsPmFloor
<1>6. CASE Unfix(t) \/ LockScan(t) \/ LimitScan(t)
  <2>1. UNCHANGED <<pc, call>>
    BY <1>6 DEF Unfix, LockScan, LimitScan
  <2>. QED
    BY <1>1, <2>1 DEF PmCalls, HoldsPmFloor
<1>7. CASE \/ ClientLockFree(t) \/ LimitFreeReset(t)
           \/ PostSuspend(t, "suspended") \/ PostSuspend(t, "bad")
  <2>1. pc'[t] = "recompute"
    BY <1>7 DEF ClientLockFree, LimitFreeReset, PostSuspend, LockFreeReset, Goto,
                TypeInv, TypeOK
  <2>. QED
    BY <2>1 DEF PmCalls, HoldsPmFloor
<1>8. CASE TargetLock(t) \/ TargetFloor(t) \/ TargetCap(t)
  <2>1. call[t].op \in TargetOps
    BY <1>8 DEF TargetLock, TargetFloor, TargetCap, ClockInv, LookUpPcs, TargetOps
  <2>2. CASE Return(t, ReturnPc(call[t].op))
    <3>1. ReturnPc(call[t].op) \in {"idle", "fixing"}
      BY <2>1 DEF ReturnPc, TargetOps
    <3>. QED
      BY <2>2, <3>1, PmReturn
  <2>3. CASE ~Return(t, ReturnPc(call[t].op))
    <3>1. call'[t].op = call[t].op /\ pc'[t] \in {"floor", "cap", "run"}
      BY <1>1, <1>8, <2>3 DEF TargetLock, TargetFloor, TargetCap, Goto, Calls,
                              TypeInv, TypeOK
    <3>. QED
      BY <2>1, <3>1 DEF PmCalls, HoldsPmFloor, TargetOps, LockOps
  <2>. QED
    BY <2>2, <2>3
<1>9. CASE LockRecord(t)
  <2>1. pc'[t] = "recorded" /\ UNCHANGED call /\ pc[t] = "record"
        /\ call[t].op # "limit"
    BY <1>9 DEF LockRecord, LockOps, Goto, TypeInv, TypeOK
  <2>2. call[t].op = "suspend" => lock_val'[PmId] = PmLockIdx
    BY <1>1, <1>9, <2>1, IdsAssumption DEF LockRecord, PmCalls, TypeInv, TypeOK
  <2>. QED
    BY <1>1, <2>1, <2>2 DEF PmCalls, HoldsPmFloor
<1>10. CASE LimitRecord(t)
  BY <1>1, <1>10 DEF LimitRecord, PmCalls, HoldsPmFloor, Goto, TypeInv, TypeOK
<1>11. CASE LockRaise(t) \/ LimitCap(t) \/ LockCheck(t)
  <2>1. /\ pc[t] \in {"recorded", "want_raise", "want_cap"}
        /\ call[t].op \in LockOps \cup {"limit"}
        /\ call[t].op = "limit" <=> pc[t] = "want_cap"
    BY <1>1, <1>11 DEF LockRaise, LimitCap, LockCheck, OpsOk, LockOps
  <2>2. ASSUME Return(t, ReturnPc(call[t].op)) \/ Return(t, ErrorPc(call[t].op))
        PROVE  /\ PmCalls(t)' /\ (HoldsPmFloor(t)' => HoldsPmFloor(t))
    <3>1. CASE call[t].op = "suspend"
      <4>1. t \in PmThreads /\ HoldsPmFloor(t)
        BY <1>1, <2>1, <3>1 DEF PmCalls, HoldsPmFloor
      <4>2. ReturnPc(call[t].op) = "prepared" /\ ErrorPc(call[t].op) = "bad"
        BY <3>1 DEF ReturnPc, ErrorPc
      <4>. QED
        BY <2>2, <4>1, <4>2, PmReturnSuspend
    <3>2. CASE call[t].op # "suspend"
      <4>1. ReturnPc(call[t].op) \in {"idle", "halted"}
            /\ ErrorPc(call[t].op) = ReturnPc(call[t].op)
        BY <2>1, <3>2 DEF ReturnPc, ErrorPc, LockOps
      <4>. QED
        BY <2>2, <4>1, PmReturn
    <3>. QED
      BY <3>1, <3>2
  <2>3. ASSUME NEW old, Goto(t, "run"),
               call' = [call EXCEPT ![t].old = old, ![t].new = call[t].level]
        PROVE  /\ PmCalls(t)' /\ (HoldsPmFloor(t)' => HoldsPmFloor(t))
    <3>1. /\ pc'[t] = "run" /\ call'[t].op = call[t].op /\ call'[t].id = call[t].id
          /\ call'[t].level = call[t].level /\ call'[t].new = call[t].level
      BY <1>1, <2>3 DEF Goto, Calls, TypeInv, TypeOK
    <3>. QED
      BY <1>1, <2>1, <3>1 DEF PmCalls, HoldsPmFloor
  <2>4. CASE Goto(t, "want_raise") /\ UNCHANGED call /\ pc[t] = "recorded"
    BY <1>1, <2>1, <2>4 DEF PmCalls, HoldsPmFloor, Goto, TypeInv, TypeOK
  <2>. QED
    BY <1>11, <2>2, <2>3, <2>4 DEF LockRaise, LimitCap, LockCheck, BeginRequest
<1>12. CASE \/ PostSuspendRestore(t) \/ FixDisable(t) \/ SuspendDisable(t)
            \/ PostSuspendEnable(t)
  <2>1. \/ pc'[t] \in {"enable", "idle"}
        \/ pc[t] = "prepared" /\ pc'[t] = "suspended"
    BY <1>1, <1>12 DEF PostSuspendRestore, FixDisable, SuspendDisable,
       PostSuspendEnable, Goto, TypeInv, TypeOK
  <2>. QED
    BY <1>1, <2>1 DEF PmCalls, HoldsPmFloor
<1>13. CASE LockRecompute(t) \/ LimitRecompute(t)
  <2>1. PICK p \in {"thaw", "idle"} : Return(t, p)
    BY <1>13 DEF LockRecompute, LimitRecompute
  <2>. QED
    BY <2>1, PmReturn
<1>14. CASE \/ PreChange(t) \/ RaiseVolt(t) \/ SettleVolt(t) \/ SafeVolt(t)
            \/ ArmVolt(t) \/ Relock(t) \/ SetFreq(t) \/ PostChange(t)
  <2>1. /\ Proceed(t) /\ pc[t] = "run"
        /\ call[t].op \in TargetOps \cup LockOps \cup {"limit"}
    BY <1>1, <1>14 DEF PreChange, RaiseVolt, SettleVolt, SafeVolt, ArmVolt,
       Relock, SetFreq, PostChange, At, OpsOk
  <2>2. CASE call[t].stage # LastStage
    <3>1. /\ pc'[t] = pc[t] /\ call'[t].op = call[t].op
          /\ call'[t].id = call[t].id /\ call'[t].level = call[t].level
          /\ call'[t].new = call[t].new
      BY <1>1, <2>1, <2>2 DEF Proceed, Calls, TypeInv, TypeOK
    <3>. QED
      BY <1>1, <3>1 DEF PmCalls, HoldsPmFloor
  <2>3. CASE call[t].stage = LastStage
    <3>1. Return(t, ReturnPc(call[t].op))
      BY <2>1, <2>3 DEF Proceed
    <3>2. CASE call[t].op = "suspend"
      <4>1. t \in PmThreads /\ HoldsPmFloor(t) /\ ReturnPc(call[t].op) = "prepared"
        BY <1>1, <2>1, <3>2 DEF PmCalls, HoldsPmFloor, ReturnPc
      <4>. QED
        BY <3>1, <4>1, PmReturnSuspend
    <3>3. CASE call[t].op # "suspend"
      <4>1. ReturnPc(call[t].op) \in {"idle", "fixing", "halted"}
        BY <2>1, <3>3 DEF ReturnPc, LockOps, TargetOps
      <4>. QED
        BY <3>1, <4>1, PmReturn
    <3>. QED
      BY <3>2, <3>3
  <2>. QED
    BY <2>2, <2>3
<1>. QED
  BY <1>2, <1>4, <1>5, <1>6, <1>7, <1>8, <1>9, <1>10, <1>11, <1>12, <1>13, <1>14
     DEF Start, Acquire, Continue

LEMMA PmInvNext ==
  ASSUME TypeInv, RequestsInv, ClockInv, OpsInv, PmInv, [Next]_vars,
         CeilingsAbovePm
  PROVE  PmInv'
<1>1. CASE PolicyAdjust \/ PolicyBounds \/ UNCHANGED vars
  <2>1. UNCHANGED <<pc, call, lock_val, limit_val, limit_level>>
    BY <1>1 DEF PolicyAdjust, PolicyBounds, vars, requests
  <2>. QED
    BY <2>1 DEF PmInv, PmCalls, HoldsPmFloor
<1>2. ASSUME NEW t \in Threads, Start(t) \/ Acquire(t) \/ Continue(t)
      PROVE  PmInv'
  <2>1. \A u \in Threads : u # t => pc'[u] = pc[u] /\ call'[u] = call[u]
    BY <1>2, OthersKept
  <2>2. /\ PmCalls(t)'
        /\ HoldsPmFloor(t)' => HoldsPmFloor(t) \/ lock_val'[PmId] = PmLockIdx
    BY <1>2, PmOwnCall
  <2>3. \A u \in Threads : PmCalls(u)'
    BY <2>1, <2>2 DEF PmInv, PmCalls
  <2>4. ASSUME NEW u \in Threads, HoldsPmFloor(u)'
        PROVE  lock_val'[PmId] = PmLockIdx
    <3>1. u \in PmThreads
      BY <2>3, <2>4 DEF PmCalls, HoldsPmFloor
    <3>2. CASE t \in PmThreads /\ pc'[t] = "recompute" /\ call'[t].op = "resume"
      BY <2>4, <3>1, <3>2, ThreadsAssumption DEF HoldsPmFloor
    <3>3. HoldsPmFloor(u) => lock_val[PmId] = PmLockIdx
      BY DEF PmInv
    <3>4. HoldsPmFloor(u) \/ lock_val'[PmId] = PmLockIdx
      BY <2>1, <2>2, <2>4 DEF HoldsPmFloor
    <3>. QED
      BY <1>2, <3>2, <3>3, <3>4, PmFloorKept
  <2>5. limit_level' <= PmLockIdx /\ \A d \in Ids : limit_val'[d] <= PmLockIdx
    BY <1>2, CeilingsStayAbove
  <2>. QED
    BY <2>3, <2>4, <2>5 DEF PmInv
<1>. QED
  BY <1>1, <1>2 DEF Next

(* A step that leaves the clock and the transitions alone                  *)
LEMMA SleepKept ==
  ASSUME SleepInv, PmFloorApplied' => PmFloorApplied,
         policy'.cur = policy.cur, UNCHANGED <<freqs, mover>>,
         \A u \in Threads : pc'[u] = "run" <=> pc[u] = "run",
         \A u \in Threads : pc[u] = "run" => call'[u] = call[u],
         \A u \in Threads :
           pc'[u] = "cap" => pc[u] = "cap" /\ call'[u] = call[u]
  PROVE  SleepInv'
<1>. SUFFICES ASSUME PmFloorApplied'
              PROVE  /\ (\A u \in Threads : pc'[u] # "run")
                          => AtPmFloor(policy.cur)'
                     /\ \A u \in Threads : pc'[u] = "run" => SleepInTransition(u)'
                     /\ \A u \in Threads : pc'[u] = "cap" => ChosenAtPmFloor(u)'
  BY DEF SleepInv
<1>1. (\A u \in Threads : pc'[u] # "run") => AtPmFloor(policy.cur)'
  BY DEF SleepInv, AtPmFloor
<1>2. ASSUME NEW u \in Threads, pc'[u] = "run" PROVE SleepInTransition(u)'
  <2>1. SleepInTransition(u) /\ call'[u] = call[u]
    BY <1>2 DEF SleepInv
  <2>. QED
    BY <2>1 DEF SleepInTransition, AtPmFloor, ChosenAtPmFloor
<1>3. ASSUME NEW u \in Threads, pc'[u] = "cap" PROVE ChosenAtPmFloor(u)'
  BY <1>3 DEF SleepInv, ChosenAtPmFloor
<1>. QED
  BY <1>1, <1>2, <1>3

(* Outside a transition nobody gets to sleep without the PM floor          *)
LEMMA OtherStepsSleep ==
  ASSUME TypeInv, ClockInv, OpsInv, PmInv, SleepInv, NEW t \in Threads, OtherStep(t)
  PROVE  SleepInv'
<1>1. /\ policy'.cur = policy.cur /\ UNCHANGED <<freqs, mover>>
      /\ pc[t] \notin InMutex /\ pc'[t] \notin InMutex
      /\ \A u \in Threads : u # t => pc'[u] = pc[u] /\ call'[u] = call[u]
  BY OtherStepsFacts
<1>2. ASSUME pc'[t] \in {"prepared", "suspended"}
      PROVE  pc[t] \in {"prepared", "suspended"}
  <2>1. CASE LockCheck(t)
    <3>1. PmCalls(t) /\ pc[t] = "recorded" /\ call[t].op \in LockOps
      BY <2>1 DEF LockCheck, PmInv, OpsInv, OpsOk
    <3>2. \/ pc'[t] = "want_raise"
          \/ pc'[t] = ReturnPc(call[t].op) /\ call[t].id # PmId
      <4>1. \/ Goto(t, "want_raise")
            \/ Goto(t, ReturnPc(call[t].op)) /\ call[t].id # PmId
        BY <2>1 DEF LockCheck, Return
      <4>2. CASE Goto(t, "want_raise")
        BY <4>2 DEF Goto, TypeInv, TypeOK
      <4>3. CASE Goto(t, ReturnPc(call[t].op)) /\ call[t].id # PmId
        <5>1. pc'[t] = ReturnPc(call[t].op)
          BY <4>3 DEF Goto, TypeInv, TypeOK
        <5>. QED
          BY <4>3, <5>1
      <4>. QED
        BY <4>1, <4>2, <4>3
    <3>3. call[t].op # "suspend" => ReturnPc(call[t].op) \in {"idle", "halted"}
      BY <3>1 DEF ReturnPc, LockOps
    <3>. QED
      BY <1>2, <3>1, <3>2, <3>3 DEF PmCalls
  <2>2. CASE Start(t)
    <3>1. UNCHANGED pc \/ Goto(t, "want_freq") \/ Goto(t, "record")
          \/ Goto(t, "recompute") \/ Goto(t, "bad")
      BY <2>2 DEF Start, TargetCall, FixCall, Unfix, ClientLock, ClientLockFree,
         ClientLimit, LimitFreeReset, SuspendPrepare, PostSuspend, Reboot,
         LockCall, LockFreeReset
    <3>. QED
      BY <1>2, <3>1 DEF Goto, TypeInv, TypeOK
  <2>3. CASE ~LockCheck(t) /\ ~Start(t)
    <3>1. \/ UNCHANGED pc \/ Goto(t, "recorded") \/ Goto(t, "want_cap")
          \/ Goto(t, "recompute") \/ Goto(t, "run") \/ Goto(t, "enable")
          \/ Goto(t, "idle") \/ Goto(t, "thaw") \/ pc[t] = "prepared"
      BY <2>3 DEF OtherStep, LockRecord, LimitRecord, PostSuspend, LockFreeReset,
         PostSuspendRestore, FixDisable, LockScan, LockRecompute, LimitScan,
         LimitRecompute, SuspendDisable, PostSuspendEnable, Return
    <3>. QED
      BY <1>2, <3>1 DEF Goto, TypeInv, TypeOK
  <2>. QED
    BY <2>1, <2>2, <2>3
<1>3. PmFloorApplied' => PmFloorApplied
  BY <1>1, <1>2 DEF PmFloorApplied, InMutex
<1>. QED
  BY <1>1, <1>3, SleepKept DEF InMutex

(* A level read while the PM floor is recorded is at least as fast as it   *)
LEMMA ReadsPmFloor ==
  ASSUME TypeInv, RequestsInv, ClockInv, PmInv, SleepInv, NEW t \in Threads,
         TargetFloor(t) \/ TargetCap(t), PmFloorApplied
  PROVE  ChosenAtPmFloor(t)'
<1>1. call[t] \in Calls /\ PmLockIdx \in Levels /\ lock_disable = FALSE
  BY RequestsAssumption DEF ClockInv, TypeInv, TypeOK
<1>2. lock_level \in Levels /\ limit_level \in Levels /\ limit_level <= PmLockIdx
  BY DEF PmInv, TypeInv, TypeOK
<1>3. lock_val[PmId] = PmLockIdx
  BY DEF PmFloorApplied, PmInv, HoldsPmFloor
<1>4. CASE TargetFloor(t)
  <2>1. /\ call'[t].new = IF call[t].new > lock_level THEN lock_level
                          ELSE call[t].new
        /\ call'[t].torn = Torn(t)
    BY <1>1, <1>4 DEF TargetFloor, Calls, TypeInv, TypeOK
  <2>2. ~Torn(t) => lock_level <= PmLockIdx
    BY <1>3, IdsAssumption DEF Torn, RequestsInv, RequestsCovered
  <2>. QED
    BY <1>1, <1>2, <2>1, <2>2, LevelsAssumption
       DEF ChosenAtPmFloor, Calls, Levels
<1>5. CASE TargetCap(t)
  <2>1. call'[t].new = Capped(t) /\ call'[t].torn = Torn(t)
    BY <1>1, <1>5 DEF TargetCap, Calls, TypeInv, TypeOK
  <2>2. ChosenAtPmFloor(t)
    BY <1>5 DEF TargetCap, SleepInv
  <2>. QED
    BY <1>1, <1>2, <2>1, <2>2 DEF ChosenAtPmFloor, Capped, Torn
<1>. QED
  BY <1>4, <1>5

(* A transition begins; a suspend that returns instead has found the clock  *)
(* at the PM floor                                                         *)
LEMMA SleepBegin ==
  ASSUME TypeInv, RequestsInv, ClockInv, OpsInv, PmInv, SleepInv,
         NEW t \in Threads,
         \/ TargetLock(t) \/ TargetFloor(t) \/ TargetCap(t) \/ LockRaise(t)
         \/ LimitCap(t)
  PROVE  SleepInv'
<1>1. UNCHANGED <<policy, mover>> /\ call[t] \in Calls /\ PmCalls(t)
  BY DEF TargetLock, TargetFloor, TargetCap, LockRaise, LimitCap, hardware,
         PmInv, TypeInv, TypeOK
<1>2. \A u \in Threads : u # t => pc'[u] = pc[u] /\ call'[u] = call[u]
  BY OthersKept DEF Acquire, Continue
<1>3. /\ \A u \in Threads : pc[u] # "run"
      /\ \A u \in Threads : u # t => pc[u] # "cap"
      /\ call[t].stage = 1
  <2>1. CASE TargetFloor(t) \/ TargetCap(t)
    <3>1. pc[t] \in {"floor", "cap"}
      BY <2>1 DEF TargetFloor, TargetCap
    <3>. QED
      BY <3>1 DEF ClockInv, InMutex
  <2>2. CASE TargetLock(t) \/ LockRaise(t) \/ LimitCap(t)
    <3>1. set_freq_lock = NoThread
          /\ pc[t] \in {"want_freq", "want_raise", "want_cap"}
      BY <2>2 DEF TargetLock, LockRaise, LimitCap, FreqMutexFree
    <3>. QED
      BY <3>1, ThreadsAssumption DEF ClockInv, InMutex
  <2>. QED
    BY <2>1, <2>2
<1>4. PmFloorApplied => AtPmFloor(policy.cur)
  BY <1>3 DEF SleepInv
<1>5. ASSUME PmFloorApplied' => AtPmFloor(policy.cur),
             PmFloorApplied' /\ pc'[t] = "cap" => ChosenAtPmFloor(t)',
             PmFloorApplied' /\ pc'[t] = "run" /\ call'[t].op \in TargetOps
               => ChosenAtPmFloor(t)',
             pc'[t] = "run" => call'[t].stage = 1 /\ call'[t].op = call[t].op
      PROVE  SleepInv'
  <2>1. SetAt(call[t].op) \in 3 .. 5
    BY <1>1, StageNumbers
  <2>2. PmFloorApplied' /\ pc'[t] = "run" => SleepInTransition(t)'
    BY <1>1, <1>5, <2>1 DEF SleepInTransition, AtPmFloor
  <2>. QED
    BY <1>1, <1>2, <1>3, <1>5, <2>2 DEF SleepInv, AtPmFloor
<1>6. CASE TargetLock(t) \/ TargetFloor(t) \/ TargetCap(t)
  <2>1. call[t].op \in TargetOps
    BY <1>6 DEF TargetLock, TargetFloor, TargetCap, ClockInv, LookUpPcs, TargetOps
  <2>2. /\ pc'[t] \in {"idle", "fixing", "floor", "cap", "run"}
        /\ pc'[t] \in {"cap", "run"} => TargetFloor(t) \/ TargetCap(t)
        /\ pc'[t] = "run" => call'[t].stage = 1 /\ call'[t].op = call[t].op
    <3>1. ReturnPc(call[t].op) \in {"idle", "fixing"}
      BY <2>1 DEF ReturnPc, TargetOps
    <3>2. CASE TargetLock(t)
      BY <3>1, <3>2 DEF TargetLock, Return, Goto, TypeInv, TypeOK
    <3>3. CASE TargetFloor(t) \/ TargetCap(t)
      BY <1>1, <1>3, <3>3 DEF TargetFloor, TargetCap, Goto, Calls, TypeInv, TypeOK
    <3>. QED
      BY <1>6, <3>2, <3>3
  <2>3. PmFloorApplied' => PmFloorApplied
    BY <1>2, <2>1, <2>2 DEF PmFloorApplied, TargetOps
  <2>. QED
    BY <1>4, <1>5, <2>2, <2>3, ReadsPmFloor
<1>7. CASE LockRaise(t) \/ LimitCap(t)
  <2>1. /\ call[t].op \in LockOps \cup {"limit"}
        /\ call[t].op = "suspend" => LockRaise(t) /\ call[t].level = PmLockIdx
    BY <1>1, <1>7 DEF LockRaise, LimitCap, OpsInv, OpsOk, LockOps, PmCalls
  <2>2. ASSUME Goto(t, "run"),
               \E old : call' = [call EXCEPT ![t].old = old,
                                             ![t].new = call[t].level]
        PROVE  SleepInv'
    <3>1. pc'[t] = "run" /\ call'[t].stage = 1 /\ call'[t].op = call[t].op
      BY <1>1, <1>3, <2>2 DEF Goto, Calls, TypeInv, TypeOK
    <3>2. SetAt("suspend") = 5
      BY DEF SetAt, LockOps
    <3>3. PmFloorApplied' => PmFloorApplied
      BY <1>2, <3>1, <3>2 DEF PmFloorApplied
    <3>4. call'[t].op \notin TargetOps
      BY <2>1, <3>1 DEF TargetOps, LockOps
    <3>. QED
      BY <1>4, <1>5, <3>1, <3>3, <3>4
  <2>3. ASSUME NEW p, Return(t, p), p \in {"idle", "halted", "bad", "prepared"},
               p = "prepared" => AtPmFloor(policy.cur)
        PROVE  SleepInv'
    <3>1. pc'[t] = p
      BY <2>3 DEF Return, Goto, TypeInv, TypeOK
    <3>2. PmFloorApplied' => PmFloorApplied \/ p = "prepared"
      BY <1>2, <2>3, <3>1 DEF PmFloorApplied
    <3>. QED
      BY <1>4, <1>5, <2>3, <3>1, <3>2
  <2>4. /\ ErrorPc(call[t].op) \in {"idle", "halted", "bad"}
        /\ ReturnPc(call[t].op) \in {"idle", "halted", "prepared"}
        /\ ReturnPc(call[t].op) = "prepared" => call[t].op = "suspend"
    BY <2>1 DEF ErrorPc, ReturnPc, LockOps
  <2>5. CASE BeginRequest(t)
    BY <2>2, <2>3, <2>4, <2>5 DEF BeginRequest
  <2>6. CASE ~BeginRequest(t)
    <3>1. Return(t, ReturnPc(call[t].op))
      BY <1>7, <2>6 DEF LockRaise, LimitCap
    <3>2. ASSUME call[t].op = "suspend" PROVE policy.cur >= Freq[PmLockIdx]
      <4>1. ~(policy.cur < Freq[PmLockIdx])
        BY <2>1, <2>6, <3>2 DEF LockRaise
      <4>2. policy.cur \in Nat /\ Freq[PmLockIdx] \in Nat
        BY RequestsAssumption, LevelFreqs DEF TypeInv, TypeOK
      <4>. QED
        BY <4>1, <4>2
    <3>. QED
      BY <2>3, <2>4, <3>1, <3>2 DEF AtPmFloor
  <2>. QED
    BY <2>5, <2>6
<1>. QED
  BY <1>6, <1>7

(* A stage ends: either the next one begins or the transition is over      *)
LEMMA SleepStageEnd ==
  ASSUME TypeInv, ClockInv, OpsInv, SleepInv, NEW t \in Threads, pc[t] = "run",
         Proceed(t),
         PmFloorApplied' => PmFloorApplied \/ call[t].stage < 6,
         PmFloorApplied' /\ call[t].stage < 6
           /\ call' = [call EXCEPT ![t].stage = @ + 1] => SleepInTransition(t)',
         call[t].stage = 6 => UNCHANGED mover /\ policy'.cur = freqs.new
  PROVE  SleepInv'
<1>1. /\ call[t] \in Calls /\ set_freq_lock = t
      /\ SetAt(call[t].op) \in 3 .. 5
  BY StageNumbers DEF ClockInv, InMutex, TypeInv, TypeOK
<1>2. \A u \in Threads : u # t => pc'[u] \notin {"run", "cap"}
  BY <1>1 DEF ClockInv, InMutex, Proceed, Return, Goto, TypeInv, TypeOK
<1>3. CASE call[t].stage = LastStage
  <2>1. pc'[t] \notin {"run", "cap"} /\ UNCHANGED mover
        /\ policy'.cur = freqs.new
    BY <1>3, ReturnOutsideMutex
       DEF Proceed, Return, Goto, InMutex, LastStage, TypeInv, TypeOK
  <2>2. PmFloorApplied' => AtPmFloor(policy.cur)'
    BY <1>1, <1>3, <2>1 DEF SleepInv, SleepInTransition, AtPmFloor, LastStage
  <2>. QED
    BY <1>2, <2>1, <2>2 DEF SleepInv
<1>4. CASE call[t].stage # LastStage
  <2>1. call' = [call EXCEPT ![t].stage = @ + 1] /\ pc'[t] = "run"
        /\ call[t].stage < 6
    BY <1>1, <1>4 DEF Proceed, Calls, LastStage
  <2>. QED
    BY <1>2, <2>1 DEF SleepInv
<1>. QED
  BY <1>3, <1>4

LEMMA SleepStageSteps ==
  ASSUME TypeInv, ClockInv, OpsInv, VoltInv, PmInv, SleepInv, NEW t \in Threads,
         \/ PreChange(t) \/ RaiseVolt(t) \/ SettleVolt(t) \/ SafeVolt(t)
         \/ ArmVolt(t) \/ Relock(t) \/ SetFreq(t) \/ PostChange(t)
  PROVE  SleepInv'
<1>. DEFINE s == call[t].stage
            S == SetAt(call[t].op)
            new == call[t].new
            NextStage == call' = [call EXCEPT ![t].stage = @ + 1]
<1>1. /\ pc[t] = "run" /\ Proceed(t) /\ InTransition(t) /\ VoltInTransition(t)
      /\ call[t] \in Calls /\ PmCalls(t)
      /\ call[t].op \in TargetOps \cup LockOps \cup {"limit"}
  BY DEF PreChange, RaiseVolt, SettleVolt, SafeVolt, ArmVolt, Relock, SetFreq,
         PostChange, At, ClockInv, VoltInv, PmInv, OpsInv, OpsOk, TypeInv, TypeOK
<1>2. /\ s \in 1 .. 6 /\ S \in 3 .. 5
      /\ PostAt(call[t].op) \in 5 .. 6 /\ S < PostAt(call[t].op)
      /\ SetAt("suspend") = 5
  BY <1>1, StageNumbers DEF Calls, LastStage, SetAt, LockOps
<1>3. /\ new \in Levels /\ freqs.new = Freq[new] /\ Freq[new] \in Nat
      /\ policy.cur \in Nat /\ PmLockIdx \in Levels /\ Freq[PmLockIdx] \in Nat
  BY <1>1, LevelFreqs, RequestsAssumption
     DEF InTransition, Calls, TypeInv, TypeOK
<1>4. PmFloorApplied =>
        /\ s <= S => /\ AtPmFloor(policy.cur)
                     /\ call[t].op \in TargetOps => ChosenAtPmFloor(t)
        /\ S < s => AtPmFloor(freqs.new)
  BY <1>1 DEF SleepInv, SleepInTransition
<1>5. ASSUME NextStage
      PROVE  /\ call'[t].stage = s + 1 /\ call'[t].op = call[t].op
             /\ call'[t].new = new /\ call'[t].torn = call[t].torn
             /\ SetAt(call'[t].op) = S
  BY <1>1, <1>5 DEF Calls, TypeInv, TypeOK
<1>6. /\ \A u \in Threads : u # t => pc'[u] = pc[u] /\ call'[u] = call[u]
      /\ s < 6 => NextStage /\ UNCHANGED pc
      /\ s = 6 => pc'[t] = ReturnPc(call[t].op)
  BY <1>1, <1>2 DEF Proceed, Return, Goto, LastStage, TypeInv, TypeOK
(* The PM floor is applied when its own transition has set the clock       *)
<1>7. PmFloorApplied' => PmFloorApplied \/ (s = S /\ call[t].op = "suspend")
  <2>1. CASE s < 6
    BY <1>1, <1>2, <1>5, <1>6, <2>1 DEF PmFloorApplied
  <2>2. CASE s = 6
    <3>1. ReturnPc(call[t].op) \in {"fixing", "prepared", "halted", "idle"}
          /\ (ReturnPc(call[t].op) = "prepared" => call[t].op = "suspend")
      BY <1>1 DEF ReturnPc, TargetOps, LockOps
    <3>2. call[t].op = "suspend" => PmFloorApplied
      BY <1>1, <1>2, <2>2 DEF PmFloorApplied
    <3>. QED
      BY <1>6, <2>2, <3>1, <3>2 DEF PmFloorApplied
  <2>. QED
    BY <1>2, <2>1, <2>2
<1>8. CASE ~SetFreq(t)
  <2>1. /\ UNCHANGED mover /\ freqs'.new = freqs.new /\ s # S
        /\ \/ policy' = policy /\ s # PostAt(call[t].op)
           \/ policy'.cur = freqs.new /\ s = PostAt(call[t].op)
    BY <1>1, <1>2, <1>8, StageNumbers
       DEF PreChange, RaiseVolt, SettleVolt, SafeVolt, ArmVolt, Relock,
           PostChange, hardware, TypeInv, TypeOK
  <2>2. PmFloorApplied' => PmFloorApplied
    BY <1>7, <2>1
  <2>3. ASSUME PmFloorApplied', NextStage PROVE SleepInTransition(t)'
    BY <1>2, <1>4, <1>5, <2>1, <2>2, <2>3
       DEF SleepInTransition, AtPmFloor, ChosenAtPmFloor
  <2>4. s = 6 => policy'.cur = freqs.new
    BY <1>1, <1>2, <2>1 DEF InTransition
  <2>. QED
    BY <1>1, <2>1, <2>2, <2>3, <2>4, SleepStageEnd
<1>9. CASE SetFreq(t)
  <2>1. s = S /\ UNCHANGED <<freqs, policy>>
        /\ mover' = IF ClockMoves(t) THEN Mover(t) ELSE mover
    BY <1>1, <1>9, StageNumbers DEF SetFreq
  <2>2. ASSUME PmFloorApplied' PROVE AtPmFloor(freqs.new)'
    <3>1. CASE call[t].op \in {"suspend", "limit"}
      <4>1. new <= PmLockIdx
        BY <1>1, <1>3, <3>1, LevelsAssumption DEF PmCalls, LockOps, Levels
      <4>. QED
        BY <1>3, <2>1, <4>1, LevelsSlower DEF AtPmFloor
    <3>2. CASE call[t].op \notin {"suspend", "limit"} /\ ~ClockMoves(t)
      <4>1. freqs.new = policy.cur
        BY <1>1, <1>2, <2>1, <3>2 DEF ClockMoves, InTransition
      <4>. QED
        BY <1>2, <1>4, <1>7, <2>1, <2>2, <3>2, <4>1 DEF AtPmFloor
    <3>3. CASE call[t].op \in TargetOps /\ ClockMoves(t)
      <4>1. call[t].torn \/ new <= PmLockIdx
        BY <1>2, <1>4, <1>7, <2>1, <2>2, <3>3 DEF ChosenAtPmFloor, TargetOps
      <4>2. CASE call[t].torn
        BY <2>1, <3>3, <4>2 DEF Mover, AtPmFloor
      <4>3. CASE new <= PmLockIdx
        BY <1>3, <2>1, <4>3, LevelsSlower DEF AtPmFloor
      <4>. QED
        BY <4>1, <4>2, <4>3
    <3>4. CASE call[t].op \in LockOps \ {"suspend"} /\ ClockMoves(t)
      <4>1. AtPmFloor(policy.cur)
        BY <1>2, <1>4, <1>7, <2>1, <2>2, <3>4
      <4>2. CASE mover = "torn"
        BY <2>1, <3>4, <4>2 DEF Mover, AtPmFloor, LockOps
      <4>3. CASE policy.cur >= Freq[PmLockIdx]
        <5>1. policy.cur < freqs.new
          BY <1>1, <1>2, <2>1, <3>4 DEF VoltInTransition
        <5>. QED
          BY <1>3, <2>1, <4>3, <5>1 DEF AtPmFloor
      <4>. QED
        BY <4>1, <4>2, <4>3 DEF AtPmFloor
    <3>. QED
      BY <1>1, <3>1, <3>2, <3>3, <3>4
  <2>3. ASSUME PmFloorApplied', NextStage PROVE SleepInTransition(t)'
    BY <1>2, <1>5, <2>1, <2>2, <2>3 DEF SleepInTransition, AtPmFloor
  <2>. QED
    BY <1>1, <1>2, <2>1, <2>3, SleepStageEnd
<1>. QED
  BY <1>8, <1>9

LEMMA SleepInvNext ==
  ASSUME TypeInv, RequestsInv, ClockInv, OpsInv, VoltInv, PmInv, SleepInv,
         [Next]_vars
  PROVE  SleepInv'
<1>1. CASE PolicyAdjust \/ PolicyBounds \/ UNCHANGED vars
  <2>1. policy'.cur = policy.cur /\ UNCHANGED <<freqs, mover, pc, call>>
    BY <1>1 DEF PolicyAdjust, PolicyBounds, vars, TypeInv, TypeOK
  <2>2. PmFloorApplied' => PmFloorApplied
    BY <2>1 DEF PmFloorApplied
  <2>. QED
    BY <2>1, <2>2, SleepKept
<1>2. ASSUME NEW t \in Threads, Start(t) \/ Acquire(t) \/ Continue(t)
      PROVE  SleepInv'
  BY <1>2, OtherStepsSleep, SleepBegin, SleepStageSteps
     DEF OtherStep, Acquire, Continue
<1>. QED
  BY <1>1, <1>2 DEF Next

(* With governors that respect floors and ceilings no slower than the PM    *)
(* floor, the machine goes to sleep at or above that floor: no target,      *)
(* request or refused suspend takes the clock below it between the request  *)
(* and the sleep, but an exynos_target that read half-updated levels.       *)
THEOREM SleepKeepsPmFloor ==
  ASSUME TRUE \notin LevelLockOff, CeilingsAbovePm
  PROVE  Spec => []SleepsAtPmFloor
<1>1. TypeInv /\ RequestsInv /\ ClockInv /\ OpsInv /\ PmInv /\ [Next]_vars => PmInv'
  BY PmInvNext
<1>2. Spec => []PmInv
  BY <1>1, ClockInvariants, PmInvInit, PTL DEF Spec
<1>3. Init => SleepInv
  BY DEF Init, SleepInv, PmFloorApplied
<1>4. TypeInv /\ RequestsInv /\ ClockInv /\ OpsInv /\ VoltInv /\ PmInv /\ SleepInv
        /\ [Next]_vars => SleepInv'
  BY SleepInvNext
<1>5. ClockInv /\ SleepInv => SleepsAtPmFloor
  <2>. SUFFICES ASSUME ClockInv, SleepInv, NEW t \in PmThreads,
                       pc[t] = "suspended", set_freq_lock = NoThread
                PROVE  clk >= Freq[PmLockIdx] \/ mover = "torn"
    BY DEF SleepsAtPmFloor
  <2>1. \A u \in Threads : pc[u] # "run"
    BY ThreadsAssumption DEF ClockInv, InMutex
  <2>2. PmFloorApplied
    BY DEF PmFloorApplied, Threads
  <2>. QED
    BY <2>1, <2>2 DEF ClockInv, SleepInv, AtPmFloor
<1>. QED
  BY <1>2, <1>3, <1>4, <1>5, ClockInvariants, VoltInvariant, PTL DEF Spec
=============================================================================
