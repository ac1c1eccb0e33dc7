------------------------- MODULE CpufreqPolicyProofs -------------------------
(***************************************************************************)
(* Proofs of the safety invariants of CpufreqPolicy, for any number of     *)
(* tasks that write to the policy's files, any frequency table and any     *)
(* number of failing sysfs_create_group calls.                             *)
(*                                                                         *)
(* The inductive invariant PolicyInv says what a thread was asked to do    *)
(* where it is (OpsInv), who owns each lock (LocksInv), in what state the  *)
(* two governors are while one is stopped and the other started            *)
(* (GovernorsInv, CountsInv), that user_policy is what policy was before   *)
(* the change under way (UserInv), and who will put policy->cur right when *)
(* it is not within the limits (LimitsInv).                                *)
(***************************************************************************)
EXTENDS CpufreqPolicy, TLAPS

Changes == {"min", "max", "governor", "update"}

(* A thread in the driver, or on its way there or back                      *)
InDriver == {"target", "setting", "moved", "cpu_callback", "notified", "done"}
Switching == {"stop", "wait_work", "start", "restart"}
Stopped == {"start", "restart"}

(* Where a task can be that was asked to do k, and what it keeps of it      *)
OpInv(t) ==
  LET k == op[t].kind
  IN /\ pc[t] = "idle" <=> k = "none"
     /\ pc[t] # "timer_lock" /\ pc[t] # "notified"
     /\ k = "get" => pc[t] \in {"rwsem", "compare", "announce", "cpu_callback"}
     /\ pc[t] \in {"compare", "announce"} => k \in {"get", "update"}
                                              /\ want[t] \in Freqs
     /\ pc[t] = "set_policy" => k = "update"
     /\ pc[t] = "speed" => k = "speed"
     /\ pc[t] = "limits" => k \in Changes
     /\ pc[t] \in Switching => k = "governor" /\ op[t].governor \in Governors
                                /\ op[t].governor # policy.governor
     /\ pc[t] = "wait_work" => policy.governor = "vbfs"
     /\ pc[t] = "restart" => Failures >= 1
     /\ k \in {"min", "max", "speed"} => op[t].freq \in Freqs
     /\ pc[t] = "rwsem" /\ k = "governor" => op[t].governor \in Governors

OpsInv ==
  /\ \A t \in Writers : OpInv(t)
  /\ op[Work] = NoOp
  /\ pc[Work] \in {"idle", "timer_lock"} \cup InDriver

(* Who owns the semaphore as a writer                                       *)
Owns(t) == t \in Writers /\ op[t].kind # "get" /\ pc[t] \notin {"idle", "rwsem"}

(* Who holds the mutex of a governor                                        *)
Holds(t, l) ==
  /\ pc[t] \in InDriver
  /\ CASE l = "timer_mutex" ->
            t = Work \/ (op[t].kind \in Changes /\ policy.governor = "vbfs")
       [] l = "vbfs_mutex" ->
            t # Work /\ op[t].kind = "speed" /\ policy.governor = "vbfs"
       [] l = "userspace_mutex" ->
            t # Work /\ op[t].kind # "get" /\ policy.governor = "userspace"

SemaphoreInv ==
  /\ \A t \in Threads : lock["rwsem"] = t <=> Owns(t)
  /\ lock["rwsem"] # NoOne => \A t \in Threads : ~Reading(t)

MutexesInv ==
  /\ \A l \in {"timer_mutex", "vbfs_mutex", "userspace_mutex"},
        t \in Threads : lock[l] = t => Holds(t, l)
  /\ pc[Work] \in InDriver => lock["timer_mutex"] = Work

FreqLockInv ==
  /\ \A t \in Threads :
       /\ lock["set_freq_lock"] = t =>
            pc[t] \in {"setting", "moved", "cpu_callback", "notified"}
       /\ pc[t] \in {"setting", "moved"} => lock["set_freq_lock"] = t
  /\ pc[Work] \in {"cpu_callback", "notified"} => lock["set_freq_lock"] = Work

LocksInv == SemaphoreInv /\ MutexesInv /\ FreqLockInv

GovernorsInv ==
  /\ vbfs.ready => policy.governor = "vbfs"
  /\ queued \/ pc[Work] # "idle" => vbfs.ready
  /\ \A t \in Writers : pc[t] = "wait_work" => ~queued
  /\ \A t \in Writers : pc[t] \in Stopped => ~vbfs.ready
  /\ vbfs.ready /\ (\A t \in Writers : pc[t] # "wait_work") =>
       queued \/ pc[Work] # "idle"
  /\ vbfs.enable \in
       IF policy.governor = "vbfs" /\ (\A t \in Writers : pc[t] \notin Stopped)
       THEN 1 .. 2 ELSE 0 .. 1

(* What the counts and the states of the governors are unless two STARTs    *)
(* failed                                                                   *)
CountsExact ==
  /\ \/ \E t \in Writers : pc[t] \in Stopped
     \/ /\ policy.governor = "vbfs" <=> vbfs.ready
        /\ policy.governor = "userspace" <=> userspace.managed
  /\ \A t \in Writers : pc[t] \in Stopped => ~userspace.managed
  /\ vbfs.enable = (IF vbfs.ready THEN 1 ELSE 0) + failed["vbfs"]
  /\ userspace.count = (IF userspace.managed THEN 1 ELSE 0)
  /\ failed["vbfs"] = 0 => (vbfs.group <=> vbfs.ready)
  /\ failed["vbfs"] = 0 /\ vbfs.ready => vbfs.rate

CountsInv == Failures <= 1 => CountsExact

UserInv ==
  /\ lock["rwsem"] = NoOne => user_policy = policy
  /\ \A t \in Writers :
       Owns(t) =>
         CASE op[t].kind = "min" -> user_policy = [policy EXCEPT !.min = user_policy.min]
           [] op[t].kind = "max" -> user_policy = [policy EXCEPT !.max = user_policy.max]
           [] op[t].kind = "governor" ->
                user_policy = [policy EXCEPT !.governor = user_policy.governor]
           [] OTHER -> user_policy = policy

InLimits(f) == policy.min <= f /\ f <= policy.max

(* Who will set a frequency within the limits that he changed               *)
Changing(t) ==
  op[t].kind \in {"min", "max"} /\ pc[t] \in {"limits"} \cup (InDriver \ {"done"})

(* Who will evaluate the policy anew                                        *)
Updating(t) == op[t].kind = "update" /\ pc[t] \notin {"done", "unlock"}

LimitsInv ==
  /\ policy.min <= policy.max
  /\ \/ InLimits(cur) \/ update
     \/ \E t \in Writers : Changing(t) \/ Updating(t)
  /\ lock["set_freq_lock"] # NoOne =>
       \/ InLimits(next)
       \/ \E t \in Writers : pc[t] = "limits" /\ op[t].kind \in {"min", "max"}

PolicyInv ==
  /\ TypeOK /\ OpsInv /\ LocksInv /\ GovernorsInv /\ CountsInv /\ UserInv
  /\ LimitsInv

-----------------------------------------------------------------------------
(* The values of the variables                                              *)

Policies == [min : Freqs, max : Freqs, governor : Governors]
OpStates == [kind : {"none", "min", "max", "speed", "governor", "get", "update"},
             freq : Freqs \cup {0}, governor : Governors \cup {"none"}]
VbfsStates == [enable : 0 .. 2, ready : BOOLEAN, group : BOOLEAN,
               rate : BOOLEAN]
UserspaceStates == [count : Int, managed : BOOLEAN, min : Freqs \cup {0},
                    max : Freqs \cup {0}, set : Freqs \cup {0}]

LEMMA Types == 
  TypeOK <=>
    /\ policy \in Policies /\ user_policy \in Policies
    /\ cur \in Freqs /\ clock \in Freqs /\ update \in BOOLEAN
    /\ lock \in [Locks -> Threads \cup {NoOne}]
    /\ pc \in [Threads -> Pcs] /\ op \in [Threads -> OpStates]
    /\ want \in [Threads -> Freqs \cup {0}] /\ next \in Freqs
    /\ queued \in BOOLEAN /\ sub \in BOOLEAN /\ set_flag \in BOOLEAN
    /\ freq_lo \in Freqs \cup {0}
    /\ vbfs \in VbfsStates /\ userspace \in UserspaceStates
    /\ failed \in [Governors -> 0 .. MaxFail]
BY DEF TypeOK, Policies, OpStates, VbfsStates, UserspaceStates

LEMMA TypesNext ==
  TypeOK' <=>
    /\ policy' \in Policies /\ user_policy' \in Policies
    /\ cur' \in Freqs /\ clock' \in Freqs /\ update' \in BOOLEAN
    /\ lock' \in [Locks -> Threads \cup {NoOne}]
    /\ pc' \in [Threads -> Pcs] /\ op' \in [Threads -> OpStates]
    /\ want' \in [Threads -> Freqs \cup {0}] /\ next' \in Freqs
    /\ queued' \in BOOLEAN /\ sub' \in BOOLEAN /\ set_flag' \in BOOLEAN
    /\ freq_lo' \in Freqs \cup {0}
    /\ vbfs' \in VbfsStates /\ userspace' \in UserspaceStates
    /\ failed' \in [Governors -> 0 .. MaxFail]
BY DEF TypeOK, Policies, OpStates, VbfsStates, UserspaceStates

LEMMA TypeInit == Init => TypeOK
<1> SUFFICES ASSUME Init PROVE TypeOK
  OBVIOUS
<1> USE FreqsAssumption, SwitchesAssumption DEF Init
<1>1. policy \in Policies /\ user_policy \in Policies
  BY DEF Policies
<1>2. /\ lock \in [Locks -> Threads \cup {NoOne}] /\ pc \in [Threads -> Pcs]
      /\ want \in [Threads -> Freqs \cup {0}]
      /\ failed \in [Governors -> 0 .. MaxFail]
  BY DEF Pcs
<1>3. op \in [Threads -> OpStates]
  <2>1. NoOp \in OpStates
    BY DEF NoOp, OpStates
  <2> QED BY <2>1
<1>4. vbfs \in VbfsStates
  BY DEF VbfsStates
<1>5. userspace \in UserspaceStates
  <2>1. policy.min \in Freqs /\ policy.max \in Freqs
    BY <1>1 DEF Policies
  <2>2. Unmanaged \in UserspaceStates
    BY DEF Unmanaged, UserspaceStates
  <2>3. [count |-> 1, managed |-> TRUE, min |-> policy.min, max |-> policy.max,
         set |-> cur] \in UserspaceStates
    BY <2>1 DEF UserspaceStates
  <2> QED BY <2>2, <2>3
<1>6. /\ cur \in Freqs /\ clock \in Freqs /\ next \in Freqs /\ freq_lo \in Freqs \cup {0}
      /\ update \in BOOLEAN /\ sub \in BOOLEAN /\ set_flag \in BOOLEAN
      /\ queued \in BOOLEAN
  OBVIOUS
<1> QED BY <1>1, <1>2, <1>3, <1>4, <1>5, <1>6, Types

(* The semaphore has one owner                                              *)
LEMMA OneOwner == ASSUME LocksInv, NEW t \in Writers, NEW u \in Writers,
                         Owns(t), Owns(u)
                  PROVE  t = u
BY DEF LocksInv, SemaphoreInv, Threads

(* The sets a governor changes its record within                            *)
LEMMA Clipped ==
  ASSUME NEW f \in Freqs \cup {0}, NEW lo \in Freqs, NEW hi \in Freqs
  PROVE  /\ Clip(f, lo, hi) \in Freqs
         /\ lo <= hi => lo <= Clip(f, lo, hi) /\ Clip(f, lo, hi) <= hi
BY FreqsAssumption DEF Clip

LEMMA OpSet ==
  ASSUME NEW o \in OpStates, NEW g \in Governors
  PROVE  [o EXCEPT !.governor = g] \in OpStates
BY DEF OpStates

LEMMA PolicySet ==
  ASSUME NEW p \in Policies, NEW f \in Freqs, NEW h \in Freqs, NEW g \in Governors
  PROVE  /\ [p EXCEPT !.min = f] \in Policies
         /\ [p EXCEPT !.max = f] \in Policies
         /\ [p EXCEPT !.min = f, !.max = h] \in Policies
         /\ [p EXCEPT !.governor = g] \in Policies
BY DEF Policies

LEMMA UserspaceSet ==
  ASSUME NEW n \in Int, NEW u \in UserspaceStates, NEW f \in Freqs,
         NEW h \in Freqs
  PROVE  /\ [Unmanaged EXCEPT !.count = n] \in UserspaceStates
         /\ [u EXCEPT !.set = f] \in UserspaceStates
         /\ [u EXCEPT !.min = f, !.max = h] \in UserspaceStates
         /\ [count |-> n, managed |-> TRUE, min |-> f, max |-> h, set |-> f]
              \in UserspaceStates
BY DEF Unmanaged, UserspaceStates

LEMMA VbfsSet ==
  ASSUME NEW v \in VbfsStates, NEW n \in 0 .. 2, NEW b \in BOOLEAN
  PROVE  /\ [v EXCEPT !.enable = n] \in VbfsStates
         /\ [v EXCEPT !.ready = FALSE, !.enable = n, !.group = b] \in VbfsStates
BY DEF VbfsStates

(* vbfs_enable is positive when vbfs is stopped, and at most one when it is *)
(* started                                                                  *)
LEMMA EnableBounds ==
  ASSUME PolicyInv, NEW t \in Writers
  PROVE  /\ pc[t] = "wait_work" => vbfs.enable \in 1 .. 2
         /\ pc[t] \in Stopped => vbfs.enable \in 0 .. 1
<1> USE DEF PolicyInv
<1>1. ASSUME pc[t] = "wait_work" PROVE vbfs.enable \in 1 .. 2
  <2>1. policy.governor = "vbfs" /\ Owns(t)
    BY <1>1 DEF OpsInv, OpInv, Owns
  <2>2. \A u \in Writers : pc[u] \notin Stopped
    <3>1. SUFFICES ASSUME NEW u \in Writers, pc[u] \in Stopped PROVE FALSE
      OBVIOUS
    <3>2. Owns(u)
      BY <3>1 DEF OpsInv, OpInv, Owns, Stopped
    <3> QED BY <1>1, <2>1, <3>1, <3>2, OneOwner DEF Stopped
  <2> QED BY <2>1, <2>2 DEF GovernorsInv
<1>2. pc[t] \in Stopped => vbfs.enable \in 0 .. 1
  BY DEF GovernorsInv
<1> QED BY <1>1, <1>2

(* What SetPolicy does to the policy, and where the task goes               *)
Sets(t, new) ==
  /\ pc' = [pc EXCEPT ![t] = IF new.governor # policy.governor
                             THEN "stop" ELSE "limits"]
  /\ op' = [op EXCEPT ![t].governor = new.governor]
  /\ op[t].kind # "governor" => new.governor = policy.governor
  /\ op[t].kind \notin {"min", "max"} => policy' = policy
  /\ op[t].kind # "max" => policy'.max = policy.max
  /\ op[t].kind # "min" => policy'.min = policy.min
  /\ policy'.min <= policy'.max

LEMMA SetPolicyEffect ==
  ASSUME PolicyInv, NEW t \in Writers, SetPolicy(t)
  PROVE  /\ op[t] \in OpStates /\ op[t].kind \in Changes /\ OpInv(t)
         /\ pc[t] \in {"rwsem", "set_policy"}
         /\ lock' = [lock EXCEPT !["rwsem"] = t]
         /\ policy' \in Policies /\ policy'.governor = policy.governor
         /\ \/ /\ pc' = [pc EXCEPT ![t] = "unlock"] /\ op' = op
               /\ policy' = policy /\ op[t].kind # "update"
            \/ \E new \in Policies : Sets(t, new)
<1> USE DEF PolicyInv, Goto
<1> DEFINE new == NewPolicy(op[t])
<1>1. /\ pc[t] \in {"rwsem", "set_policy"} /\ OpInv(t) /\ op[t] \in OpStates
      /\ op[t].kind \in Changes
  BY Types DEF SetPolicy, OpsInv, OpInv, Changes, Threads
<1>2. /\ policy \in Policies /\ user_policy \in Policies
      /\ policy.min \in Nat /\ policy.max \in Nat /\ policy.min <= policy.max
  BY Types, FreqsAssumption DEF Policies, LimitsInv
<1>3. lock' = [lock EXCEPT !["rwsem"] = t]
  <2>1. CASE pc[t] = "rwsem"
    BY <2>1 DEF SetPolicy, Acquire
  <2>2. CASE pc[t] = "set_policy"
    <3>1. Owns(t)
      BY <1>1, <2>2 DEF Owns, OpInv
    <3>2. lock["rwsem"] = t /\ lock \in [Locks -> Threads \cup {NoOne}]
      BY <3>1, Types DEF LocksInv, SemaphoreInv, Threads
    <3> QED BY <2>2, <3>2 DEF SetPolicy
  <2> QED BY <1>1, <2>1, <2>2
<1>4. /\ new \in Policies
      /\ op[t].kind # "governor" => new.governor = policy.governor
      /\ op[t].kind # "max" => new.max = policy.max
      /\ op[t].kind # "min" => new.min = policy.min
      /\ op[t].kind = "update" => new = policy
  <2>1. CASE op[t].kind = "update"
    <3>1. Owns(t) \/ lock["rwsem"] = NoOne
      BY <1>1, <2>1 DEF SetPolicy, Owns, OpInv
    <3>2. user_policy = policy
      BY <2>1, <3>1 DEF UserInv
    <3> QED BY <1>2, <2>1, <3>2 DEF NewPolicy
  <2>2. CASE op[t].kind = "governor"
    <3>1. op[t].governor \in Governors
      BY <1>1, <2>2 DEF OpInv
    <3> QED BY <1>2, <2>2, <3>1, PolicySet DEF NewPolicy, Policies
  <2>3. CASE op[t].kind \in {"min", "max"}
    <3>1. op[t].freq \in Freqs
      BY <1>1, <2>3 DEF OpInv
    <3> QED BY <1>2, <2>3, <3>1, PolicySet DEF NewPolicy, Policies
  <2> QED BY <1>1, <2>1, <2>2, <2>3 DEF Changes
<1>5. /\ Refused(new) <=> new.min > policy.max \/ new.max < policy.min
      /\ new.min \in Nat /\ new.max \in Nat /\ new.governor \in Governors
      /\ new.min \in Freqs /\ new.max \in Freqs
  BY <1>4, FreqsAssumption DEF Refused, Policies
<1>6. CASE Refused(new)
  <2>1. op[t].kind # "update"
    BY <1>2, <1>4, <1>5, <1>6
  <2> QED BY <1>1, <1>2, <1>3, <1>6, <2>1 DEF SetPolicy, AfterRefusal
<1>7. CASE ~Refused(new)
  <2> HIDE DEF new
  <2>1. /\ pc' = [pc EXCEPT ![t] = IF new.governor # policy.governor
                                   THEN "stop" ELSE "limits"]
        /\ op' = [op EXCEPT ![t].governor = new.governor]
        /\ policy' = [policy EXCEPT !.min = new.min, !.max = new.max]
    BY <1>7 DEF SetPolicy, new
  <2>2. /\ policy'.min = new.min /\ policy'.max = new.max
        /\ policy'.governor = policy.governor /\ policy' \in Policies
    BY <1>2, <1>5, <2>1 DEF Policies
  <2>3. /\ op[t].kind \notin {"min", "max"} => policy' = policy
        /\ op[t].kind # "max" => policy'.max = policy.max
        /\ op[t].kind # "min" => policy'.min = policy.min
    <3>1. [policy EXCEPT !.min = policy.min, !.max = policy.max] = policy
      BY <1>2 DEF Policies
    <3> QED BY <1>4, <2>1, <2>2, <3>1
  <2>4. policy'.min <= policy'.max
    BY <1>1, <1>2, <1>4, <1>5, <1>7, <2>2 DEF Changes
  <2>5. Sets(t, new)
    BY <1>4, <2>1, <2>3, <2>4 DEF Sets
  <2> QED BY <1>1, <1>3, <1>4, <2>2, <2>5
<1> QED BY <1>6, <1>7

LEMMA TypeStep == ASSUME PolicyInv, [Next]_vars PROVE TypeOK'
<1> USE PolicyInv, FreqsAssumption, SwitchesAssumption, ThreadsAssumption
    DEF PolicyInv, TypeOK, Threads, Governors, Locks, Pcs, Goto, state,
        threads, sampling, governors, vars
<1>1. ASSUME NEW t \in Writers, Write(t) PROVE TypeOK'
  BY <1>1 DEF Write, Ops
<1>2. ASSUME NEW t \in Writers, HandleUpdate(t) PROVE TypeOK'
  <2>1. op' \in [Threads -> OpStates]
    <3>1. [NoOp EXCEPT !.kind = "update"] \in OpStates
      BY DEF NoOp, OpStates
    <3> QED BY <1>2, <3>1, Types DEF HandleUpdate
  <2>2. pc' \in [Threads -> Pcs] /\ update' \in BOOLEAN
    BY <1>2 DEF HandleUpdate
  <2> QED BY <1>2, <2>1, <2>2, Types, TypesNext DEF HandleUpdate
<1>3. ASSUME NEW t \in Writers, ReadFreq(t) PROVE TypeOK'
  BY <1>3 DEF ReadFreq, Acquire
<1>4. ASSUME NEW t \in Writers, Compare(t) PROVE TypeOK'
  BY <1>4 DEF Compare, Known, OpsInv
<1>5. ASSUME NEW t \in Writers, OutOfSync(t) PROVE TypeOK'
  BY <1>5 DEF OutOfSync, Known, UpdateAsked, OpsInv, OpInv
<1>6. ASSUME NEW t \in Writers, SetPolicy(t) PROVE TypeOK'
  <2>1. policy' \in Policies
    BY <1>6, SetPolicyEffect
  <2>2. op' \in [Threads -> OpStates] /\ pc' \in [Threads -> Pcs]
    <3>1. op \in [Threads -> OpStates] /\ pc \in [Threads -> Pcs] /\ op[t] \in OpStates
      BY Types
    <3>2. ASSUME NEW new \in Policies
          PROVE  [op[t] EXCEPT !.governor = new.governor] \in OpStates
      BY <3>1, OpSet DEF Policies
    <3>3. CASE pc' = [pc EXCEPT ![t] = "unlock"] /\ op' = op
      BY <3>1, <3>3
    <3>4. ASSUME NEW new \in Policies, Sets(t, new)
          PROVE  op' \in [Threads -> OpStates] /\ pc' \in [Threads -> Pcs]
      BY <3>1, <3>2, <3>4 DEF Sets
    <3> QED BY <1>6, <3>3, <3>4, SetPolicyEffect
  <2>3. lock' \in [Locks -> Threads \cup {NoOne}]
    BY <1>6, SetPolicyEffect, Types
  <2> QED BY <1>6, <2>1, <2>2, <2>3, Types, TypesNext DEF SetPolicy
<1>7. ASSUME NEW t \in Writers, Unlock(t) PROVE TypeOK'
  BY <1>7 DEF Unlock, Release, NoOp
<1>8. ASSUME NEW t \in Writers, Cancel(t) PROVE TypeOK'
  <2>1. pc' \in [Threads -> Pcs] /\ queued' \in BOOLEAN
    BY <1>8, Types DEF Cancel
  <2> QED BY <1>8, <2>1, Types, TypesNext DEF Cancel
<1>9. ASSUME NEW t \in Writers, StopVbfs(t) PROVE TypeOK'
  <2>1. vbfs.enable - 1 \in 0 .. 2
    BY <1>9, EnableBounds DEF StopVbfs
  <2>2. vbfs' \in VbfsStates
    BY <1>9, <2>1, VbfsSet, Types DEF StopVbfs, EnableAfterStop
  <2> QED BY <1>9, <2>2, Types, TypesNext DEF StopVbfs
<1>10. ASSUME NEW t \in Writers, StopUserspace(t) PROVE TypeOK'
  <2>1. userspace.count - 1 \in Int
    OBVIOUS
  <2>2. userspace' \in UserspaceStates
    BY <1>10, <2>1, UserspaceSet, Types DEF StopUserspace
  <2> QED BY <1>10, <2>2, Types, TypesNext DEF StopUserspace
<1>11. ASSUME NEW t \in Writers, StartVbfs(t) PROVE TypeOK'
  <2>1. pc[t] \in Stopped /\ op[t].governor = "vbfs"
    BY <1>11 DEF StartVbfs, Starting, Stopped
  <2>2. policy' \in Policies
    BY <1>11, <2>1, PolicySet, Types DEF StartVbfs, Exchange
  <2>3. op' \in [Threads -> OpStates]
    BY <1>11, <2>1, OpSet, Types DEF StartVbfs, Exchange
  <2>4. pc' \in [Threads -> Pcs]
    BY <1>11 DEF StartVbfs, Started, AfterFailure
  <2>5. failed' \in [Governors -> 0 .. MaxFail]
    BY <1>11 DEF StartVbfs, CreateFails, Failures
  <2>6. vbfs.enable + 1 \in 0 .. 2
    BY <2>1, EnableBounds
  <2>7. vbfs' \in VbfsStates
    <3>1. [vbfs EXCEPT !.enable = @ + 1] \in VbfsStates
      BY <2>6, VbfsSet, Types
    <3>2. [enable |-> vbfs.enable + 1, ready |-> TRUE,
           group |-> vbfs.group \/ vbfs.enable = 0,
           rate |-> vbfs.rate \/ vbfs.enable = 0] \in VbfsStates
      BY <2>6 DEF VbfsStates
    <3> QED BY <1>11, <3>1, <3>2 DEF StartVbfs
  <2> QED BY <1>11, <2>2, <2>3, <2>4, <2>5, <2>7, Types, TypesNext DEF StartVbfs
<1>12. ASSUME NEW t \in Writers, StartUserspace(t) PROVE TypeOK'
  <2>1. pc[t] \in Stopped /\ op[t].governor = "userspace"
    BY <1>12 DEF StartUserspace, Starting, Stopped
  <2>2. policy' \in Policies
    BY <1>12, <2>1, PolicySet, Types DEF StartUserspace, Exchange
  <2>3. op' \in [Threads -> OpStates]
    BY <1>12, <2>1, OpSet, Types DEF StartUserspace, Exchange
  <2>4. pc' \in [Threads -> Pcs]
    BY <1>12 DEF StartUserspace, Started, AfterFailure
  <2>5. failed' \in [Governors -> 0 .. MaxFail]
    BY <1>12 DEF StartUserspace, CreateFails, Failures
  <2>6. userspace' \in UserspaceStates
    <3>1. /\ policy.min \in Freqs /\ policy.max \in Freqs /\ cur \in Freqs
          /\ userspace.count + 1 \in Int /\ userspace \in UserspaceStates
      BY Types DEF Policies, UserspaceStates
    <3>2. [count |-> userspace.count + 1, managed |-> TRUE, min |-> policy.min,
           max |-> policy.max, set |-> cur] \in UserspaceStates
      BY <3>1 DEF UserspaceStates
    <3> QED BY <1>12, <3>1, <3>2 DEF StartUserspace
  <2> QED BY <1>12, <2>2, <2>3, <2>4, <2>5, <2>6, Types, TypesNext
             DEF StartUserspace
<1>13. ASSUME NEW t \in Writers, LimitsVbfs(t) PROVE TypeOK'
  BY <1>13 DEF LimitsVbfs, Acquire, Target, Clip
<1>14. ASSUME NEW t \in Writers, LimitsUserspace(t) PROVE TypeOK'
  BY <1>14 DEF LimitsUserspace, Acquire, Target, Clip
<1>15. ASSUME NEW t \in Writers, TakeForSpeed(t) PROVE TypeOK'
  BY <1>15 DEF TakeForSpeed, Acquire
<1>16. ASSUME NEW t \in Writers, SetSpeedVbfs(t) PROVE TypeOK'
  BY <1>16 DEF SetSpeedVbfs, Acquire, Target, Clip
<1>17. ASSUME NEW t \in Writers, SetSpeedUserspace(t) PROVE TypeOK'
  BY <1>17 DEF SetSpeedUserspace, Acquire, Target, Clip
<1>18. ASSUME NEW t \in Writers, TargetSet(t) PROVE TypeOK'
  BY <1>18 DEF TargetSet, CopiedLimits
<1>19. ASSUME NEW t \in Threads, DriverLock(t) PROVE TypeOK'
  <2>1. next' \in Freqs
    BY <1>19, Clipped DEF DriverLock
  <2> QED BY <1>19, <2>1, Types, TypesNext DEF DriverLock, Acquire
<1>20. ASSUME NEW t \in Threads, MoveClock(t) PROVE TypeOK'
  BY <1>20 DEF MoveClock
<1>21. ASSUME NEW t \in Threads, PlugCpu(t) PROVE TypeOK'
  BY <1>21 DEF PlugCpu
<1>22. ASSUME NEW t \in Threads, CpuCallback(t) PROVE TypeOK'
  BY <1>22 DEF CpuCallback, Free, NotOwned
<1>23. ASSUME NEW t \in Threads, SetFreq(t) PROVE TypeOK'
  BY <1>23 DEF SetFreq, Release
<1>24. ASSUME WorkBegin PROVE TypeOK'
  <2>1. pc' \in [Threads -> Pcs]
    BY <1>24, Types DEF WorkBegin
  <2> QED BY <1>24, <2>1, Types, TypesNext DEF WorkBegin
<1>25. ASSUME Sample PROVE TypeOK'
  <2>1. /\ want' \in [Threads -> Freqs \cup {0}] /\ freq_lo' \in Freqs \cup {0}
        /\ pc' \in [Threads -> Pcs] /\ sub' \in BOOLEAN
    <3>1. CASE SubSample
      BY <3>1, Types DEF SubSample, Target
    <3>2. CASE NormalSample
      <4>1. \A f \in Freqs : LowOf(f) \subseteq Freqs \cup {0}
        BY DEF LowOf
      <4>2. CASE ~set_flag /\ \E f \in Freqs : Target(Work, f) /\ freq_lo' \in LowOf(f)
                 /\ sub' = (freq_lo' # 0)
        BY <4>1, <4>2, Types DEF Target
      <4>3. CASE Goto(Work, "done") /\ freq_lo' = 0 /\ sub' = FALSE /\ UNCHANGED want
        BY <4>3, Types
      <4> QED BY <3>2, <4>2, <4>3 DEF NormalSample
    <3> QED BY <1>25, <3>1, <3>2 DEF Sample
  <2>2. lock' \in [Locks -> Threads \cup {NoOne}]
    BY <1>25, Types DEF Sample, Acquire
  <2> QED BY <1>25, <2>1, <2>2, Types, TypesNext DEF Sample
<1>26. ASSUME WorkEnd PROVE TypeOK'
  BY <1>26 DEF WorkEnd, Release
<1>27. ASSUME ShowSpeed PROVE TypeOK'
  <2>1. set_flag' \in BOOLEAN
    BY <1>27 DEF ShowSpeed
  <2> QED BY <1>27, <2>1, Types, TypesNext DEF ShowSpeed
<1>28. ASSUME StoreBias PROVE TypeOK'
  BY <1>28 DEF StoreBias
<1>29. ASSUME BpResume PROVE TypeOK'
  BY <1>29 DEF BpResume
<1>30. CASE UNCHANGED vars
  BY <1>30
<1> QED BY <1>1, <1>2, <1>3, <1>4, <1>5, <1>6, <1>7, <1>8, <1>9, <1>10, <1>11,
           <1>12, <1>13, <1>14, <1>15, <1>16, <1>17, <1>18, <1>19, <1>20,
           <1>21, <1>22, <1>23, <1>24, <1>25, <1>26, <1>27, <1>28, <1>29, <1>30
           DEF Next, Continue, Driver, Sampler

-----------------------------------------------------------------------------
(* What a thread was asked to do where it is                                *)

LEMMA FailuresGrow == ASSUME TypeOK, [Next]_vars PROVE Failures <= Failures'
<1> USE SwitchesAssumption DEF TypeOK, Failures, Governors, state, threads,
        sampling, governors, vars
<1>1. failed["vbfs"] \in Nat /\ failed["userspace"] \in Nat
  OBVIOUS
<1>2. ASSUME NEW g \in Governors, CreateFails(g) PROVE Failures <= Failures'
  BY <1>1, <1>2 DEF CreateFails
<1>3. ASSUME failed' = failed PROVE Failures <= Failures'
  BY <1>1, <1>3
<1>4. failed' = failed \/ \E g \in Governors : CreateFails(g)
  <2> USE DEF Write, HandleUpdate, ReadFreq, Compare, OutOfSync,
             SetPolicy, Unlock, Cancel, StopVbfs, StopUserspace,
             LimitsVbfs, LimitsUserspace, TakeForSpeed, SetSpeedVbfs,
             SetSpeedUserspace, TargetSet, DriverLock, MoveClock,
             PlugCpu, CpuCallback, SetFreq, WorkBegin, Sample, WorkEnd,
             ShowSpeed, StoreBias, BpResume
  <2>1. ASSUME NEW t \in Threads, Driver(t) PROVE failed' = failed
    BY <2>1 DEF Driver
  <2>2. ASSUME NEW t \in Writers, Write(t) \/ HandleUpdate(t) \/ Continue(t)
        PROVE  failed' = failed \/ \E g \in Governors : CreateFails(g)
    <3>1. CASE StartVbfs(t)
      BY <3>1 DEF StartVbfs
    <3>2. CASE StartUserspace(t)
      BY <3>2 DEF StartUserspace
    <3> QED BY <2>1, <2>2, <3>1, <3>2 DEF Continue, Threads
  <2> QED BY <2>1, <2>2 DEF Next, Sampler, Threads
<1> QED BY <1>2, <1>3, <1>4

LEMMA FailuresInt == ASSUME PolicyInv, [Next]_vars
                     PROVE  TypeOK /\ Failures \in Nat /\ Failures' \in Nat
<1>1. TypeOK /\ TypeOK'
  BY TypeStep DEF PolicyInv
<1> HIDE DEF Governors
<1>2. failed \in [Governors -> 0 .. MaxFail] /\ failed' \in [Governors -> 0 .. MaxFail]
  BY <1>1, Types, TypesNext
<1> QED BY <1>1, <1>2, SwitchesAssumption DEF Failures, Governors

(* A step of one task leaves what the others were asked alone               *)
LEMMA OpsFrame ==
  ASSUME PolicyInv, [Next]_vars, NEW t \in Writers, OpInv(t)',
         \A u \in Threads \ {t} :
           pc'[u] = pc[u] /\ op'[u] = op[u] /\ want'[u] = want[u],
         \/ policy'.governor = policy.governor
         \/ \A u \in Writers \ {t} : pc[u] \notin Switching
  PROVE  OpsInv'
<1>1. Failures <= Failures' /\ Failures \in Int /\ Failures' \in Int
  BY FailuresGrow, FailuresInt
<1>2. ASSUME NEW u \in Writers \ {t} PROVE OpInv(u)'
  BY <1>1, <1>2 DEF PolicyInv, OpsInv, OpInv, Threads, Switching
<1> QED BY <1>2, ThreadsAssumption DEF PolicyInv, OpsInv, Threads

LEMMA OpsFrameWork ==
  ASSUME PolicyInv, [Next]_vars, op' = op, policy'.governor = policy.governor,
         \A u \in Writers : pc'[u] = pc[u] /\ want'[u] = want[u],
         pc'[Work] \in {"idle", "timer_lock"} \cup InDriver
  PROVE  OpsInv'
<1>1. Failures <= Failures' /\ Failures \in Int /\ Failures' \in Int
  BY FailuresGrow, FailuresInt
<1>2. ASSUME NEW u \in Writers PROVE OpInv(u)'
  BY <1>1, <1>2 DEF PolicyInv, OpsInv, OpInv, Threads
<1> QED BY <1>2 DEF PolicyInv, OpsInv

(* A task in the CPU notifier waits for the semaphore that it has           *)
LEMMA CallbackOfWork ==
  ASSUME PolicyInv, NEW t \in Threads, CpuCallback(t) PROVE t = Work
<1> SUFFICES ASSUME t \in Writers PROVE FALSE
  BY DEF Threads
<1>1. pc[t] = "cpu_callback" /\ lock["rwsem"] = NoOne /\ ~Reading(t)
  BY DEF CpuCallback, Free, NotOwned
<1>2. Owns(t)
  BY <1>1 DEF PolicyInv, OpsInv, Owns, Reading
<1> QED BY <1>1, <1>2, ThreadsAssumption
           DEF PolicyInv, LocksInv, SemaphoreInv, Threads

LEMMA OpsStep == ASSUME PolicyInv, [Next]_vars PROVE OpsInv'
<1> USE ThreadsAssumption DEF PolicyInv, Threads, Goto, state, threads,
        sampling, governors, vars
<1> DEFINE Keeps(t) == \A u \in Threads \ {t} :
             pc'[u] = pc[u] /\ op'[u] = op[u] /\ want'[u] = want[u]
<1>1. ASSUME NEW t \in Writers, Write(t) PROVE OpsInv'
  <2>1. OpInv(t)'
    BY <1>1, Types DEF Write, Ops, OpInv, Switching
  <2>2. Keeps(t)
    BY <1>1, Types DEF Write
  <2> QED BY <1>1, <2>1, <2>2, OpsFrame DEF Write
<1>2. ASSUME NEW t \in Writers, HandleUpdate(t) PROVE OpsInv'
  <2>1. OpInv(t)'
    BY <1>2, Types DEF HandleUpdate, OpInv, Switching
  <2>2. Keeps(t)
    BY <1>2, Types DEF HandleUpdate
  <2> QED BY <1>2, <2>1, <2>2, OpsFrame DEF HandleUpdate
<1>3. ASSUME NEW t \in Writers, ReadFreq(t) PROVE OpsInv'
  <2>1. OpInv(t)'
    BY <1>3, Types DEF ReadFreq, OpInv, Switching
  <2>2. Keeps(t)
    BY <1>3 DEF ReadFreq
  <2> QED BY <1>3, <2>1, <2>2, OpsFrame DEF ReadFreq
<1>4. ASSUME NEW t \in Writers, Compare(t) PROVE OpsInv'
  <2>1. OpInv(t)'
    BY <1>4, Types DEF Compare, Known, NoOp, OpsInv, OpInv, Switching
  <2>2. Keeps(t)
    BY <1>4, Types DEF Compare, Known
  <2> QED BY <1>4, <2>1, <2>2, OpsFrame DEF Compare
<1>5. ASSUME NEW t \in Writers, OutOfSync(t) PROVE OpsInv'
  <2>1. OpInv(t)'
    BY <1>5, Types
       DEF OutOfSync, Known, UpdateAsked, NoOp, OpsInv, OpInv, Switching
  <2>2. Keeps(t)
    BY <1>5, Types DEF OutOfSync, Known, UpdateAsked
  <2> QED BY <1>5, <2>1, <2>2, OpsFrame DEF OutOfSync
<1>6. ASSUME NEW t \in Writers, SetPolicy(t) PROVE OpsInv'
  <2>1. /\ OpInv(t) /\ op[t] \in OpStates /\ op[t].kind \in Changes
        /\ policy'.governor = policy.governor
        /\ pc[t] \in {"rwsem", "set_policy"}
    BY <1>6, SetPolicyEffect
  <2>2. CASE pc' = [pc EXCEPT ![t] = "unlock"] /\ op' = op
    <3>1. OpInv(t)'
      BY <2>1, <2>2, Types DEF OpInv, Changes, Switching
    <3>2. Keeps(t)
      BY <1>6, <2>2, Types DEF SetPolicy
    <3> QED BY <1>6, <2>1, <3>1, <3>2, OpsFrame
  <2>3. ASSUME NEW new \in Policies, Sets(t, new) PROVE OpsInv'
    <3>1. /\ pc'[t] = (IF new.governor # policy.governor THEN "stop" ELSE "limits")
          /\ op'[t] = [op[t] EXCEPT !.governor = new.governor]
          /\ op[t].kind # "governor" => new.governor = policy.governor
      BY <2>3, Types DEF Sets
    <3>2. OpInv(t)'
      BY <2>1, <3>1 DEF OpInv, OpStates, Changes, Switching, Policies
    <3>3. Keeps(t)
      BY <1>6, <2>3, Types DEF SetPolicy, Sets
    <3> QED BY <1>6, <2>1, <3>2, <3>3, OpsFrame
  <2> QED BY <1>6, <2>2, <2>3, SetPolicyEffect
<1>7. ASSUME NEW t \in Writers, Unlock(t) PROVE OpsInv'
  <2>1. OpInv(t)'
    BY <1>7, Types DEF Unlock, NoOp, OpInv, Switching
  <2>2. Keeps(t)
    BY <1>7, Types DEF Unlock, Release
  <2> QED BY <1>7, <2>1, <2>2, OpsFrame DEF Unlock
<1>8. ASSUME NEW t \in Writers, Cancel(t) PROVE OpsInv'
  <2>1. OpInv(t)'
    BY <1>8 DEF Cancel, OpsInv, OpInv, Switching
  <2>2. Keeps(t)
    BY <1>8, Types DEF Cancel
  <2> QED BY <1>8, <2>1, <2>2, OpsFrame DEF Cancel
<1>9. ASSUME NEW t \in Writers, StopVbfs(t) PROVE OpsInv'
  <2>1. OpInv(t)'
    BY <1>9 DEF StopVbfs, WorkIsOver, EnableAfterStop, OpsInv, OpInv, Switching
  <2>2. Keeps(t)
    BY <1>9 DEF StopVbfs, WorkIsOver, EnableAfterStop
  <2> QED BY <1>9, <2>1, <2>2, OpsFrame DEF StopVbfs
<1>10. ASSUME NEW t \in Writers, StopUserspace(t) PROVE OpsInv'
  <2>1. OpInv(t)'
    BY <1>10 DEF StopUserspace, Unmanaged, OpsInv, OpInv, Switching
  <2>2. Keeps(t)
    BY <1>10, Types DEF StopUserspace, Unmanaged
  <2> QED BY <1>10, <2>1, <2>2, OpsFrame DEF StopUserspace
<1>11. ASSUME NEW t \in Writers, StartVbfs(t) PROVE OpsInv'
  <2>1. /\ pc[t] \in Stopped /\ op[t].governor = "vbfs" /\ op[t] \in OpStates
        /\ OpInv(t) /\ policy \in Policies
    BY <1>11, Types DEF StartVbfs, Starting, Stopped, OpsInv
  <2>2. /\ op'[t] = [op[t] EXCEPT !.governor = policy.governor]
        /\ policy' = [policy EXCEPT !.governor = op[t].governor]
    BY <1>11, Types DEF StartVbfs, Exchange
  <2>3. \/ pc'[t] \in {"limits", "unlock"}
        \/ pc'[t] = "restart" /\ \E g \in Governors : CreateFails(g)
    BY <1>11, Types DEF StartVbfs, Started, AfterFailure, Governors
  <2>4. ASSUME NEW g \in Governors, CreateFails(g) PROVE Failures' >= 1
    BY <2>4, SwitchesAssumption, Types DEF CreateFails, Failures, Governors
  <2>5. OpInv(t)'
    BY <2>1, <2>2, <2>3, <2>4
       DEF OpInv, OpStates, Policies, Changes, Switching, Stopped
  <2>6. Keeps(t)
    BY <1>11, Types DEF StartVbfs, Exchange, Started, AfterFailure
  <2>7. ASSUME NEW u \in Writers \ {t} PROVE pc[u] \notin Switching
    BY <2>1, OneOwner DEF OpsInv, OpInv, Owns, Switching, Stopped
  <2> QED BY <1>11, <2>5, <2>6, <2>7, OpsFrame
<1>12. ASSUME NEW t \in Writers, StartUserspace(t) PROVE OpsInv'
  <2>1. /\ pc[t] \in Stopped /\ op[t].governor = "userspace" /\ op[t] \in OpStates
        /\ OpInv(t) /\ policy \in Policies
    BY <1>12, Types DEF StartUserspace, Starting, Stopped, OpsInv
  <2>2. /\ op'[t] = [op[t] EXCEPT !.governor = policy.governor]
        /\ policy' = [policy EXCEPT !.governor = op[t].governor]
    BY <1>12, Types DEF StartUserspace, Exchange
  <2>3. \/ pc'[t] \in {"limits", "unlock"}
        \/ pc'[t] = "restart" /\ \E g \in Governors : CreateFails(g)
    BY <1>12, Types DEF StartUserspace, Started, AfterFailure, Governors
  <2>4. ASSUME NEW g \in Governors, CreateFails(g) PROVE Failures' >= 1
    BY <2>4, SwitchesAssumption, Types DEF CreateFails, Failures, Governors
  <2>5. OpInv(t)'
    BY <2>1, <2>2, <2>3, <2>4
       DEF OpInv, OpStates, Policies, Changes, Switching, Stopped
  <2>6. Keeps(t)
    BY <1>12, Types DEF StartUserspace, Exchange, Started, AfterFailure
  <2>7. ASSUME NEW u \in Writers \ {t} PROVE pc[u] \notin Switching
    BY <2>1, OneOwner DEF OpsInv, OpInv, Owns, Switching, Stopped
  <2> QED BY <1>12, <2>5, <2>6, <2>7, OpsFrame
<1>13. ASSUME NEW t \in Writers, LimitsVbfs(t) PROVE OpsInv'
  <2>1. /\ pc[t] = "limits" /\ op' = op
        /\ \/ pc' = [pc EXCEPT ![t] = "unlock"] /\ want' = want
           \/ \E f : pc' = [pc EXCEPT ![t] = "target"] /\ want' = [want EXCEPT ![t] = f]
    BY <1>13 DEF LimitsVbfs, Target
  <2>2. OpInv(t)'
    BY <2>1, Types DEF OpsInv, OpInv, Switching
  <2>3. Keeps(t)
    BY <2>1, Types
  <2> QED BY <1>13, <2>2, <2>3, OpsFrame DEF LimitsVbfs
<1>14. ASSUME NEW t \in Writers, LimitsUserspace(t) PROVE OpsInv'
  <2>1. OpInv(t)'
    BY <1>14 DEF LimitsUserspace, Target, OpsInv, OpInv, Switching
  <2>2. Keeps(t)
    BY <1>14 DEF LimitsUserspace, Target
  <2> QED BY <1>14, <2>1, <2>2, OpsFrame DEF LimitsUserspace
<1>15. ASSUME NEW t \in Writers, TakeForSpeed(t) PROVE OpsInv'
  <2>1. OpInv(t)'
    BY <1>15 DEF TakeForSpeed, OpsInv, OpInv, Switching
  <2>2. Keeps(t)
    BY <1>15 DEF TakeForSpeed
  <2> QED BY <1>15, <2>1, <2>2, OpsFrame DEF TakeForSpeed
<1>16. ASSUME NEW t \in Writers, SetSpeedVbfs(t) PROVE OpsInv'
  <2>1. OpInv(t)'
    BY <1>16 DEF SetSpeedVbfs, Target, OpsInv, OpInv, Switching
  <2>2. Keeps(t)
    BY <1>16 DEF SetSpeedVbfs, Target
  <2> QED BY <1>16, <2>1, <2>2, OpsFrame DEF SetSpeedVbfs
<1>17. ASSUME NEW t \in Writers, SetSpeedUserspace(t) PROVE OpsInv'
  <2>1. /\ pc[t] = "speed" /\ op' = op
        /\ \/ pc' = [pc EXCEPT ![t] = "unlock"] /\ want' = want
           \/ \E f : pc' = [pc EXCEPT ![t] = "target"] /\ want' = [want EXCEPT ![t] = f]
    BY <1>17 DEF SetSpeedUserspace, Target
  <2>2. OpInv(t)'
    BY <2>1, Types DEF OpsInv, OpInv, Switching
  <2>3. Keeps(t)
    BY <2>1, Types
  <2> QED BY <1>17, <2>2, <2>3, OpsFrame DEF SetSpeedUserspace
<1>18. ASSUME NEW t \in Writers, TargetSet(t) PROVE OpsInv'
  <2>1. OpInv(t)'
    BY <1>18 DEF TargetSet, OpsInv, OpInv, Switching
  <2>2. Keeps(t)
    BY <1>18, Types DEF TargetSet, CopiedLimits
  <2> QED BY <1>18, <2>1, <2>2, OpsFrame DEF TargetSet
<1>19. ASSUME NEW t \in Threads, DriverLock(t) PROVE OpsInv'
  <2>1. CASE t \in Writers
    <3>1. OpInv(t)'
      BY <1>19, <2>1 DEF DriverLock, OpsInv, OpInv, Switching
    <3>2. Keeps(t)
      BY <1>19, Types DEF DriverLock
    <3> QED BY <1>19, <2>1, <3>1, <3>2, OpsFrame DEF DriverLock
  <2>2. CASE t = Work
    BY <1>19, <2>2, OpsFrameWork, Types DEF DriverLock, InDriver, OpsInv
  <2> QED BY <2>1, <2>2
<1>20. ASSUME NEW t \in Threads, MoveClock(t) PROVE OpsInv'
  <2>1. CASE t \in Writers
    <3>1. OpInv(t)'
      BY <1>20, <2>1 DEF MoveClock, OpsInv, OpInv, Switching
    <3>2. Keeps(t)
      BY <1>20, Types DEF MoveClock
    <3> QED BY <1>20, <2>1, <3>1, <3>2, OpsFrame DEF MoveClock
  <2>2. CASE t = Work
    BY <1>20, <2>2, OpsFrameWork, Types DEF MoveClock, InDriver, OpsInv
  <2> QED BY <2>1, <2>2
<1>21. ASSUME NEW t \in Threads, PlugCpu(t) PROVE OpsInv'
  <2>1. CASE t \in Writers
    <3>1. OpInv(t)'
      BY <1>21, <2>1 DEF PlugCpu, OpsInv, OpInv, Switching
    <3>2. Keeps(t)
      BY <1>21, Types DEF PlugCpu
    <3> QED BY <1>21, <2>1, <3>1, <3>2, OpsFrame DEF PlugCpu
  <2>2. CASE t = Work
    BY <1>21, <2>2, OpsFrameWork, Types DEF PlugCpu, InDriver, OpsInv
  <2> QED BY <2>1, <2>2
<1>22. ASSUME NEW t \in Threads, CpuCallback(t) PROVE OpsInv'
  <2>1. t = Work
    BY <1>22, CallbackOfWork
  <2> QED BY <1>22, <2>1, OpsFrameWork, Types DEF CpuCallback, InDriver, OpsInv
<1>23. ASSUME NEW t \in Threads, SetFreq(t) PROVE OpsInv'
  <2>1. CASE t \in Writers
    <3>1. OpInv(t)'
      BY <1>23, <2>1 DEF SetFreq, OpsInv, OpInv, Switching
    <3>2. Keeps(t)
      BY <1>23, Types DEF SetFreq
    <3> QED BY <1>23, <2>1, <3>1, <3>2, OpsFrame DEF SetFreq
  <2>2. CASE t = Work
    BY <1>23, <2>2, OpsFrameWork, Types DEF SetFreq, InDriver, OpsInv
  <2> QED BY <2>1, <2>2
<1>24. ASSUME WorkBegin PROVE OpsInv'
  BY <1>24, OpsFrameWork, Types DEF WorkBegin, InDriver, OpsInv
<1>25. ASSUME Sample PROVE OpsInv'
  <2>1. /\ op' = op /\ pc' \in {[pc EXCEPT ![Work] = p] : p \in {"target", "done"}}
        /\ UNCHANGED policy /\ \E f : want' = [want EXCEPT ![Work] = f]
    <3>1. CASE SubSample
      BY <1>25, <3>1 DEF Sample, SubSample, Target
    <3>2. CASE NormalSample
      <4>1. CASE ~set_flag /\ \E f \in Freqs : Target(Work, f) /\ freq_lo' \in LowOf(f)
                 /\ sub' = (freq_lo' # 0)
        BY <1>25, <4>1 DEF Sample, Target
      <4>2. CASE Goto(Work, "done") /\ freq_lo' = 0 /\ sub' = FALSE /\ UNCHANGED want
        <5>1. want' = [want EXCEPT ![Work] = want[Work]]
          BY <4>2, Types
        <5> QED BY <1>25, <4>2, <5>1 DEF Sample
      <4> QED BY <3>2, <4>1, <4>2 DEF NormalSample
    <3> QED BY <1>25, <3>1, <3>2 DEF Sample
  <2> QED BY <2>1, OpsFrameWork, Types DEF InDriver, OpsInv
<1>26. ASSUME WorkEnd PROVE OpsInv'
  BY <1>26, OpsFrameWork, Types DEF WorkEnd, InDriver, OpsInv
<1>27. ASSUME ShowSpeed PROVE OpsInv'
  BY <1>27, OpsFrameWork, Types DEF ShowSpeed, OpsInv
<1>28. ASSUME StoreBias PROVE OpsInv'
  BY <1>28, OpsFrameWork, Types DEF StoreBias, OpsInv
<1>29. ASSUME BpResume PROVE OpsInv'
  BY <1>29, OpsFrameWork, Types DEF BpResume, OpsInv
<1>30. CASE UNCHANGED vars
  BY <1>30, OpsFrameWork, Types DEF OpsInv
<1> QED BY <1>1, <1>2, <1>3, <1>4, <1>5, <1>6, <1>7, <1>8, <1>9, <1>10, <1>11,
           <1>12, <1>13, <1>14, <1>15, <1>16, <1>17, <1>18, <1>19, <1>20,
           <1>21, <1>22, <1>23, <1>24, <1>25, <1>26, <1>27, <1>28, <1>29, <1>30
           DEF Next, Continue, Driver, Sampler

-----------------------------------------------------------------------------
(* Who owns the locks                                                       *)

(* Where the task of SetPolicy goes, and who stays where he is              *)
LEMMA SetPolicyMoves ==
  ASSUME PolicyInv, NEW t \in Writers, SetPolicy(t)
  PROVE  /\ op[t] \in OpStates /\ op[t].kind \in Changes /\ OpInv(t)
         /\ pc[t] \in {"rwsem", "set_policy"}
         /\ pc'[t] \in {"unlock", "stop", "limits"}
         /\ lock' = [lock EXCEPT !["rwsem"] = t]
         /\ policy'.governor = policy.governor /\ op'[t].kind = op[t].kind
         /\ \A u \in Threads \ {t} : pc'[u] = pc[u] /\ op'[u] = op[u]
<1> USE DEF PolicyInv
<1>1. CASE op' = op /\ pc' = [pc EXCEPT ![t] = "unlock"]
  BY <1>1, SetPolicyEffect, Types DEF Threads
<1>2. ASSUME NEW new \in Policies, Sets(t, new)
      PROVE  /\ pc'[t] \in {"stop", "limits"} /\ op'[t].kind = op[t].kind
             /\ \A u \in Threads \ {t} : pc'[u] = pc[u] /\ op'[u] = op[u]
  <2>1. [op[t] EXCEPT !.governor = new.governor].kind = op[t].kind
    BY Types DEF OpStates, Threads
  <2> QED BY <1>2, <2>1, Types DEF Sets, Threads
<1> QED BY <1>1, <1>2, SetPolicyEffect

LEMMA SemaphoreStep == ASSUME PolicyInv, [Next]_vars PROVE SemaphoreInv'
<1> USE ThreadsAssumption DEF PolicyInv, LocksInv, SemaphoreInv, Threads, Locks, Goto, state, threads,
        sampling, governors, vars
<1>1. ASSUME NEW t \in Writers, Write(t) PROVE SemaphoreInv'
  BY <1>1, Types DEF Write, OpsInv, Owns, Reading
<1>2. ASSUME NEW t \in Writers, HandleUpdate(t) PROVE SemaphoreInv'
  BY <1>2 DEF HandleUpdate, Owns, Reading
<1>3. ASSUME NEW t \in Writers, ReadFreq(t) PROVE SemaphoreInv'
  BY <1>3, Types DEF ReadFreq, NotOwned, Acquire, Free, OpsInv, Owns, Reading
<1>4. ASSUME NEW t \in Writers, Compare(t) PROVE SemaphoreInv'
  BY <1>4, Types DEF Compare, Known, Owns, Reading
<1>5. ASSUME NEW t \in Writers, OutOfSync(t) PROVE SemaphoreInv'
  BY <1>5, Types DEF OutOfSync, Known, UpdateAsked, Owns, Reading
<1>6. ASSUME NEW t \in Writers, SetPolicy(t) PROVE SemaphoreInv'
  <2>1. /\ op[t] \in OpStates /\ op[t].kind \in Changes /\ OpInv(t)
        /\ pc[t] \in {"rwsem", "set_policy"}
        /\ pc'[t] \in {"unlock", "stop", "limits"}
        /\ lock' = [lock EXCEPT !["rwsem"] = t]
        /\ policy'.governor = policy.governor /\ op'[t].kind = op[t].kind
        /\ \A u \in Threads \ {t} : pc'[u] = pc[u] /\ op'[u] = op[u]
    BY <1>6, SetPolicyMoves
  <2>2. Free("rwsem") \/ Owns(t)
    BY <1>6, <2>1 DEF SetPolicy, Acquire, OpInv, Owns
  <2> QED BY <2>1, <2>2, Types DEF Owns, Reading, Free, NotOwned, Changes
<1>7. ASSUME NEW t \in Writers, Unlock(t) PROVE SemaphoreInv'
  BY <1>7, Types DEF Unlock, Release, OpsInv, OpInv, Owns
<1>8. ASSUME NEW t \in Writers, Cancel(t) PROVE SemaphoreInv'
  BY <1>8 DEF Cancel, Owns, Reading
<1>9. ASSUME NEW t \in Writers, StopVbfs(t) PROVE SemaphoreInv'
  BY <1>9 DEF StopVbfs, WorkIsOver, EnableAfterStop, Owns, Reading
<1>10. ASSUME NEW t \in Writers, StopUserspace(t) PROVE SemaphoreInv'
  BY <1>10 DEF StopUserspace, Unmanaged, Owns, Reading
<1>11. ASSUME NEW t \in Writers, StartVbfs(t) PROVE SemaphoreInv'
  BY <1>11, Types
     DEF StartVbfs, Starting, Exchange, Started, AfterFailure, CreateFails,
         OpsInv, Owns, Reading
<1>12. ASSUME NEW t \in Writers, StartUserspace(t) PROVE SemaphoreInv'
  BY <1>12, Types
     DEF StartUserspace, Starting, Exchange, Started, AfterFailure,
         CreateFails, OpsInv, Owns, Reading
<1>13. ASSUME NEW t \in Writers, LimitsVbfs(t) PROVE SemaphoreInv'
  BY <1>13, Types DEF LimitsVbfs, Acquire, Target, OpsInv, OpInv, Owns, Reading
<1>14. ASSUME NEW t \in Writers, LimitsUserspace(t) PROVE SemaphoreInv'
  BY <1>14 DEF LimitsUserspace, Acquire, Target, Owns, Reading
<1>15. ASSUME NEW t \in Writers, TakeForSpeed(t) PROVE SemaphoreInv'
  BY <1>15, Types
     DEF TakeForSpeed, Acquire, Free, NotOwned, OpsInv, Owns, Reading
<1>16. ASSUME NEW t \in Writers, SetSpeedVbfs(t) PROVE SemaphoreInv'
  BY <1>16 DEF SetSpeedVbfs, Acquire, Target, Owns, Reading
<1>17. ASSUME NEW t \in Writers, SetSpeedUserspace(t) PROVE SemaphoreInv'
  BY <1>17, Types DEF SetSpeedUserspace, Acquire, Target, Owns, Reading
<1>18. ASSUME NEW t \in Writers, TargetSet(t) PROVE SemaphoreInv'
  BY <1>18 DEF TargetSet, Owns, Reading
<1>19. ASSUME NEW t \in Threads, DriverLock(t) PROVE SemaphoreInv'
  BY <1>19 DEF DriverLock, Acquire, Owns, Reading
<1>20. ASSUME NEW t \in Threads, MoveClock(t) PROVE SemaphoreInv'
  BY <1>20 DEF MoveClock, Owns, Reading
<1>21. ASSUME NEW t \in Threads, PlugCpu(t) PROVE SemaphoreInv'
  BY <1>21 DEF PlugCpu, Owns, Reading
<1>22. ASSUME NEW t \in Threads, CpuCallback(t) PROVE SemaphoreInv'
  BY <1>22, CallbackOfWork DEF CpuCallback, Owns, Reading
<1>23. ASSUME NEW t \in Threads, SetFreq(t) PROVE SemaphoreInv'
  BY <1>23 DEF SetFreq, Release, Owns, Reading
<1>24. ASSUME WorkBegin PROVE SemaphoreInv'
  BY <1>24 DEF WorkBegin, Owns, Reading
<1>25. ASSUME Sample PROVE SemaphoreInv'
  BY <1>25, Types
     DEF Sample, Acquire, SubSample, NormalSample, Target, LowOf, Owns, Reading
<1>26. ASSUME WorkEnd PROVE SemaphoreInv'
  BY <1>26 DEF WorkEnd, Release, Owns, Reading
<1>27. ASSUME ShowSpeed PROVE SemaphoreInv'
  BY <1>27 DEF ShowSpeed, Owns, Reading
<1>28. ASSUME StoreBias PROVE SemaphoreInv'
  BY <1>28 DEF StoreBias, Owns, Reading
<1>29. ASSUME BpResume PROVE SemaphoreInv'
  BY <1>29 DEF BpResume, Owns, Reading
<1>30. CASE UNCHANGED vars
  BY <1>30 DEF OpsInv, Owns, Reading
<1> QED BY <1>1, <1>2, <1>3, <1>4, <1>5, <1>6, <1>7, <1>8, <1>9, <1>10, <1>11,
           <1>12, <1>13, <1>14, <1>15, <1>16, <1>17, <1>18, <1>19, <1>20,
           <1>21, <1>22, <1>23, <1>24, <1>25, <1>26, <1>27, <1>28, <1>29, <1>30
           DEF Next, Continue, Driver, Sampler

LEMMA MutexesStep == ASSUME PolicyInv, [Next]_vars PROVE MutexesInv'
<1> USE ThreadsAssumption DEF PolicyInv, LocksInv, MutexesInv, Threads, Locks, Goto, state, threads,
        sampling, governors, vars
<1>1. ASSUME NEW t \in Writers, Write(t) PROVE MutexesInv'
  BY <1>1 DEF Write, Holds, InDriver
<1>2. ASSUME NEW t \in Writers, HandleUpdate(t) PROVE MutexesInv'
  BY <1>2 DEF HandleUpdate, Holds, InDriver
<1>3. ASSUME NEW t \in Writers, ReadFreq(t) PROVE MutexesInv'
  BY <1>3, Types DEF ReadFreq, Acquire, Holds, InDriver
<1>4. ASSUME NEW t \in Writers, Compare(t) PROVE MutexesInv'
  BY <1>4, Types DEF Compare, Known, Holds, InDriver
<1>5. ASSUME NEW t \in Writers, OutOfSync(t) PROVE MutexesInv'
  BY <1>5, Types
     DEF OutOfSync, Known, UpdateAsked, OpsInv, OpInv, Holds, InDriver
<1>6. ASSUME NEW t \in Writers, SetPolicy(t) PROVE MutexesInv'
  <2>1. /\ op[t] \in OpStates /\ op[t].kind \in Changes /\ OpInv(t)
        /\ pc[t] \in {"rwsem", "set_policy"}
        /\ pc'[t] \in {"unlock", "stop", "limits"}
        /\ lock' = [lock EXCEPT !["rwsem"] = t]
        /\ policy'.governor = policy.governor /\ op'[t].kind = op[t].kind
        /\ \A u \in Threads \ {t} : pc'[u] = pc[u] /\ op'[u] = op[u]
    BY <1>6, SetPolicyMoves
  <2> QED BY <2>1, Types DEF Holds, InDriver, Changes, OpsInv
<1>7. ASSUME NEW t \in Writers, Unlock(t) PROVE MutexesInv'
  BY <1>7 DEF Unlock, Release, Holds, InDriver
<1>8. ASSUME NEW t \in Writers, Cancel(t) PROVE MutexesInv'
  BY <1>8 DEF Cancel, Holds, InDriver
<1>9. ASSUME NEW t \in Writers, StopVbfs(t) PROVE MutexesInv'
  BY <1>9 DEF StopVbfs, WorkIsOver, EnableAfterStop, Holds, InDriver
<1>10. ASSUME NEW t \in Writers, StopUserspace(t) PROVE MutexesInv'
  BY <1>10 DEF StopUserspace, Unmanaged, Holds, InDriver
<1>11. ASSUME NEW t \in Writers, StartVbfs(t) PROVE MutexesInv'
  <2>1. /\ pc[t] \in Stopped /\ OpInv(t) /\ Owns(t) /\ pc[Work] = "idle"
    BY <1>11
       DEF StartVbfs, Starting, Stopped, OpsInv, OpInv, Owns, GovernorsInv,
           Stopped
  <2>2. \A l \in {"timer_mutex", "vbfs_mutex", "userspace_mutex"} : lock[l] = NoOne
    <3>1. ASSUME NEW u \in Threads PROVE ~\E l \in {"timer_mutex", "vbfs_mutex", "userspace_mutex"} : Holds(u, l)
      <4>1. CASE u = Work
        BY <2>1, <4>1 DEF Holds, InDriver
      <4>2. CASE u \in Writers /\ pc[u] \in InDriver /\ op[u].kind # "get"
        BY <2>1, <4>2, OneOwner DEF Owns, InDriver, Stopped
      <4> QED BY <4>1, <4>2 DEF Holds, Changes
    <3> QED BY <3>1, Types
  <2>3. pc'[Work] = pc[Work] /\ lock' = lock
    BY <1>11, Types DEF StartVbfs, Started, AfterFailure
  <2> QED BY <2>1, <2>2, <2>3 DEF InDriver
<1>12. ASSUME NEW t \in Writers, StartUserspace(t) PROVE MutexesInv'
  <2>1. /\ pc[t] \in Stopped /\ OpInv(t) /\ Owns(t) /\ pc[Work] = "idle"
    BY <1>12
       DEF StartUserspace, Starting, Stopped, OpsInv, OpInv, Owns,
           GovernorsInv, Stopped
  <2>2. \A l \in {"timer_mutex", "vbfs_mutex", "userspace_mutex"} : lock[l] = NoOne
    <3>1. ASSUME NEW u \in Threads PROVE ~\E l \in {"timer_mutex", "vbfs_mutex", "userspace_mutex"} : Holds(u, l)
      <4>1. CASE u = Work
        BY <2>1, <4>1 DEF Holds, InDriver
      <4>2. CASE u \in Writers /\ pc[u] \in InDriver /\ op[u].kind # "get"
        BY <2>1, <4>2, OneOwner DEF Owns, InDriver, Stopped
      <4> QED BY <4>1, <4>2 DEF Holds, Changes
    <3> QED BY <3>1, Types
  <2>3. pc'[Work] = pc[Work] /\ lock' = lock
    BY <1>12, Types DEF StartUserspace, Started, AfterFailure
  <2> QED BY <2>1, <2>2, <2>3 DEF InDriver
<1>13. ASSUME NEW t \in Writers, LimitsVbfs(t) PROVE MutexesInv'
  BY <1>13, Types
     DEF LimitsVbfs, LimitsMutex, Acquire, Target, Free, NotOwned, OpsInv,
         OpInv, Holds, InDriver
<1>14. ASSUME NEW t \in Writers, LimitsUserspace(t) PROVE MutexesInv'
  BY <1>14, Types
     DEF LimitsUserspace, Acquire, Target, OpsInv, OpInv, Holds, InDriver
<1>15. ASSUME NEW t \in Writers, TakeForSpeed(t) PROVE MutexesInv'
  BY <1>15 DEF TakeForSpeed, Acquire, Holds, InDriver
<1>16. ASSUME NEW t \in Writers, SetSpeedVbfs(t) PROVE MutexesInv'
  BY <1>16, Types
     DEF SetSpeedVbfs, Acquire, Target, OpsInv, OpInv, Holds, InDriver
<1>17. ASSUME NEW t \in Writers, SetSpeedUserspace(t) PROVE MutexesInv'
  BY <1>17, Types
     DEF SetSpeedUserspace, Acquire, Target, OpsInv, OpInv, Holds, InDriver
<1>18. ASSUME NEW t \in Writers, TargetSet(t) PROVE MutexesInv'
  BY <1>18 DEF TargetSet, Holds
<1>19. ASSUME NEW t \in Threads, DriverLock(t) PROVE MutexesInv'
  BY <1>19 DEF DriverLock, Acquire, Holds, InDriver
<1>20. ASSUME NEW t \in Threads, MoveClock(t) PROVE MutexesInv'
  BY <1>20 DEF MoveClock, Holds, InDriver
<1>21. ASSUME NEW t \in Threads, PlugCpu(t) PROVE MutexesInv'
  BY <1>21 DEF PlugCpu, OpsInv, Holds, InDriver
<1>22. ASSUME NEW t \in Threads, CpuCallback(t) PROVE MutexesInv'
  BY <1>22, CallbackOfWork DEF CpuCallback, Holds, InDriver
<1>23. ASSUME NEW t \in Threads, SetFreq(t) PROVE MutexesInv'
  BY <1>23 DEF SetFreq, Release, Holds, InDriver
<1>24. ASSUME WorkBegin PROVE MutexesInv'
  BY <1>24 DEF WorkBegin, Holds, InDriver
<1>25. ASSUME Sample PROVE MutexesInv'
  BY <1>25, Types
     DEF Sample, Acquire, SubSample, NormalSample, Target, LowOf, Holds,
         InDriver
<1>26. ASSUME WorkEnd PROVE MutexesInv'
  BY <1>26, Types DEF WorkEnd, Release, Holds, InDriver
<1>27. ASSUME ShowSpeed PROVE MutexesInv'
  BY <1>27 DEF ShowSpeed, Holds
<1>28. ASSUME StoreBias PROVE MutexesInv'
  BY <1>28 DEF StoreBias, Holds
<1>29. ASSUME BpResume PROVE MutexesInv'
  BY <1>29 DEF BpResume, Holds
<1>30. CASE UNCHANGED vars
  BY <1>30 DEF OpsInv, OpInv, Holds
<1> QED BY <1>1, <1>2, <1>3, <1>4, <1>5, <1>6, <1>7, <1>8, <1>9, <1>10, <1>11,
           <1>12, <1>13, <1>14, <1>15, <1>16, <1>17, <1>18, <1>19, <1>20,
           <1>21, <1>22, <1>23, <1>24, <1>25, <1>26, <1>27, <1>28, <1>29, <1>30
           DEF Next, Continue, Driver, Sampler

LEMMA FreqLockStep == ASSUME PolicyInv, [Next]_vars PROVE FreqLockInv'
<1> USE ThreadsAssumption DEF PolicyInv, LocksInv, FreqLockInv, Threads, Locks, Goto, state, threads,
        sampling, governors, vars
<1>1. ASSUME NEW t \in Writers, Write(t) PROVE FreqLockInv'
  BY <1>1 DEF Write, OpsInv, OpInv
<1>2. ASSUME NEW t \in Writers, HandleUpdate(t) PROVE FreqLockInv'
  BY <1>2 DEF HandleUpdate, OpsInv, OpInv
<1>3. ASSUME NEW t \in Writers, ReadFreq(t) PROVE FreqLockInv'
  BY <1>3, Types DEF ReadFreq, Acquire
<1>4. ASSUME NEW t \in Writers, Compare(t) PROVE FreqLockInv'
  BY <1>4, Types DEF Compare, Known, OpsInv
<1>5. ASSUME NEW t \in Writers, OutOfSync(t) PROVE FreqLockInv'
  BY <1>5, Types DEF OutOfSync, Known, UpdateAsked, OpsInv, OpInv
<1>6. ASSUME NEW t \in Writers, SetPolicy(t) PROVE FreqLockInv'
  BY <1>6, Types DEF SetPolicy, NewPolicy, Refused, AfterRefusal, Acquire
<1>7. ASSUME NEW t \in Writers, Unlock(t) PROVE FreqLockInv'
  BY <1>7 DEF Unlock, Release
<1>8. ASSUME NEW t \in Writers, Cancel(t) PROVE FreqLockInv'
  BY <1>8 DEF Cancel, OpsInv, OpInv
<1>9. ASSUME NEW t \in Writers, StopVbfs(t) PROVE FreqLockInv'
  BY <1>9 DEF StopVbfs, WorkIsOver, EnableAfterStop
<1>10. ASSUME NEW t \in Writers, StopUserspace(t) PROVE FreqLockInv'
  BY <1>10 DEF StopUserspace, Unmanaged
<1>11. ASSUME NEW t \in Writers, StartVbfs(t) PROVE FreqLockInv'
  BY <1>11, Types
     DEF StartVbfs, Starting, Exchange, Started, AfterFailure, CreateFails,
         OpsInv
<1>12. ASSUME NEW t \in Writers, StartUserspace(t) PROVE FreqLockInv'
  BY <1>12, Types
     DEF StartUserspace, Starting, Exchange, Started, AfterFailure,
         CreateFails, OpsInv
<1>13. ASSUME NEW t \in Writers, LimitsVbfs(t) PROVE FreqLockInv'
  BY <1>13, Types DEF LimitsVbfs, LimitsMutex, Acquire, Target
<1>14. ASSUME NEW t \in Writers, LimitsUserspace(t) PROVE FreqLockInv'
  BY <1>14 DEF LimitsUserspace, Acquire, Target
<1>15. ASSUME NEW t \in Writers, TakeForSpeed(t) PROVE FreqLockInv'
  BY <1>15 DEF TakeForSpeed, Acquire
<1>16. ASSUME NEW t \in Writers, SetSpeedVbfs(t) PROVE FreqLockInv'
  BY <1>16 DEF SetSpeedVbfs, Acquire, Target
<1>17. ASSUME NEW t \in Writers, SetSpeedUserspace(t) PROVE FreqLockInv'
  BY <1>17, Types DEF SetSpeedUserspace, Acquire, Target
<1>18. ASSUME NEW t \in Writers, TargetSet(t) PROVE FreqLockInv'
  BY <1>18 DEF TargetSet, OpsInv, OpInv
<1>19. ASSUME NEW t \in Threads, DriverLock(t) PROVE FreqLockInv'
  BY <1>19, Types DEF DriverLock, Acquire, Free, NotOwned
<1>20. ASSUME NEW t \in Threads, MoveClock(t) PROVE FreqLockInv'
  BY <1>20 DEF MoveClock, OpsInv, OpInv
<1>21. ASSUME NEW t \in Threads, PlugCpu(t) PROVE FreqLockInv'
  BY <1>21 DEF PlugCpu, OpsInv, InDriver
<1>22. ASSUME NEW t \in Threads, CpuCallback(t) PROVE FreqLockInv'
  BY <1>22, CallbackOfWork DEF CpuCallback, OpsInv, OpInv
<1>23. ASSUME NEW t \in Threads, SetFreq(t) PROVE FreqLockInv'
  BY <1>23, Types DEF SetFreq, Release, OpsInv
<1>24. ASSUME WorkBegin PROVE FreqLockInv'
  BY <1>24 DEF WorkBegin, OpsInv, OpInv
<1>25. ASSUME Sample PROVE FreqLockInv'
  BY <1>25, Types DEF Sample, Acquire, SubSample, NormalSample, Target, LowOf
<1>26. ASSUME WorkEnd PROVE FreqLockInv'
  BY <1>26 DEF WorkEnd, Release
<1>27. ASSUME ShowSpeed PROVE FreqLockInv'
  BY <1>27 DEF ShowSpeed, OpsInv, OpInv
<1>28. ASSUME StoreBias PROVE FreqLockInv'
  BY <1>28 DEF StoreBias, OpsInv, OpInv
<1>29. ASSUME BpResume PROVE FreqLockInv'
  BY <1>29 DEF BpResume, OpsInv, OpInv
<1>30. CASE UNCHANGED vars
  BY <1>30 DEF OpsInv, OpInv, InDriver
<1> QED BY <1>1, <1>2, <1>3, <1>4, <1>5, <1>6, <1>7, <1>8, <1>9, <1>10, <1>11,
           <1>12, <1>13, <1>14, <1>15, <1>16, <1>17, <1>18, <1>19, <1>20,
           <1>21, <1>22, <1>23, <1>24, <1>25, <1>26, <1>27, <1>28, <1>29, <1>30
           DEF Next, Continue, Driver, Sampler


-----------------------------------------------------------------------------
(* The states of the governors                                              *)

LEMMA GovernorsStep == ASSUME PolicyInv, [Next]_vars PROVE GovernorsInv'
<1> USE ThreadsAssumption DEF PolicyInv, GovernorsInv, Threads, Locks, Goto, state, threads,
        sampling, governors, vars
<1>1. ASSUME NEW t \in Writers, Write(t) PROVE GovernorsInv'
  BY <1>1 DEF Write, Stopped
<1>2. ASSUME NEW t \in Writers, HandleUpdate(t) PROVE GovernorsInv'
  BY <1>2 DEF HandleUpdate, Stopped
<1>3. ASSUME NEW t \in Writers, ReadFreq(t) PROVE GovernorsInv'
  BY <1>3 DEF ReadFreq, Stopped
<1>4. ASSUME NEW t \in Writers, Compare(t) PROVE GovernorsInv'
  BY <1>4, Types DEF Compare, Known, OpsInv, Stopped
<1>5. ASSUME NEW t \in Writers, OutOfSync(t) PROVE GovernorsInv'
  BY <1>5, Types DEF OutOfSync, Known, UpdateAsked, OpsInv, Stopped
<1>6. ASSUME NEW t \in Writers, SetPolicy(t) PROVE GovernorsInv'
  <2>1. /\ op[t] \in OpStates /\ op[t].kind \in Changes /\ OpInv(t)
        /\ pc[t] \in {"rwsem", "set_policy"}
        /\ pc'[t] \in {"unlock", "stop", "limits"}
        /\ lock' = [lock EXCEPT !["rwsem"] = t]
        /\ policy'.governor = policy.governor /\ op'[t].kind = op[t].kind
        /\ \A u \in Threads \ {t} : pc'[u] = pc[u] /\ op'[u] = op[u]
    BY <1>6, SetPolicyMoves
  <2>2. /\ UNCHANGED <<vbfs, queued>> /\ pc'[Work] = pc[Work]
        /\ pc[t] \notin {"wait_work", "start", "restart"}
        /\ pc'[t] \notin {"wait_work", "start", "restart"}
    BY <1>6, <2>1 DEF SetPolicy
  <2>3. \A u \in Writers : /\ pc'[u] = "wait_work" <=> pc[u] = "wait_work"
                           /\ pc'[u] \in Stopped <=> pc[u] \in Stopped
    BY <2>1, <2>2 DEF Stopped
  <2> QED BY <2>1, <2>2, <2>3
<1>7. ASSUME NEW t \in Writers, Unlock(t) PROVE GovernorsInv'
  BY <1>7 DEF Unlock, Stopped
<1>8. ASSUME NEW t \in Writers, Cancel(t) PROVE GovernorsInv'
  BY <1>8, Types DEF Cancel, OpsInv, Stopped
<1>9. ASSUME NEW t \in Writers, StopVbfs(t) PROVE GovernorsInv'
  <2>1. /\ pc[t] = "wait_work" /\ policy.governor = "vbfs" /\ pc[Work] = "idle"
        /\ ~queued /\ vbfs.enable \in 1 .. 2
    BY <1>9, EnableBounds DEF StopVbfs, WorkIsOver, OpsInv, OpInv
  <2>2. ASSUME NEW u \in Writers \ {t} PROVE pc[u] \notin Switching
    BY <2>1, OneOwner DEF OpsInv, OpInv, Owns, Switching
  <2>3. vbfs'.ready = FALSE /\ vbfs'.enable = vbfs.enable - 1
    BY <1>9, Types DEF StopVbfs, EnableAfterStop, VbfsStates
  <2>4. pc' = [pc EXCEPT ![t] = "start"] /\ UNCHANGED <<queued, policy>>
    BY <1>9 DEF StopVbfs
  <2>5. pc'[t] \in Stopped /\ pc'[Work] = pc[Work]
    BY <2>4, Types DEF Stopped
  <2>6. vbfs'.enable \in 0 .. 1
    BY <2>1, <2>3
  <2> QED BY <2>1, <2>3, <2>4, <2>5, <2>6
<1>10. ASSUME NEW t \in Writers, StopUserspace(t) PROVE GovernorsInv'
  BY <1>10 DEF StopUserspace, Unmanaged
<1>11. ASSUME NEW t \in Writers, StartVbfs(t) PROVE GovernorsInv'
  <2>1. /\ pc[t] \in Stopped /\ OpInv(t) /\ pc[Work] = "idle" /\ ~queued
        /\ ~vbfs.ready /\ policy'.governor = "vbfs" /\ policy.governor = "userspace"
    <3>1. /\ pc[t] \in Stopped /\ OpInv(t) /\ op[t].governor = "vbfs"
      BY <1>11 DEF StartVbfs, Starting, Stopped, OpsInv
    <3>2. policy'.governor = op[t].governor
      BY <1>11, Types DEF StartVbfs, Exchange, Policies
    <3>3. policy.governor # "vbfs" /\ policy.governor \in Governors
      BY <3>1, Types DEF OpInv, Switching, Stopped, Policies
    <3> QED BY <3>1, <3>2, <3>3 DEF GovernorsInv, Governors
  <2>2. ASSUME NEW u \in Writers \ {t} PROVE pc[u] \notin Switching
    BY <2>1, OneOwner DEF OpsInv, OpInv, Owns, Switching, Stopped
  <2>3. vbfs.enable \in 0 .. 1
    BY <2>1, EnableBounds
  <2>4. \A u \in Writers : u # t => pc'[u] = pc[u]
    BY <1>11, Types DEF StartVbfs, Started, AfterFailure
  <2>5. pc'[Work] = pc[Work] /\ pc'[t] \in {"limits", "unlock", "restart"}
    BY <1>11, Types DEF StartVbfs, Started, AfterFailure
  <2>6. \A u \in Writers : pc'[u] # "wait_work" /\ (u # t => pc'[u] \notin Stopped)
    BY <2>2, <2>4, <2>5 DEF Switching, Stopped
  <2>7. CASE /\ vbfs' = [enable |-> vbfs.enable + 1, ready |-> TRUE,
                         group |-> vbfs.group \/ vbfs.enable = 0,
                         rate |-> vbfs.rate \/ vbfs.enable = 0]
             /\ queued' = TRUE /\ Started(t)
    <3>1. pc'[t] \notin Stopped
      BY <2>1, <2>7, Types DEF Started, Stopped
    <3>2. vbfs'.ready = TRUE /\ vbfs'.enable \in 1 .. 2
      BY <2>3, <2>7
    <3> QED BY <2>1, <2>6, <2>7, <3>1, <3>2
  <2>8. CASE /\ vbfs.enable = 0 /\ vbfs' = [vbfs EXCEPT !.enable = @ + 1]
             /\ queued' = queued
    <3>1. vbfs'.ready = vbfs.ready /\ vbfs'.enable = 1
      BY <2>8, Types DEF VbfsStates
    <3> QED BY <2>1, <2>5, <2>6, <2>8, <3>1
  <2> QED BY <1>11, <2>7, <2>8 DEF StartVbfs
<1>12. ASSUME NEW t \in Writers, StartUserspace(t) PROVE GovernorsInv'
  BY <1>12, Types
     DEF StartUserspace, Starting, Exchange, Started, AfterFailure,
         CreateFails, OpsInv, Stopped
<1>13. ASSUME NEW t \in Writers, LimitsVbfs(t) PROVE GovernorsInv'
  BY <1>13, Types DEF LimitsVbfs, Target, Stopped
<1>14. ASSUME NEW t \in Writers, LimitsUserspace(t) PROVE GovernorsInv'
  BY <1>14 DEF LimitsUserspace, Target
<1>15. ASSUME NEW t \in Writers, TakeForSpeed(t) PROVE GovernorsInv'
  BY <1>15 DEF TakeForSpeed, Stopped
<1>16. ASSUME NEW t \in Writers, SetSpeedVbfs(t) PROVE GovernorsInv'
  BY <1>16 DEF SetSpeedVbfs, Target, Stopped
<1>17. ASSUME NEW t \in Writers, SetSpeedUserspace(t) PROVE GovernorsInv'
  BY <1>17, Types DEF SetSpeedUserspace, Target
<1>18. ASSUME NEW t \in Writers, TargetSet(t) PROVE GovernorsInv'
  BY <1>18 DEF TargetSet, Stopped
<1>19. ASSUME NEW t \in Threads, DriverLock(t) PROVE GovernorsInv'
  BY <1>19 DEF DriverLock, Stopped
<1>20. ASSUME NEW t \in Threads, MoveClock(t) PROVE GovernorsInv'
  BY <1>20 DEF MoveClock, Stopped
<1>21. ASSUME NEW t \in Threads, PlugCpu(t) PROVE GovernorsInv'
  BY <1>21 DEF PlugCpu, Stopped
<1>22. ASSUME NEW t \in Threads, CpuCallback(t) PROVE GovernorsInv'
  BY <1>22, CallbackOfWork DEF CpuCallback, Stopped
<1>23. ASSUME NEW t \in Threads, SetFreq(t) PROVE GovernorsInv'
  BY <1>23 DEF SetFreq, Stopped
<1>24. ASSUME WorkBegin PROVE GovernorsInv'
  BY <1>24, Types DEF WorkBegin, OpsInv, OpInv
<1>25. ASSUME Sample PROVE GovernorsInv'
  BY <1>25, Types DEF Sample, SubSample, NormalSample, Target, LowOf
<1>26. ASSUME WorkEnd PROVE GovernorsInv'
  BY <1>26 DEF WorkEnd, OpsInv, OpInv
<1>27. ASSUME ShowSpeed PROVE GovernorsInv'
  BY <1>27 DEF ShowSpeed, OpsInv, OpInv
<1>28. ASSUME StoreBias PROVE GovernorsInv'
  BY <1>28 DEF StoreBias, OpsInv, OpInv
<1>29. ASSUME BpResume PROVE GovernorsInv'
  BY <1>29 DEF BpResume, OpsInv, OpInv
<1>30. CASE UNCHANGED vars
  BY <1>30 DEF OpsInv, OpInv
<1> QED BY <1>1, <1>2, <1>3, <1>4, <1>5, <1>6, <1>7, <1>8, <1>9, <1>10, <1>11,
           <1>12, <1>13, <1>14, <1>15, <1>16, <1>17, <1>18, <1>19, <1>20,
           <1>21, <1>22, <1>23, <1>24, <1>25, <1>26, <1>27, <1>28, <1>29, <1>30
           DEF Next, Continue, Driver, Sampler

LEMMA CountsStep == ASSUME PolicyInv, [Next]_vars PROVE CountsInv'
<1> USE ThreadsAssumption DEF PolicyInv, CountsInv, CountsExact, Threads, Locks, Goto, state, threads,
        sampling, governors, vars
<1>1. ASSUME NEW t \in Writers, Write(t) PROVE CountsInv'
  BY <1>1 DEF Write, Failures, Stopped
<1>2. ASSUME NEW t \in Writers, HandleUpdate(t) PROVE CountsInv'
  BY <1>2 DEF HandleUpdate, Failures, Stopped
<1>3. ASSUME NEW t \in Writers, ReadFreq(t) PROVE CountsInv'
  BY <1>3 DEF ReadFreq, Failures, Stopped
<1>4. ASSUME NEW t \in Writers, Compare(t) PROVE CountsInv'
  BY <1>4, Types DEF Compare, Known, Failures, OpsInv, Stopped
<1>5. ASSUME NEW t \in Writers, OutOfSync(t) PROVE CountsInv'
  BY <1>5, Types DEF OutOfSync, Known, UpdateAsked, Failures, OpsInv, Stopped
<1>6. ASSUME NEW t \in Writers, SetPolicy(t) PROVE CountsInv'
  <2>1. /\ op[t] \in OpStates /\ op[t].kind \in Changes /\ OpInv(t)
        /\ pc[t] \in {"rwsem", "set_policy"}
        /\ pc'[t] \in {"unlock", "stop", "limits"}
        /\ lock' = [lock EXCEPT !["rwsem"] = t]
        /\ policy'.governor = policy.governor /\ op'[t].kind = op[t].kind
        /\ \A u \in Threads \ {t} : pc'[u] = pc[u] /\ op'[u] = op[u]
    BY <1>6, SetPolicyMoves
  <2>2. /\ UNCHANGED <<vbfs, userspace, failed>>
        /\ pc[t] \notin Stopped /\ pc'[t] \notin Stopped
    BY <1>6, <2>1 DEF SetPolicy, Stopped
  <2>3. \A u \in Writers : pc'[u] \in Stopped <=> pc[u] \in Stopped
    BY <2>1, <2>2
  <2> QED BY <2>1, <2>2, <2>3 DEF Failures
<1>7. ASSUME NEW t \in Writers, Unlock(t) PROVE CountsInv'
  BY <1>7 DEF Unlock, Failures, Stopped
<1>8. ASSUME NEW t \in Writers, Cancel(t) PROVE CountsInv'
  BY <1>8 DEF Cancel, Failures, Stopped
<1>9. ASSUME NEW t \in Writers, StopVbfs(t) PROVE CountsInv'
  <2>1. pc[t] = "wait_work" /\ policy.governor = "vbfs"
    BY <1>9 DEF StopVbfs, OpsInv, OpInv
  <2>2. ASSUME NEW u \in Writers \ {t} PROVE pc[u] \notin Switching
    BY <2>1, OneOwner DEF OpsInv, OpInv, Owns, Switching
  <2>3. ~\E u \in Writers : pc[u] \in Stopped
    BY <2>1, <2>2 DEF Stopped, Switching
  <2>4. /\ UNCHANGED <<userspace, failed>> /\ vbfs'.ready = FALSE
        /\ vbfs'.enable = vbfs.enable - 1
        /\ vbfs'.group = (vbfs.group /\ vbfs.enable - 1 # 0)
    BY <1>9, Types DEF StopVbfs, EnableAfterStop, VbfsStates
  <2>5. pc'[t] \in Stopped
    BY <1>9, Types DEF StopVbfs, Stopped
  <2>6. SUFFICES ASSUME Failures <= 1 PROVE CountsExact'
    BY <2>4 DEF Failures
  <2>7. vbfs.ready /\ ~userspace.managed
    BY <2>1, <2>3, <2>6
  <2>8. failed["vbfs"] \in Nat /\ vbfs.enable = 1 + failed["vbfs"]
    BY <2>6, <2>7, Types DEF Governors
  <2>9. failed["vbfs"] = 0 => ~vbfs'.group
    <3>1. CASE vbfs.enable - 1 = 0
      <4>1. (vbfs.group /\ vbfs.enable - 1 # 0) = FALSE
        BY <3>1
      <4> QED BY <2>4, <4>1
    <3>2. CASE vbfs.enable - 1 # 0
      BY <2>8, <3>2
    <3> QED BY <3>1, <3>2
  <2>10. vbfs'.enable = failed'["vbfs"] /\ userspace'.count = 0
    BY <2>4, <2>6, <2>7, <2>8
  <2>11. vbfs'.ready = FALSE /\ userspace'.managed = FALSE /\ failed' = failed
    BY <2>4, <2>7
  <2> QED BY <2>5, <2>8, <2>9, <2>10, <2>11
<1>10. ASSUME NEW t \in Writers, StopUserspace(t) PROVE CountsInv'
  <2>1. pc[t] = "stop" /\ policy.governor = "userspace"
    BY <1>10 DEF StopUserspace
  <2>2. ASSUME NEW u \in Writers \ {t} PROVE pc[u] \notin Switching
    BY <2>1, OneOwner DEF OpsInv, OpInv, Owns, Switching
  <2>3. ~\E u \in Writers : pc[u] \in Stopped
    BY <2>1, <2>2 DEF Stopped, Switching
  <2>4. /\ UNCHANGED <<vbfs, failed>> /\ userspace'.managed = FALSE
        /\ userspace'.count = userspace.count - 1
    BY <1>10 DEF StopUserspace, Unmanaged
  <2>5. pc'[t] \in Stopped
    BY <1>10, Types DEF StopUserspace, Stopped
  <2>6. SUFFICES ASSUME Failures <= 1 PROVE CountsExact'
    BY <2>4 DEF Failures
  <2>7. ~vbfs.ready /\ userspace.count = 1
    BY <2>1, <2>3, <2>6
  <2> QED BY <2>4, <2>5, <2>6, <2>7
<1>11. ASSUME NEW t \in Writers, StartVbfs(t) PROVE CountsInv'
  <2>1. /\ pc[t] \in Stopped /\ OpInv(t) /\ pc[Work] = "idle" /\ ~queued
        /\ ~vbfs.ready /\ policy'.governor = "vbfs" /\ policy.governor = "userspace"
    <3>1. /\ pc[t] \in Stopped /\ OpInv(t) /\ op[t].governor = "vbfs"
      BY <1>11 DEF StartVbfs, Starting, Stopped, OpsInv
    <3>2. policy'.governor = op[t].governor
      BY <1>11, Types DEF StartVbfs, Exchange, Policies
    <3>3. policy.governor # "vbfs" /\ policy.governor \in Governors
      BY <3>1, Types DEF OpInv, Switching, Stopped, Policies
    <3> QED BY <3>1, <3>2, <3>3 DEF GovernorsInv, Governors
  <2>2. ASSUME NEW u \in Writers \ {t} PROVE pc[u] \notin Switching
    BY <2>1, OneOwner DEF OpsInv, OpInv, Owns, Switching, Stopped
  <2>3. /\ UNCHANGED userspace /\ \A u \in Writers \ {t} : pc'[u] = pc[u]
        /\ pc'[t] \in {"limits", "unlock", "restart"}
    BY <1>11, Types DEF StartVbfs, Started, AfterFailure
  <2>4. \A u \in Writers : u # t => pc'[u] \notin Stopped
    BY <2>2, <2>3 DEF Switching, Stopped
  <2>5. failed["vbfs"] \in Nat /\ failed["userspace"] \in Nat
    BY Types, SwitchesAssumption DEF Governors
  <2>6. CASE /\ vbfs' = [enable |-> vbfs.enable + 1, ready |-> TRUE,
                         group |-> vbfs.group \/ vbfs.enable = 0,
                         rate |-> vbfs.rate \/ vbfs.enable = 0]
             /\ Started(t) /\ UNCHANGED failed
    <3>1. SUFFICES ASSUME Failures <= 1 PROVE CountsExact'
      BY <2>6 DEF Failures
    <3>2. /\ vbfs'.ready = TRUE /\ vbfs'.enable = vbfs.enable + 1
          /\ vbfs.enable = 0 => vbfs'.group = TRUE /\ vbfs'.rate = TRUE
      BY <2>6
    <3>3. ~userspace.managed /\ vbfs.enable = failed["vbfs"]
      BY <2>1, <2>5, <3>1
    <3> QED BY <2>1, <2>3, <2>5, <2>6, <3>1, <3>2, <3>3
  <2>7. CASE /\ vbfs.enable = 0 /\ CreateFails("vbfs")
             /\ vbfs' = [vbfs EXCEPT !.enable = @ + 1] /\ AfterFailure(t)
    <3>1. /\ failed'["vbfs"] = failed["vbfs"] + 1
          /\ failed'["userspace"] = failed["userspace"]
      BY <2>7, Types DEF CreateFails, Governors
    <3>2. SUFFICES ASSUME Failures' <= 1 PROVE CountsExact'
      OBVIOUS
    <3>3. Failures = 0 /\ Failures' = 1
      BY <2>5, <3>1, <3>2 DEF Failures
    <3>4. pc[t] = "start" /\ pc'[t] = "restart"
      BY <2>1, <2>7, <3>3, Types DEF OpInv, Stopped, AfterFailure
    <3>5. vbfs'.ready = vbfs.ready /\ vbfs'.enable = 1
      BY <2>7, Types DEF VbfsStates
    <3>6. ~userspace.managed /\ failed["vbfs"] = 0
      <4>1. failed["vbfs"] = 0
        BY <2>5, <3>3 DEF Failures
      <4> QED BY <2>1, <3>3, <4>1
    <3> QED BY <2>1, <2>3, <2>4, <3>1, <3>3, <3>4, <3>5, <3>6 DEF Stopped
  <2> QED BY <1>11, <2>6, <2>7 DEF StartVbfs
<1>12. ASSUME NEW t \in Writers, StartUserspace(t) PROVE CountsInv'
  <2>1. /\ pc[t] \in Stopped /\ OpInv(t) /\ pc[Work] = "idle" /\ ~queued
        /\ ~vbfs.ready /\ policy'.governor = "userspace" /\ policy.governor = "vbfs"
    <3>1. /\ pc[t] \in Stopped /\ OpInv(t) /\ op[t].governor = "userspace"
      BY <1>12 DEF StartUserspace, Starting, Stopped, OpsInv
    <3>2. policy'.governor = op[t].governor
      BY <1>12, Types DEF StartUserspace, Exchange, Policies
    <3>3. policy.governor # "userspace" /\ policy.governor \in Governors
      BY <3>1, Types DEF OpInv, Switching, Stopped, Policies
    <3> QED BY <3>1, <3>2, <3>3 DEF GovernorsInv, Governors
  <2>2. ASSUME NEW u \in Writers \ {t} PROVE pc[u] \notin Switching
    BY <2>1, OneOwner DEF OpsInv, OpInv, Owns, Switching, Stopped
  <2>3. /\ UNCHANGED vbfs /\ \A u \in Writers \ {t} : pc'[u] = pc[u]
        /\ pc'[t] \in {"limits", "unlock", "restart"}
    BY <1>12, Types DEF StartUserspace, Started, AfterFailure
  <2>4. \A u \in Writers : u # t => pc'[u] \notin Stopped
    BY <2>2, <2>3 DEF Switching, Stopped
  <2>5. failed["vbfs"] \in Nat /\ failed["userspace"] \in Nat
    BY Types, SwitchesAssumption DEF Governors
  <2>6. CASE /\ userspace' = [count |-> userspace.count + 1, managed |-> TRUE,
                              min |-> policy.min, max |-> policy.max, set |-> cur]
             /\ Started(t) /\ UNCHANGED failed
    <3>1. SUFFICES ASSUME Failures <= 1 PROVE CountsExact'
      BY <2>6 DEF Failures
    <3>2. userspace'.managed = TRUE /\ userspace'.count = userspace.count + 1
      BY <2>6
    <3>3. userspace.count = 0
      BY <2>1, <3>1
    <3>4. pc'[t] \notin Stopped
      BY <2>1, <2>6, Types DEF Started, Stopped
    <3> QED BY <2>1, <2>3, <2>4, <2>5, <2>6, <3>1, <3>2, <3>3, <3>4
  <2>7. CASE CreateFails("userspace") /\ AfterFailure(t) /\ UNCHANGED userspace
    <3>1. /\ failed'["vbfs"] = failed["vbfs"]
          /\ failed'["userspace"] = failed["userspace"] + 1
      BY <2>7, Types DEF CreateFails, Governors
    <3>2. SUFFICES ASSUME Failures' <= 1 PROVE CountsExact'
      OBVIOUS
    <3>3. Failures = 0 /\ Failures' = 1
      BY <2>5, <3>1, <3>2 DEF Failures
    <3>4. pc[t] = "start" /\ pc'[t] = "restart"
      BY <2>1, <2>7, <3>3, Types DEF OpInv, Stopped, AfterFailure
    <3> QED BY <2>1, <2>3, <2>4, <2>7, <3>1, <3>3, <3>4 DEF Stopped
  <2> QED BY <1>12, <2>6, <2>7 DEF StartUserspace
<1>13. ASSUME NEW t \in Writers, LimitsVbfs(t) PROVE CountsInv'
  BY <1>13, Types DEF LimitsVbfs, Target, Failures, Stopped
<1>14. ASSUME NEW t \in Writers, LimitsUserspace(t) PROVE CountsInv'
  BY <1>14 DEF LimitsUserspace, Target, Failures, Stopped
<1>15. ASSUME NEW t \in Writers, TakeForSpeed(t) PROVE CountsInv'
  BY <1>15 DEF TakeForSpeed, Failures, Stopped
<1>16. ASSUME NEW t \in Writers, SetSpeedVbfs(t) PROVE CountsInv'
  BY <1>16 DEF SetSpeedVbfs, Target, Failures, Stopped
<1>17. ASSUME NEW t \in Writers, SetSpeedUserspace(t) PROVE CountsInv'
  <2>1. /\ userspace'.managed = userspace.managed /\ userspace'.count = userspace.count
    BY <1>17, Types DEF SetSpeedUserspace, UserspaceStates
  <2>2. /\ UNCHANGED <<vbfs, failed, policy>>
        /\ pc[t] \notin Stopped /\ pc'[t] \notin Stopped
        /\ \A u \in Writers \ {t} : pc'[u] = pc[u]
    <3>1. pc[t] = "speed" /\ \E p \in {"target", "unlock"} : pc' = [pc EXCEPT ![t] = p]
      BY <1>17 DEF SetSpeedUserspace, Target
    <3> QED BY <1>17, <3>1, Types DEF SetSpeedUserspace, Stopped
  <2>3. \A u \in Writers : pc'[u] \in Stopped <=> pc[u] \in Stopped
    BY <2>2
  <2> QED BY <2>1, <2>2, <2>3 DEF Failures
<1>18. ASSUME NEW t \in Writers, TargetSet(t) PROVE CountsInv'
  BY <1>18 DEF TargetSet, CopiedLimits, Failures, Stopped
<1>19. ASSUME NEW t \in Threads, DriverLock(t) PROVE CountsInv'
  BY <1>19 DEF DriverLock, Failures, Stopped
<1>20. ASSUME NEW t \in Threads, MoveClock(t) PROVE CountsInv'
  BY <1>20 DEF MoveClock, Failures, Stopped
<1>21. ASSUME NEW t \in Threads, PlugCpu(t) PROVE CountsInv'
  BY <1>21 DEF PlugCpu, Failures, Stopped
<1>22. ASSUME NEW t \in Threads, CpuCallback(t) PROVE CountsInv'
  BY <1>22, CallbackOfWork DEF CpuCallback, Failures, Stopped
<1>23. ASSUME NEW t \in Threads, SetFreq(t) PROVE CountsInv'
  BY <1>23 DEF SetFreq, Failures, Stopped
<1>24. ASSUME WorkBegin PROVE CountsInv'
  BY <1>24 DEF WorkBegin, Failures
<1>25. ASSUME Sample PROVE CountsInv'
  BY <1>25, Types DEF Sample, SubSample, NormalSample, Target, LowOf, Failures
<1>26. ASSUME WorkEnd PROVE CountsInv'
  BY <1>26 DEF WorkEnd, Failures
<1>27. ASSUME ShowSpeed PROVE CountsInv'
  BY <1>27 DEF ShowSpeed, Failures
<1>28. ASSUME StoreBias PROVE CountsInv'
  BY <1>28 DEF StoreBias, Failures
<1>29. ASSUME BpResume PROVE CountsInv'
  BY <1>29 DEF BpResume, Failures
<1>30. CASE UNCHANGED vars
  BY <1>30 DEF Failures, OpsInv, OpInv
<1> QED BY <1>1, <1>2, <1>3, <1>4, <1>5, <1>6, <1>7, <1>8, <1>9, <1>10, <1>11,
           <1>12, <1>13, <1>14, <1>15, <1>16, <1>17, <1>18, <1>19, <1>20,
           <1>21, <1>22, <1>23, <1>24, <1>25, <1>26, <1>27, <1>28, <1>29, <1>30
           DEF Next, Continue, Driver, Sampler


-----------------------------------------------------------------------------
(* user_policy and the policy                                               *)

LEMMA PolicySame ==
  ASSUME NEW p \in Policies
  PROVE  /\ [p EXCEPT !.min = p.min] = p /\ [p EXCEPT !.max = p.max] = p
         /\ [p EXCEPT !.governor = p.governor] = p
BY DEF Policies

LEMMA UserStep == ASSUME PolicyInv, [Next]_vars PROVE UserInv'
<1> USE ThreadsAssumption DEF PolicyInv, UserInv, Threads, Locks, Goto, state, threads,
        sampling, governors, vars
<1>1. ASSUME NEW t \in Writers, Write(t) PROVE UserInv'
  BY <1>1 DEF Write, Owns
<1>2. ASSUME NEW t \in Writers, HandleUpdate(t) PROVE UserInv'
  BY <1>2 DEF HandleUpdate, Owns
<1>3. ASSUME NEW t \in Writers, ReadFreq(t) PROVE UserInv'
  BY <1>3 DEF ReadFreq, NotOwned, Acquire, Free, Owns
<1>4. ASSUME NEW t \in Writers, Compare(t) PROVE UserInv'
  BY <1>4, Types DEF Compare, Known, Owns
<1>5. ASSUME NEW t \in Writers, OutOfSync(t) PROVE UserInv'
  BY <1>5, Types DEF OutOfSync, Known, UpdateAsked, Owns
<1>6. ASSUME NEW t \in Writers, SetPolicy(t) PROVE UserInv'
  <2>1. /\ op[t] \in OpStates /\ op[t].kind \in Changes /\ OpInv(t)
        /\ pc[t] \in {"rwsem", "set_policy"}
        /\ pc'[t] \in {"unlock", "stop", "limits"}
        /\ lock' = [lock EXCEPT !["rwsem"] = t]
        /\ policy'.governor = policy.governor /\ op'[t].kind = op[t].kind
        /\ \A u \in Threads \ {t} : pc'[u] = pc[u] /\ op'[u] = op[u]
    BY <1>6, SetPolicyMoves
  <2>2. ASSUME NEW u \in Writers \ {t} PROVE ~Owns(u)'
    <3>1. ~Owns(u)
      <4>1. CASE pc[t] = "rwsem"
        BY <1>6, <4>1, ThreadsAssumption
           DEF SetPolicy, Acquire, Free, NotOwned, LocksInv, SemaphoreInv
      <4>2. CASE pc[t] = "set_policy"
        BY <2>1, <4>2, OneOwner DEF Owns, OpInv
      <4> QED BY <2>1, <4>1, <4>2
    <3> QED BY <2>1, <3>1 DEF Owns
  <2>3. /\ policy \in Policies /\ policy' \in Policies /\ user_policy \in Policies
        /\ user_policy' = user_policy /\ lock'["rwsem"] # NoOne
    BY <1>6, <2>1, SetPolicyEffect, Types, PolicySame DEF SetPolicy
  <2>4. /\ op[t].kind # "min" => user_policy.min = policy.min
        /\ op[t].kind # "max" => user_policy.max = policy.max
        /\ op[t].kind # "governor" => user_policy.governor = policy.governor
    <3>1. CASE pc[t] = "rwsem"
      <4>1. lock["rwsem"] = NoOne
        BY <1>6, <3>1 DEF SetPolicy, Acquire, Free, NotOwned
      <4> QED BY <4>1
    <3>2. CASE pc[t] = "set_policy"
      <4>1. op[t].kind = "update" /\ Owns(t)
        BY <2>1, <3>2 DEF OpInv, Owns
      <4> QED BY <4>1
    <3> QED BY <2>1, <3>1, <3>2
  <2>5. /\ op[t].kind # "min" => policy'.min = policy.min
        /\ op[t].kind # "max" => policy'.max = policy.max
    <3>1. ASSUME NEW new \in Policies, Sets(t, new)
          PROVE  /\ op[t].kind # "min" => policy'.min = policy.min
                 /\ op[t].kind # "max" => policy'.max = policy.max
      BY <3>1 DEF Sets
    <3> QED BY <1>6, <3>1, SetPolicyEffect
  <2>6. CASE op[t].kind = "min"
    <3>1. user_policy = [policy' EXCEPT !.min = user_policy.min]
      BY <2>1, <2>3, <2>4, <2>5, <2>6 DEF Policies
    <3> QED BY <2>1, <2>2, <2>3, <2>6, <3>1
  <2>7. CASE op[t].kind = "max"
    <3>1. user_policy = [policy' EXCEPT !.max = user_policy.max]
      BY <2>1, <2>3, <2>4, <2>5, <2>7 DEF Policies
    <3> QED BY <2>1, <2>2, <2>3, <2>7, <3>1
  <2>8. CASE op[t].kind = "governor"
    <3>1. user_policy = [policy' EXCEPT !.governor = user_policy.governor]
      BY <2>1, <2>3, <2>4, <2>5, <2>8 DEF Policies
    <3> QED BY <2>1, <2>2, <2>3, <2>8, <3>1
  <2>9. CASE op[t].kind = "update"
    <3>1. user_policy = policy'
      BY <2>1, <2>3, <2>4, <2>5, <2>9 DEF Policies
    <3> QED BY <2>1, <2>2, <2>3, <2>9, <3>1
  <2> QED BY <2>1, <2>6, <2>7, <2>8, <2>9 DEF Changes
<1>7. ASSUME NEW t \in Writers, Unlock(t) PROVE UserInv'
  BY <1>7, Types, PolicySame DEF Unlock, OpsInv, OpInv, Owns
<1>8. ASSUME NEW t \in Writers, Cancel(t) PROVE UserInv'
  BY <1>8 DEF Cancel, Owns
<1>9. ASSUME NEW t \in Writers, StopVbfs(t) PROVE UserInv'
  BY <1>9 DEF StopVbfs, WorkIsOver, EnableAfterStop, Owns
<1>10. ASSUME NEW t \in Writers, StopUserspace(t) PROVE UserInv'
  BY <1>10 DEF StopUserspace, Unmanaged, Owns
<1>11. ASSUME NEW t \in Writers, StartVbfs(t) PROVE UserInv'
  <2>1. /\ op[t].kind = "governor" /\ op[t].governor \in Governors /\ Owns(t)
        /\ policy \in Policies /\ user_policy \in Policies /\ op[t] \in OpStates
    BY <1>11, Types DEF StartVbfs, Starting, OpsInv, OpInv, Owns, Switching
  <2>2. /\ policy' = [policy EXCEPT !.governor = op[t].governor]
        /\ op'[t] = [op[t] EXCEPT !.governor = policy.governor]
        /\ UNCHANGED <<user_policy, lock>>
        /\ \A u \in Writers \ {t} : op'[u] = op[u] /\ pc'[u] = pc[u]
    BY <1>11, Types DEF StartVbfs, Exchange, Started, AfterFailure
  <2>3. lock["rwsem"] = t /\ lock["rwsem"] # NoOne
    BY <2>1 DEF LocksInv, SemaphoreInv, Threads
  <2>4. \A u \in Writers \ {t} : ~Owns(u)'
    BY <2>1, <2>2, OneOwner DEF Owns
  <2>5. user_policy = [policy EXCEPT !.governor = user_policy.governor]
    BY <2>1
  <2>6. user_policy = [policy' EXCEPT !.governor = user_policy.governor]
    BY <2>1, <2>2, <2>5 DEF Policies
  <2>7. op'[t].kind = "governor"
    BY <2>1, <2>2 DEF OpStates
  <2> QED BY <2>2, <2>3, <2>4, <2>6, <2>7
<1>12. ASSUME NEW t \in Writers, StartUserspace(t) PROVE UserInv'
  <2>1. /\ op[t].kind = "governor" /\ op[t].governor \in Governors /\ Owns(t)
        /\ policy \in Policies /\ user_policy \in Policies /\ op[t] \in OpStates
    BY <1>12, Types DEF StartUserspace, Starting, OpsInv, OpInv, Owns, Switching
  <2>2. /\ policy' = [policy EXCEPT !.governor = op[t].governor]
        /\ op'[t] = [op[t] EXCEPT !.governor = policy.governor]
        /\ UNCHANGED <<user_policy, lock>>
        /\ \A u \in Writers \ {t} : op'[u] = op[u] /\ pc'[u] = pc[u]
    BY <1>12, Types DEF StartUserspace, Exchange, Started, AfterFailure
  <2>3. lock["rwsem"] = t /\ lock["rwsem"] # NoOne
    BY <2>1 DEF LocksInv, SemaphoreInv, Threads
  <2>4. \A u \in Writers \ {t} : ~Owns(u)'
    BY <2>1, <2>2, OneOwner DEF Owns
  <2>5. user_policy = [policy EXCEPT !.governor = user_policy.governor]
    BY <2>1
  <2>6. user_policy = [policy' EXCEPT !.governor = user_policy.governor]
    BY <2>1, <2>2, <2>5 DEF Policies
  <2>7. op'[t].kind = "governor"
    BY <2>1, <2>2 DEF OpStates
  <2> QED BY <2>2, <2>3, <2>4, <2>6, <2>7
<1>13. ASSUME NEW t \in Writers, LimitsVbfs(t) PROVE UserInv'
  BY <1>13, Types DEF LimitsVbfs, Acquire, Target, Owns
<1>14. ASSUME NEW t \in Writers, LimitsUserspace(t) PROVE UserInv'
  BY <1>14 DEF LimitsUserspace, Acquire, Target, Owns
<1>15. ASSUME NEW t \in Writers, TakeForSpeed(t) PROVE UserInv'
  BY <1>15 DEF TakeForSpeed, Acquire, Free, NotOwned, Owns
<1>16. ASSUME NEW t \in Writers, SetSpeedVbfs(t) PROVE UserInv'
  BY <1>16 DEF SetSpeedVbfs, Target, OpsInv, OpInv, Owns
<1>17. ASSUME NEW t \in Writers, SetSpeedUserspace(t) PROVE UserInv'
  BY <1>17, Types DEF SetSpeedUserspace, Target, OpsInv, OpInv, Owns
<1>18. ASSUME NEW t \in Writers, TargetSet(t) PROVE UserInv'
  BY <1>18 DEF TargetSet, Owns
<1>19. ASSUME NEW t \in Threads, DriverLock(t) PROVE UserInv'
  BY <1>19 DEF DriverLock, Acquire, Owns
<1>20. ASSUME NEW t \in Threads, MoveClock(t) PROVE UserInv'
  BY <1>20 DEF MoveClock, Owns
<1>21. ASSUME NEW t \in Threads, PlugCpu(t) PROVE UserInv'
  BY <1>21 DEF PlugCpu, Owns
<1>22. ASSUME NEW t \in Threads, CpuCallback(t) PROVE UserInv'
  BY <1>22, CallbackOfWork DEF CpuCallback, Owns
<1>23. ASSUME NEW t \in Threads, SetFreq(t) PROVE UserInv'
  BY <1>23 DEF SetFreq, Release, Owns
<1>24. ASSUME WorkBegin PROVE UserInv'
  BY <1>24 DEF WorkBegin, Owns
<1>25. ASSUME Sample PROVE UserInv'
  BY <1>25, Types
     DEF Sample, Acquire, SubSample, NormalSample, Target, LowOf, Owns
<1>26. ASSUME WorkEnd PROVE UserInv'
  BY <1>26 DEF WorkEnd, Release, Owns
<1>27. ASSUME ShowSpeed PROVE UserInv'
  BY <1>27 DEF ShowSpeed, Owns
<1>28. ASSUME StoreBias PROVE UserInv'
  BY <1>28 DEF StoreBias, Owns
<1>29. ASSUME BpResume PROVE UserInv'
  BY <1>29 DEF BpResume, Owns
<1>30. CASE UNCHANGED vars
  BY <1>30 DEF OpsInv, OpInv, Owns
<1> QED BY <1>1, <1>2, <1>3, <1>4, <1>5, <1>6, <1>7, <1>8, <1>9, <1>10, <1>11,
           <1>12, <1>13, <1>14, <1>15, <1>16, <1>17, <1>18, <1>19, <1>20,
           <1>21, <1>22, <1>23, <1>24, <1>25, <1>26, <1>27, <1>28, <1>29, <1>30
           DEF Next, Continue, Driver, Sampler

(* When a task has got to LIMITS and past the mutex, no transition is under *)
(* way                                                                      *)
LEMMA DriverFree ==
  ASSUME PolicyInv, NEW t \in Writers, pc[t] = "limits",
         lock["timer_mutex"] = NoOne \/ policy.governor = "userspace"
  PROVE  lock["set_freq_lock"] = NoOne
<1> USE ThreadsAssumption DEF PolicyInv, Threads, Locks
<1>1. SUFFICES ASSUME NEW u \in Threads, lock["set_freq_lock"] = u PROVE FALSE
  BY Types
<1>2. Owns(t) /\ lock["rwsem"] = t /\ t # NoOne
  BY DEF OpsInv, OpInv, Owns, LocksInv, SemaphoreInv
<1>3. pc[u] \in {"setting", "moved", "cpu_callback", "notified"}
  BY <1>1 DEF LocksInv, FreqLockInv
<1>4. CASE u = Work
  BY <1>3, <1>4 DEF LocksInv, MutexesInv, InDriver, GovernorsInv
<1>5. CASE u \in Writers
  <2>1. ~Reading(u)
    BY <1>2, <1>5 DEF LocksInv, SemaphoreInv
  <2>2. Owns(u)
    BY <1>3, <1>5, <2>1 DEF Owns, Reading
  <2> QED BY <1>2, <1>3, <1>5, <2>2, OneOwner
<1> QED BY <1>4, <1>5

LEMMA LimitsStep == ASSUME PolicyInv, [Next]_vars PROVE LimitsInv'
<1> USE ThreadsAssumption DEF PolicyInv, LimitsInv, Threads, Locks, Goto, state, threads,
        sampling, governors, vars
<1>1. ASSUME NEW t \in Writers, Write(t) PROVE LimitsInv'
  BY <1>1 DEF Write, InLimits, Changing, Updating, OpsInv, OpInv
<1>2. ASSUME NEW t \in Writers, HandleUpdate(t) PROVE LimitsInv'
  BY <1>2, Types DEF HandleUpdate, InLimits, Updating
<1>3. ASSUME NEW t \in Writers, ReadFreq(t) PROVE LimitsInv'
  BY <1>3, Types DEF ReadFreq, Acquire, InLimits, Changing, Updating
<1>4. ASSUME NEW t \in Writers, Compare(t) PROVE LimitsInv'
  BY <1>4, Types DEF Compare, Known, InLimits, Changing, Updating, OpsInv, OpInv
<1>5. ASSUME NEW t \in Writers, OutOfSync(t) PROVE LimitsInv'
  <2>1. /\ op[t].kind \in {"get", "update"} /\ pc[t] \in {"announce", "notified"}
        /\ UNCHANGED <<policy, lock, next>>
        /\ \A u \in Writers \ {t} : pc'[u] = pc[u] /\ op'[u] = op[u]
    BY <1>5, Types DEF OutOfSync, Known, OpsInv, OpInv
  <2>2. CASE op[t].kind = "get"
    BY <1>5, <2>1, <2>2 DEF OutOfSync, UpdateAsked, InLimits
  <2>3. CASE op[t].kind = "update"
    <3>1. pc'[t] = "set_policy" /\ op' = op
      BY <1>5, <2>3, Types DEF OutOfSync, Known
    <3> QED BY <2>1, <2>3, <3>1 DEF Updating, InLimits
  <2> QED BY <2>1, <2>2, <2>3
<1>6. ASSUME NEW t \in Writers, SetPolicy(t) PROVE LimitsInv'
  <2>1. /\ op[t] \in OpStates /\ op[t].kind \in Changes /\ OpInv(t)
        /\ pc[t] \in {"rwsem", "set_policy"}
        /\ pc'[t] \in {"unlock", "stop", "limits"}
        /\ lock' = [lock EXCEPT !["rwsem"] = t]
        /\ policy'.governor = policy.governor /\ op'[t].kind = op[t].kind
        /\ \A u \in Threads \ {t} : pc'[u] = pc[u] /\ op'[u] = op[u]
    BY <1>6, SetPolicyMoves
  <2>2. /\ policy \in Policies /\ policy' \in Policies
        /\ UNCHANGED <<cur, update, next>>
        /\ lock'["set_freq_lock"] = lock["set_freq_lock"]
    BY <1>6, <2>1, SetPolicyEffect, Types, PolicySame DEF SetPolicy
  <2>3. \A u \in Writers : ~(u = t) =>
          /\ Changing(u)' <=> Changing(u)
          /\ Updating(u)' <=> Updating(u)
          /\ pc'[u] = pc[u] /\ op'[u] = op[u]
    BY <2>1 DEF Changing, Updating
  <2>4. pc[t] # "limits" /\ ~Changing(t)
    BY <2>1 DEF Changing, InDriver
  <2>5. CASE op[t].kind \in {"governor", "update"} /\ policy' = policy
    <3>1. Updating(t) => Updating(t)'
      <4>1. CASE op[t].kind = "governor"
        BY <4>1 DEF Updating
      <4>2. CASE op[t].kind = "update"
        <5>1. pc' # [pc EXCEPT ![t] = "unlock"] \/ ~(op[t].kind # "update")
          BY <4>2
        <5>2. ASSUME NEW new \in Policies, Sets(t, new) PROVE pc'[t] \in {"stop", "limits"}
          BY <5>2, Types, PolicySame DEF Sets
        <5>3. pc'[t] \in {"stop", "limits"}
          BY <1>6, <4>2, <5>2, SetPolicyEffect
        <5> QED BY <2>1, <4>2, <5>3 DEF Updating
      <4> QED BY <2>5, <4>1, <4>2
    <3> QED BY <2>2, <2>3, <2>4, <2>5, <3>1 DEF InLimits
  <2>6. CASE policy' = policy /\ op' = op /\ op[t].kind # "update"
    BY <2>2, <2>3, <2>4, <2>6 DEF InLimits, Updating
  <2>7. CASE op[t].kind \in {"min", "max"} /\ \E new \in Policies : Sets(t, new)
    <3>1. pc'[t] = "limits" /\ policy'.min <= policy'.max
      BY <2>1, <2>7, Types, PolicySame DEF Sets
    <3>2. Changing(t)'
      BY <2>1, <2>7, <3>1 DEF Changing
    <3> QED BY <2>1, <2>7, <3>1, <3>2
  <2>8. ASSUME NEW new \in Policies, Sets(t, new)
        PROVE  op[t].kind \notin {"min", "max"} => policy' = policy
    BY <2>8 DEF Sets
  <2> QED BY <1>6, <2>1, <2>5, <2>6, <2>7, <2>8, SetPolicyEffect DEF Changes
<1>7. ASSUME NEW t \in Writers, Unlock(t) PROVE LimitsInv'
  BY <1>7 DEF Unlock, Release, InLimits, Changing, Updating, InDriver
<1>8. ASSUME NEW t \in Writers, Cancel(t) PROVE LimitsInv'
  BY <1>8 DEF Cancel, InLimits, Changing, Updating, InDriver
<1>9. ASSUME NEW t \in Writers, StopVbfs(t) PROVE LimitsInv'
  BY <1>9
     DEF StopVbfs, WorkIsOver, EnableAfterStop, InLimits, Changing, Updating,
         InDriver
<1>10. ASSUME NEW t \in Writers, StopUserspace(t) PROVE LimitsInv'
  BY <1>10 DEF StopUserspace, Unmanaged, InLimits, Changing, Updating, InDriver
<1>11. ASSUME NEW t \in Writers, StartVbfs(t) PROVE LimitsInv'
  <2>1. op[t].kind = "governor" /\ op[t] \in OpStates /\ policy \in Policies
    BY <1>11, Types DEF StartVbfs, Starting, OpsInv, OpInv, Switching
  <2>2. /\ policy'.min = policy.min /\ policy'.max = policy.max
        /\ op'[t].kind = "governor" /\ UNCHANGED <<cur, update, next, lock>>
        /\ \A u \in Writers \ {t} : op'[u] = op[u] /\ pc'[u] = pc[u]
    BY <1>11, <2>1, Types
       DEF StartVbfs, Exchange, Started, AfterFailure, OpStates, Policies
  <2>3. \A u \in Writers : /\ Changing(u)' <=> Changing(u)
                           /\ Updating(u)' <=> Updating(u)
    BY <2>1, <2>2 DEF Changing, Updating
  <2>4. \A u \in Writers : op[u].kind \in {"min", "max"} => u # t
    BY <2>1
  <2> QED BY <2>2, <2>3, <2>4 DEF InLimits
<1>12. ASSUME NEW t \in Writers, StartUserspace(t) PROVE LimitsInv'
  <2>1. op[t].kind = "governor" /\ op[t] \in OpStates /\ policy \in Policies
    BY <1>12, Types DEF StartUserspace, Starting, OpsInv, OpInv, Switching
  <2>2. /\ policy'.min = policy.min /\ policy'.max = policy.max
        /\ op'[t].kind = "governor" /\ UNCHANGED <<cur, update, next, lock>>
        /\ \A u \in Writers \ {t} : op'[u] = op[u] /\ pc'[u] = pc[u]
    BY <1>12, <2>1, Types
       DEF StartUserspace, Exchange, Started, AfterFailure, OpStates, Policies
  <2>3. \A u \in Writers : /\ Changing(u)' <=> Changing(u)
                           /\ Updating(u)' <=> Updating(u)
    BY <2>1, <2>2 DEF Changing, Updating
  <2>4. \A u \in Writers : op[u].kind \in {"min", "max"} => u # t
    BY <2>1
  <2> QED BY <2>2, <2>3, <2>4 DEF InLimits
<1>13. ASSUME NEW t \in Writers, LimitsVbfs(t) PROVE LimitsInv'
  <2>1. /\ pc[t] = "limits" /\ pc'[t] \in {"target", "unlock"}
        /\ pc'[t] = "unlock" => InLimits(cur)
        /\ UNCHANGED <<policy, cur, update, next, op>>
        /\ lock'["set_freq_lock"] = lock["set_freq_lock"]
        /\ \A u \in Writers \ {t} : pc'[u] = pc[u]
    BY <1>13, Types
       DEF LimitsVbfs, Target, Acquire, LimitsMutex, InLimits, Policies
  <2>2. lock["set_freq_lock"] = NoOne
    BY <1>13, <2>1, DriverFree
       DEF LimitsVbfs, Acquire, Free, NotOwned, LimitsMutex
  <2>3. \A u \in Writers : /\ Changing(u) => Changing(u)' \/ pc'[t] = "unlock"
                           /\ Updating(u) => Updating(u)' \/ pc'[t] = "unlock"
    BY <2>1 DEF Changing, Updating, InDriver
  <2> QED BY <2>1, <2>2, <2>3 DEF InLimits
<1>14. ASSUME NEW t \in Writers, LimitsUserspace(t) PROVE LimitsInv'
  <2>1. /\ pc[t] = "limits" /\ pc'[t] \in {"target", "unlock"}
        /\ pc'[t] = "unlock" => InLimits(cur)
        /\ UNCHANGED <<policy, cur, update, next, op>>
        /\ lock'["set_freq_lock"] = lock["set_freq_lock"]
        /\ \A u \in Writers \ {t} : pc'[u] = pc[u]
    BY <1>14, Types DEF LimitsUserspace, Target, Acquire, Policies
  <2>2. lock["set_freq_lock"] = NoOne
    BY <1>14, <2>1, DriverFree DEF LimitsUserspace
  <2>3. \A u \in Writers : /\ Changing(u) => Changing(u)' \/ pc'[t] = "unlock"
                           /\ Updating(u) => Updating(u)' \/ pc'[t] = "unlock"
    BY <2>1 DEF Changing, Updating, InDriver
  <2> QED BY <2>1, <2>2, <2>3 DEF InLimits
<1>15. ASSUME NEW t \in Writers, TakeForSpeed(t) PROVE LimitsInv'
  BY <1>15 DEF TakeForSpeed, Acquire, InLimits, Changing, Updating
<1>16. ASSUME NEW t \in Writers, SetSpeedVbfs(t) PROVE LimitsInv'
  BY <1>16
     DEF SetSpeedVbfs, Acquire, Target, InLimits, Changing, Updating, OpsInv,
         OpInv
<1>17. ASSUME NEW t \in Writers, SetSpeedUserspace(t) PROVE LimitsInv'
  BY <1>17, Types
     DEF SetSpeedUserspace, Acquire, Target, InLimits, Changing, Updating,
         OpsInv, OpInv
<1>18. ASSUME NEW t \in Writers, TargetSet(t) PROVE LimitsInv'
  BY <1>18 DEF TargetSet, InLimits, Changing, Updating
<1>19. ASSUME NEW t \in Threads, DriverLock(t) PROVE LimitsInv'
  <2>1. /\ policy.min \in Freqs /\ policy.max \in Freqs
        /\ want[t] \in Freqs \cup {0}
    BY Types, PolicySame DEF Policies
  <2>2. InLimits(next')
    BY <1>19, <2>1, Clipped DEF DriverLock, InLimits
  <2>3. /\ pc[t] = "target" /\ pc'[t] = "setting" /\ UNCHANGED <<policy, cur, update, op>>
        /\ \A u \in Writers \ {t} : pc'[u] = pc[u]
    BY <1>19, Types, PolicySame DEF DriverLock
  <2>4. \A u \in Writers : /\ Changing(u) => Changing(u)'
                           /\ Updating(u) => Updating(u)'
    BY <2>3 DEF Changing, Updating, InDriver
  <2> QED BY <2>2, <2>3, <2>4 DEF InLimits
<1>20. ASSUME NEW t \in Threads, MoveClock(t) PROVE LimitsInv'
  BY <1>20 DEF MoveClock, InLimits, Changing, Updating, InDriver
<1>21. ASSUME NEW t \in Threads, PlugCpu(t) PROVE LimitsInv'
  BY <1>21 DEF PlugCpu, InLimits, Changing, Updating, InDriver
<1>22. ASSUME NEW t \in Threads, CpuCallback(t) PROVE LimitsInv'
  BY <1>22, CallbackOfWork
     DEF CpuCallback, InLimits, Changing, Updating, InDriver
<1>23. ASSUME NEW t \in Threads, SetFreq(t) PROVE LimitsInv'
  <2>1. /\ pc[t] \in {"moved", "notified"} /\ lock["set_freq_lock"] = t
    BY <1>23 DEF SetFreq, LocksInv, FreqLockInv
  <2>2. /\ cur' = next /\ lock'["set_freq_lock"] = NoOne
        /\ UNCHANGED <<policy, update, op>>
        /\ \A u \in Threads \ {t} : pc'[u] = pc[u]
    BY <1>23, Types, PolicySame DEF SetFreq, Release
  <2>3. CASE InLimits(next)
    BY <2>2, <2>3 DEF InLimits
  <2>4. ASSUME NEW u \in Writers, pc[u] = "limits", op[u].kind \in {"min", "max"}
        PROVE  Changing(u)'
    BY <2>1, <2>2, <2>4 DEF Changing
  <2>5. t # NoOne
    OBVIOUS
  <2> QED BY <2>1, <2>2, <2>3, <2>4, <2>5
<1>24. ASSUME WorkBegin PROVE LimitsInv'
  BY <1>24 DEF WorkBegin, InLimits, Changing, Updating
<1>25. ASSUME Sample PROVE LimitsInv'
  BY <1>25, Types
     DEF Sample, Acquire, SubSample, NormalSample, Target, LowOf, InLimits,
         Changing, Updating
<1>26. ASSUME WorkEnd PROVE LimitsInv'
  BY <1>26 DEF WorkEnd, Release, InLimits, Changing, Updating
<1>27. ASSUME ShowSpeed PROVE LimitsInv'
  BY <1>27 DEF ShowSpeed, InLimits, Changing, Updating
<1>28. ASSUME StoreBias PROVE LimitsInv'
  BY <1>28 DEF StoreBias, InLimits, Changing, Updating
<1>29. ASSUME BpResume PROVE LimitsInv'
  BY <1>29 DEF BpResume, InLimits
<1>30. CASE UNCHANGED vars
  BY <1>30 DEF InLimits, Changing, Updating
<1> QED BY <1>1, <1>2, <1>3, <1>4, <1>5, <1>6, <1>7, <1>8, <1>9, <1>10, <1>11,
           <1>12, <1>13, <1>14, <1>15, <1>16, <1>17, <1>18, <1>19, <1>20,
           <1>21, <1>22, <1>23, <1>24, <1>25, <1>26, <1>27, <1>28, <1>29, <1>30
           DEF Next, Continue, Driver, Sampler


-----------------------------------------------------------------------------
(* The theorems                                                             *)

LEMMA InitInv == Init => PolicyInv
<1> SUFFICES ASSUME Init PROVE PolicyInv
  OBVIOUS
<1> USE ThreadsAssumption, FreqsAssumption, SwitchesAssumption DEF Init
<1>1. TypeOK
  BY TypeInit
<1>2. OpsInv
  BY DEF OpsInv, OpInv, NoOp, Threads, Switching
<1>3. LocksInv
  BY DEF LocksInv, SemaphoreInv, MutexesInv, FreqLockInv, Owns, Reading, NoOp,
         Threads, Locks, InDriver
<1>4. failed["vbfs"] = 0 /\ failed["userspace"] = 0
  BY DEF Governors
<1>5. /\ \A t \in Threads : pc[t] = "idle"
      /\ \A t \in Writers : pc[t] \notin Stopped /\ pc[t] # "wait_work"
  BY DEF Threads, Stopped
<1>6. GovernorsInv /\ CountsInv
  <2>1. CASE policy.governor = "vbfs"
    <3>1. /\ queued = TRUE /\ vbfs.enable = 1 /\ vbfs.ready = TRUE
          /\ vbfs.group = TRUE /\ vbfs.rate = TRUE
          /\ userspace.count = 0 /\ userspace.managed = FALSE
      BY <2>1 DEF Unmanaged
    <3>2. GovernorsInv
      BY <1>5, <2>1, <3>1 DEF GovernorsInv, Threads
    <3>3. CountsExact
      BY <1>4, <1>5, <2>1, <3>1 DEF CountsExact
    <3> QED BY <3>2, <3>3 DEF CountsInv
  <2>2. CASE policy.governor = "userspace"
    <3>1. /\ queued = FALSE /\ vbfs.enable = 0 /\ vbfs.ready = FALSE
          /\ vbfs.group = FALSE /\ vbfs.rate = FALSE
          /\ userspace.count = 1 /\ userspace.managed = TRUE
      BY <2>2
    <3>2. GovernorsInv
      BY <1>5, <2>2, <3>1 DEF GovernorsInv, Threads
    <3>3. CountsExact
      BY <1>4, <1>5, <2>2, <3>1 DEF CountsExact
    <3> QED BY <3>2, <3>3 DEF CountsInv
  <2> QED BY <2>1, <2>2 DEF Governors
<1>7. UserInv
  BY DEF UserInv, Threads, Locks
<1>8. LimitsInv
  BY DEF LimitsInv, InLimits, Locks
<1> QED BY <1>1, <1>2, <1>3, <1>6, <1>7, <1>8 DEF PolicyInv

LEMMA PolicyStep == PolicyInv /\ [Next]_vars => PolicyInv'
BY TypeStep, OpsStep, SemaphoreStep, MutexesStep, FreqLockStep, GovernorsStep,
   CountsStep, UserStep, LimitsStep DEF PolicyInv, LocksInv

(* The invariant that the proofs of the properties rest on: who holds each  *)
(* lock, in what state the governors are while one is stopped and the other *)
(* started, and who puts policy->cur right.                                 *)
THEOREM Invariant == Spec => []PolicyInv
<1>1. Init => PolicyInv
  BY InitInv
<1>2. PolicyInv /\ [Next]_vars => PolicyInv'
  BY PolicyStep
<1> QED BY <1>1, <1>2, PTL DEF Spec

(* The variables of the policy, of its locks and of its governors have the  *)
(* values they are meant to: vbfs_enable never drops below zero nor exceeds *)
(* two, whatever START fails.                                               *)
THEOREM TypeCorrect == Spec => []TypeOK
<1>1. PolicyInv => TypeOK
  BY DEF PolicyInv
<1> QED BY <1>1, Invariant, PTL

(* Nobody is in the middle of a change of the governor but the owner of the *)
(* semaphore                                                                *)
LEMMA NoSwitching ==
  ASSUME PolicyInv, lock["rwsem"] = NoOne PROVE \A t \in Writers : pc[t] \notin Switching
BY ThreadsAssumption DEF PolicyInv, OpsInv, OpInv, Owns, Switching, LocksInv,
   SemaphoreInv, Threads

(* The work of vbfs is neither queued nor running, and timer_mutex has no   *)
(* holder, before mutex_init or after mutex_destroy, the latter unless two  *)
(* STARTs failed.                                                           *)
THEOREM MutexInUse == Spec => []MutexReadyWhenUsed
<1>1. ASSUME PolicyInv PROVE MutexReadyWhenUsed
  <2>1. SUFFICES ASSUME lock["timer_mutex"] # NoOne, Failures <= 1 PROVE vbfs.ready
    BY <1>1 DEF PolicyInv, GovernorsInv, MutexReadyWhenUsed
  <2>2. PICK t \in Threads : lock["timer_mutex"] = t
    BY <1>1, <2>1, Types DEF PolicyInv, Locks
  <2>3. Holds(t, "timer_mutex")
    BY <1>1, <2>2 DEF PolicyInv, LocksInv, MutexesInv
  <2>4. CASE t = Work
    BY <1>1, <2>3, <2>4 DEF PolicyInv, Holds, InDriver, GovernorsInv
  <2>5. CASE t # Work
    <3>1. t \in Writers /\ Owns(t) /\ pc[t] \in InDriver /\ policy.governor = "vbfs"
      BY <2>3, <2>5 DEF Holds, Owns, Threads, InDriver, Changes
    <3>2. ASSUME NEW u \in Writers, pc[u] \in Stopped PROVE FALSE
      <4>1. Owns(u)
        BY <1>1, <3>2 DEF PolicyInv, OpsInv, OpInv, Owns, Stopped
      <4> QED BY <1>1, <3>1, <3>2, <4>1, OneOwner
              DEF PolicyInv, InDriver, Stopped
    <3> QED BY <1>1, <2>1, <3>1, <3>2 DEF PolicyInv, CountsInv, CountsExact
  <2> QED BY <2>4, <2>5
<1> QED BY <1>1, Invariant, PTL

(* Whenever the semaphore is free exactly the policy's governor is active,  *)
(* and vbfs is active if and only if its work is queued or running, unless  *)
(* two STARTs failed.                                                       *)
THEOREM OneGovernor == Spec => []GovernorActive
<1>1. ASSUME PolicyInv PROVE GovernorActive
  <2>1. SUFFICES ASSUME lock["rwsem"] = NoOne, Failures <= 1
        PROVE  /\ policy.governor = "vbfs" <=> vbfs.ready
               /\ vbfs.ready <=> queued \/ pc[Work] # "idle"
               /\ policy.governor = "userspace" <=> userspace.managed
    BY DEF GovernorActive, Free, NotOwned
  <2>2. \A t \in Writers : pc[t] \notin Stopped /\ pc[t] # "wait_work"
    BY <1>1, <2>1, NoSwitching DEF Switching, Stopped
  <2>3. /\ policy.governor = "vbfs" <=> vbfs.ready
        /\ policy.governor = "userspace" <=> userspace.managed
    BY <1>1, <2>1, <2>2 DEF PolicyInv, CountsInv, CountsExact
  <2>4. vbfs.ready <=> queued \/ pc[Work] # "idle"
    BY <1>1, <2>2 DEF PolicyInv, GovernorsInv
  <2> QED BY <2>3, <2>4
<1> QED BY <1>1, Invariant, PTL

(* vbfs_enable and cpus_using_userspace_governor count the active governor  *)
(* and the STARTs of vbfs that failed; vbfs has its sysfs group and a       *)
(* sampling rate unless one of them did.                                    *)
THEOREM CountsRight == Spec => []EnableExact
<1>1. ASSUME PolicyInv PROVE EnableExact
  BY <1>1 DEF PolicyInv, CountsInv, CountsExact, EnableExact
<1> QED BY <1>1, Invariant, PTL

(* With the semaphore free and no update due policy->cur is within the      *)
(* limits of the policy.                                                    *)
THEOREM CurWithinLimits == Spec => []LimitsHold
<1>1. ASSUME PolicyInv PROVE LimitsHold
  <2>1. SUFFICES ASSUME lock["rwsem"] = NoOne, ~update,
                        \A t \in Writers : op[t].kind # "update"
        PROVE  InLimits(cur)
    BY DEF LimitsHold, Free, NotOwned, InLimits
  <2>2. ASSUME NEW t \in Writers PROVE ~Changing(t)
    BY <1>1, <2>1, ThreadsAssumption
       DEF Changing, PolicyInv, LocksInv, SemaphoreInv, Owns, Threads, InDriver
  <2>3. ASSUME NEW t \in Writers PROVE ~Updating(t)
    BY <2>1 DEF Updating
  <2> QED BY <1>1, <2>1, <2>2, <2>3 DEF PolicyInv, LimitsInv
<1> QED BY <1>1, Invariant, PTL

-----------------------------------------------------------------------------
(* Deadlocks                                                                *)

(* A thread that waits for another and does not plug a CPU; the locks have  *)
(* an order: the semaphore, the mutex of the governor, set_freq_lock.       *)

(* Whoever has set_freq_lock waits for nobody                               *)
LEMMA InTransition ==
  ASSUME PolicyInv, NEW t \in Threads, lock["set_freq_lock"] = t, ~Plugging(t)
  PROVE  \A u \in Threads : ~WaitsFor(t, u)
<1>1. pc[t] \in {"setting", "moved", "notified"}
  BY DEF PolicyInv, LocksInv, FreqLockInv, Plugging
<1>2. Wanted(t) = {}
  BY <1>1 DEF Wanted
<1> QED BY <1>1, <1>2 DEF WaitsFor

(* Who holds the mutex of a governor waits for set_freq_lock at most        *)
LEMMA InGovernor ==
  ASSUME PolicyInv, NEW t \in Threads, pc[t] \in InDriver, ~Plugging(t),
         NEW u \in Threads, WaitsFor(t, u)
  PROVE  lock["set_freq_lock"] = u
<1>1. pc[t] = "target" \/ Wanted(t) = {}
  BY DEF Wanted, InDriver, Plugging
<1>2. pc[t] = "target" => Wanted(t) = {"set_freq_lock"}
  BY DEF Wanted
<1>3. pc[t] # "wait_work"
  BY DEF InDriver
<1> QED BY <1>1, <1>2, <1>3 DEF WaitsFor

(* The worker waits for a task in the driver or for the end of a transition *)
LEMMA WorkWaits ==
  ASSUME PolicyInv, ~Plugging(Work), NEW u \in Threads, WaitsFor(Work, u)
  PROVE  pc[u] \in InDriver
<1> USE ThreadsAssumption DEF PolicyInv, Threads
<1>1. pc[Work] \in {"idle", "timer_lock"} \cup InDriver
  BY DEF OpsInv
<1>2. CASE pc[Work] = "idle"
  BY <1>2 DEF WaitsFor, Wanted
<1>3. CASE pc[Work] = "timer_lock"
  <2>1. Wanted(Work) = {"timer_mutex"}
    BY <1>3 DEF Wanted
  <2>2. lock["timer_mutex"] = u
    BY <1>3, <2>1 DEF WaitsFor
  <2> QED BY <2>2 DEF LocksInv, MutexesInv, Holds
<1>4. CASE pc[Work] \in InDriver
  BY <1>4, InGovernor DEF LocksInv, FreqLockInv, InDriver
<1> QED BY <1>1, <1>2, <1>3, <1>4

(* The owner of the semaphore waits for the worker or for set_freq_lock     *)
LEMMA OwnerWaits ==
  ASSUME PolicyInv, NEW t \in Writers, Owns(t), ~Plugging(t), pc[t] \notin InDriver,
         NEW u \in Threads, WaitsFor(t, u)
  PROVE  u = Work
<1> USE ThreadsAssumption DEF PolicyInv, Threads
<1>1. Wanted(t) \subseteq {"timer_mutex", "vbfs_mutex", "userspace_mutex"}
  BY DEF Wanted, Owns, GovernorMutex, LimitsMutex, InDriver, Plugging, OpsInv
<1>2. CASE pc[t] = "wait_work" /\ u = Work
  BY <1>2
<1>3. ASSUME NEW l \in {"timer_mutex", "vbfs_mutex", "userspace_mutex"}, lock[l] = u,
             u # Work
      PROVE  FALSE
  <2>1. Holds(u, l) /\ u \in Writers
    BY <1>3 DEF LocksInv, MutexesInv
  <2>2. Owns(u) /\ pc[u] \in InDriver
    BY <1>3, <2>1 DEF Holds, Owns, InDriver, Changes
  <2> QED BY <2>1, <2>2, OneOwner
<1> QED BY <1>1, <1>2, <1>3 DEF WaitsFor

(* A task that waits for the semaphore waits for its owner or for a reader  *)
LEMMA TaskWaits ==
  ASSUME PolicyInv, NEW t \in Writers, ~Owns(t), ~Plugging(t), NEW u \in Threads,
         WaitsFor(t, u)
  PROVE  u \in Writers /\ (Owns(u) \/ Reading(u)) /\ pc[t] = "rwsem"
<1> USE ThreadsAssumption DEF PolicyInv, Threads
<1>1. pc[t] = "rwsem"
  <2>1. pc[t] \in {"idle", "rwsem", "compare", "announce"}
    BY DEF Owns, OpsInv, OpInv, Plugging
  <2>2. pc[t] # "rwsem" => Wanted(t) = {}
    BY <2>1 DEF Wanted
  <2> QED BY <2>1, <2>2 DEF WaitsFor
<1>2. Wanted(t) = {"rwsem"}
  BY <1>1 DEF Wanted
<1>3. lock["rwsem"] = u \/ Reading(u)
  BY <1>1, <1>2 DEF WaitsFor
<1>4. CASE lock["rwsem"] = u
  BY <1>1, <1>4 DEF LocksInv, SemaphoreInv, Owns
<1>5. CASE Reading(u)
  BY <1>1, <1>5 DEF Reading, OpsInv, NoOp
<1> QED BY <1>3, <1>4, <1>5

(* No threads wait for each other unless one of them plugs a CPU in the     *)
(* core's CPU notifier.                                                     *)
THEOREM PluggingIsTheOnlyDeadlock == Spec => []OnlyPluggingDeadlocks
<1>1. ASSUME PolicyInv PROVE OnlyPluggingDeadlocks
  <2> USE <1>1
  <2>1. SUFFICES ASSUME NEW T \in SUBSET Threads, WaitCycle(T),
                        \A t \in T : ~Plugging(t)
                 PROVE  FALSE
    BY DEF OnlyPluggingDeadlocks
  <2>2. \A t \in T : t \in Threads /\ \E u \in T : WaitsFor(t, u)
    BY <2>1 DEF WaitCycle
  <2>3. \A t \in T : lock["set_freq_lock"] # t
    BY <2>1, <2>2, InTransition
  <2>4. \A t \in T : pc[t] \notin InDriver
    BY <2>1, <2>2, <2>3, InGovernor
  <2>5. Work \notin T
    BY <2>1, <2>2, <2>4, WorkWaits
  <2>6. \A t \in T : t \in Writers
    BY <2>1, <2>5 DEF Threads
  <2>7. \A t \in T : ~Owns(t)
    BY <2>1, <2>2, <2>4, <2>5, <2>6, OwnerWaits
  <2>8. \A t \in T : pc[t] = "rwsem"
    BY <2>1, <2>2, <2>6, <2>7, TaskWaits
  <2>9. PICK t \in T : TRUE
    BY <2>1 DEF WaitCycle
  <2>10. PICK u \in T : WaitsFor(t, u)
    BY <2>2
  <2>11. Owns(u) \/ Reading(u)
    BY <2>1, <2>2, <2>6, <2>7, <2>10, TaskWaits
  <2> QED BY <2>7, <2>8, <2>11 DEF Reading
<1> QED BY <1>1, Invariant, PTL

(* A task that gets into the CPU notifier never leaves it: it waits for the *)
(* semaphore that it has itself.                                            *)
THEOREM TasksStayInNotifier ==
  Spec => [][\A t \in Writers : pc[t] = "cpu_callback" => pc'[t] = "cpu_callback"]_vars
<1>1. ASSUME PolicyInv, [Next]_vars, NEW t \in Writers, pc[t] = "cpu_callback"
      PROVE  pc'[t] = "cpu_callback"
  <2> USE <1>1, Types, ThreadsAssumption DEF PolicyInv, Threads, Goto
  <2>1. ASSUME NEW u \in Threads, CpuCallback(u) PROVE pc'[t] = pc[t]
    BY <2>1, CallbackOfWork DEF CpuCallback
  <2>2. ASSUME NEW u \in Threads, \/ DriverLock(u) \/ MoveClock(u) \/ PlugCpu(u)
                                  \/ SetFreq(u)
        PROVE  pc'[t] = pc[t]
    BY <2>2 DEF DriverLock, MoveClock, PlugCpu, SetFreq
  <2>3. ASSUME NEW u \in Writers, \/ Write(u) \/ HandleUpdate(u) \/ ReadFreq(u)
                                  \/ Compare(u) \/ OutOfSync(u) \/ Unlock(u)
        PROVE  pc'[t] = pc[t]
    BY <2>3 DEF Write, HandleUpdate, ReadFreq, Compare, OutOfSync, Unlock, Known
  <2>4. ASSUME NEW u \in Writers, SetPolicy(u) PROVE pc'[t] = pc[t]
    BY <2>4 DEF SetPolicy, AfterRefusal
  <2>5. ASSUME NEW u \in Writers, \/ Cancel(u) \/ StopVbfs(u) \/ StopUserspace(u)
                                  \/ StartVbfs(u) \/ StartUserspace(u)
        PROVE  pc'[t] = pc[t]
    BY <2>5 DEF Cancel, StopVbfs, StopUserspace, StartVbfs, StartUserspace,
       Starting, Started, AfterFailure
  <2>6. ASSUME NEW u \in Writers, \/ LimitsVbfs(u) \/ LimitsUserspace(u)
                                  \/ TakeForSpeed(u) \/ SetSpeedVbfs(u)
                                  \/ SetSpeedUserspace(u) \/ TargetSet(u)
        PROVE  pc'[t] = pc[t]
    BY <2>6 DEF LimitsVbfs, LimitsUserspace, TakeForSpeed, SetSpeedVbfs,
       SetSpeedUserspace, TargetSet, Target
  <2>7. CASE WorkBegin \/ WorkEnd \/ ShowSpeed \/ StoreBias \/ BpResume
    BY <2>7 DEF WorkBegin, WorkEnd, ShowSpeed, StoreBias, BpResume, threads
  <2>8. CASE Sample
    <3>1. \E p : pc' = [pc EXCEPT ![Work] = p]
      BY <2>8 DEF Sample, SubSample, NormalSample, Target
    <3> QED BY <3>1
  <2>9. CASE UNCHANGED vars
    BY <2>9 DEF vars, threads
  <2> QED BY <2>1, <2>2, <2>3, <2>4, <2>5, <2>6, <2>7, <2>8, <2>9
          DEF Next, Continue, Sampler, Driver
<1>2. PolicyInv /\ [Next]_vars =>
        [\A t \in Writers : pc[t] = "cpu_callback" => pc'[t] = "cpu_callback"]_vars
  BY <1>1
<1> QED BY <1>2, Invariant, PTL DEF Spec

=============================================================================
