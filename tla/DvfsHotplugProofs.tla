--------------------------- MODULE DvfsHotplugProofs ---------------------------
(***************************************************************************)
(* Proofs about DvfsHotplug, for every threshold, frequency table and      *)
(* bound of nr_running that its assumptions allow.                         *)
(***************************************************************************)
EXTENDS DvfsHotplug, TLAPS

(* Each rule of the two chains names a CPU other than 0, a count and a test *)
LEMMA RulesAreRules ==
  ASSUME quad \in BOOLEAN
  PROVE  /\ Len(UpRules) \in 1 .. 3 /\ Len(DownRules) = Len(UpRules)
         /\ \A i \in 1 .. Len(UpRules) :
              /\ UpRules[i].cpu \in Cpus \ {0} /\ UpRules[i].load \in Loads
              /\ DownRules[i].cpu \in Cpus \ {0} /\ DownRules[i].load \in Loads
<1>1. CASE quad
  <2>1. Len(UpRules) = 3 /\ Len(DownRules) = 3
    BY <1>1 DEF UpRules, DownRules
  <2>2. \A i \in 1 .. 3 : i = 1 \/ i = 2 \/ i = 3
    OBVIOUS
  <2>. QED
    BY <1>1, <2>1, <2>2 DEF UpRules, DownRules, Cpus, Loads
<1>2. CASE ~quad
  <2>1. Len(UpRules) = 1 /\ Len(DownRules) = 1
    BY <1>2 DEF UpRules, DownRules
  <2>2. \A i \in 1 .. 1 : i = 1
    OBVIOUS
  <2>. QED
    BY <1>2, <2>1, <2>2 DEF UpRules, DownRules, Cpus, Loads
<1>. QED
  BY <1>1, <1>2

(* A count stays at or below the threshold that it is compared with         *)
LEMMA IncBounded ==
  ASSUME NEW need \in Nat \ {0}, NEW c \in 0 .. need
  PROVE  Inc(c, need) \in 1 .. need
BY DEF Inc

LEMMA LimitsAreNeeds ==
  ASSUME quad \in BOOLEAN, NEW n \in Loads
  PROVE  OverLimit(n) \in Nat \ {0} /\ UnderNeed[n] \in Nat \ {0}
BY NeedAssumption DEF OverLimit

-----------------------------------------------------------------------------
(* Types: the handler only looks at rules there are                         *)

RuleExists ==
  /\ pc = "at_most" => rule <= 3
  /\ pc \in {"up", "cpu_up", "down", "cpu_down"} => rule <= Len(UpRules)

TypeInv == TypeOK /\ RuleExists

(* TypeOK by the variables it is about                                      *)
MachineTyped == quad \in BOOLEAN /\ nr \in 0 .. MaxNr /\ cur \in Freqs
                /\ can_hotplug \in BOOLEAN
OnlineTyped == online \in SUBSET Cpus /\ 0 \in online
LoadCountsTyped ==
  /\ over \in [Loads -> Nat] /\ under \in [Loads -> Nat]
  /\ \A n \in Loads : over[n] <= OverLimit(n) /\ under[n] <= UnderNeed[n]
FreqCountsTyped ==
  /\ in_cnt \in 0 .. FreqNeed /\ out_cnt \in 0 .. FreqNeed
  /\ loaded \in (0 .. FreqNeed) \X (0 .. FreqNeed)
HandlerTyped ==
  /\ pc \in HandlerPcs \cup {"idle"} /\ rule \in 1 .. 4
  /\ freqs \in [old : Freqs, new : Freqs]
HistoryTyped ==
  since \in 0 .. FreqNeed /\ moved \in BOOLEAN /\ mixed \in BOOLEAN

LEMMA TypeParts ==
  TypeInv <=> /\ MachineTyped /\ OnlineTyped /\ LoadCountsTyped
              /\ FreqCountsTyped /\ HandlerTyped /\ HistoryTyped /\ RuleExists
BY DEF TypeInv, TypeOK, MachineTyped, OnlineTyped, LoadCountsTyped,
   FreqCountsTyped, HandlerTyped, HistoryTyped

LEMMA InitTyped == Init => TypeInv
<1>. SUFFICES ASSUME Init PROVE TypeInv
  OBVIOUS
<1>1. MachineTyped
  BY SocsAssumption DEF Init, MachineTyped
<1>2. OnlineTyped
  BY DEF Init, OnlineTyped, Cpus
<1>3. LoadCountsTyped
  <2>1. \A n \in Loads : OverLimit(n) \in Nat \ {0} /\ UnderNeed[n] \in Nat \ {0}
    BY <1>1, LimitsAreNeeds DEF MachineTyped
  <2>2. /\ over \in [Loads -> Nat] /\ under \in [Loads -> Nat]
        /\ \A n \in Loads : over[n] = 0 /\ under[n] = 0
    BY DEF Init
  <2>3. ASSUME NEW n \in Loads
        PROVE  over[n] <= OverLimit(n) /\ under[n] <= UnderNeed[n]
    BY <2>1, <2>2
  <2>. QED
    BY <2>2, <2>3 DEF LoadCountsTyped
<1>4. FreqCountsTyped /\ HistoryTyped
  <2>1. 0 \in 0 .. FreqNeed
    BY NeedAssumption
  <2>. QED
    BY <2>1 DEF Init, FreqCountsTyped, HistoryTyped
<1>5. HandlerTyped /\ RuleExists
  BY DEF Init, HandlerTyped, HandlerPcs, RuleExists
<1>. QED
  BY <1>1, <1>2, <1>3, <1>4, <1>5, TypeParts

(* The counts of load keep their bounds                                     *)
LEMMA CountLoadTyped ==
  ASSUME TypeOK, NEW r \in 1 .. 4, CountLoad(r)
  PROVE  /\ over' \in [Loads -> Nat] /\ under' \in [Loads -> Nat]
         /\ \A n \in Loads : over'[n] <= OverLimit(n) /\ under'[n] <= UnderNeed[n]
<1>1. ASSUME NEW n \in Loads
      PROVE  /\ Inc(over[n], OverLimit(n)) \in 1 .. OverLimit(n)
             /\ Inc(under[n], UnderNeed[n]) \in 1 .. UnderNeed[n]
             /\ OverLimit(n) \in Nat /\ UnderNeed[n] \in Nat
  <2>1. OverLimit(n) \in Nat \ {0} /\ UnderNeed[n] \in Nat \ {0}
    BY LimitsAreNeeds DEF TypeOK
  <2>2. over[n] \in 0 .. OverLimit(n) /\ under[n] \in 0 .. UnderNeed[n]
    BY <2>1 DEF TypeOK
  <2>. QED
    BY <2>1, <2>2, IncBounded
<1>. QED
  BY <1>1 DEF CountLoad

LEMMA TypesKept == TypeInv /\ [Next]_vars => TypeInv'
<1>. SUFFICES ASSUME TypeInv, [Next]_vars PROVE TypeInv'
  OBVIOUS
<1>0. /\ MachineTyped /\ OnlineTyped /\ LoadCountsTyped
      /\ FreqCountsTyped /\ HandlerTyped /\ HistoryTyped /\ RuleExists
  BY TypeParts
<1>1. /\ quad' = quad /\ Cpus' = Cpus /\ UpRules' = UpRules
      /\ DownRules' = DownRules /\ \A n \in Loads : OverLimit(n)' = OverLimit(n)
  <2>1. quad' = quad
    BY DEF Next, Handler, Load, Transition, TestAtMost, TestMoreThan,
       LoadFreqCounts, StoreFreqCounts, TestUp, CpuUp, TestDown, CpuDown,
       SuspendPrepare, PostSuspend, machine, vars
  <2>. QED
    BY <2>1 DEF Cpus, UpRules, DownRules, OverLimit
<1>2. /\ Len(UpRules) \in 1 .. 3 /\ Len(DownRules) = Len(UpRules)
      /\ \A i \in 1 .. Len(UpRules) :
           UpRules[i].cpu \in Cpus \ {0} /\ DownRules[i].cpu \in Cpus \ {0}
  BY <1>0, RulesAreRules DEF MachineTyped
<1>3. MachineTyped'
  BY <1>0 DEF MachineTyped, Next, Handler, Load, Transition, TestAtMost,
     TestMoreThan, LoadFreqCounts, StoreFreqCounts, TestUp, CpuUp, TestDown,
     CpuDown, SuspendPrepare, PostSuspend, machine, vars
<1>4. OnlineTyped'
  <2>1. CASE CpuUp
    <3>1. UpRules[rule].cpu \in Cpus
      BY <1>0, <1>2, <2>1 DEF CpuUp, RuleExists, HandlerTyped
    <3>. QED
      BY <1>0, <1>1, <2>1, <3>1 DEF CpuUp, Changed, OnlineTyped
  <2>2. CASE CpuDown
    <3>1. DownRules[rule].cpu \in Cpus \ {0}
      BY <1>0, <1>2, <2>2 DEF CpuDown, RuleExists, HandlerTyped
    <3>. QED
      BY <1>0, <1>1, <2>2, <3>1 DEF CpuDown, Changed, OnlineTyped
  <2>3. CASE online' = online
    BY <1>0, <1>1, <2>3 DEF OnlineTyped
  <2>. QED
    BY <2>1, <2>2, <2>3 DEF Next, Handler, Load, Transition, TestAtMost,
       TestMoreThan, LoadFreqCounts, StoreFreqCounts, TestUp, TestDown,
       SuspendPrepare, PostSuspend, machine, vars
<1>5. LoadCountsTyped'
  <2>1. CASE \E r \in 1 .. 4 : CountLoad(r)
    BY <1>1, <2>1, CountLoadTyped DEF LoadCountsTyped, TypeInv
  <2>2. CASE CpuUp \/ CpuDown
    <3>1. \A n \in Loads : OverLimit(n) \in Nat /\ UnderNeed[n] \in Nat
      BY <1>0, LimitsAreNeeds DEF MachineTyped
    <3>. QED
      BY <1>0, <1>1, <2>2, <3>1 DEF CpuUp, CpuDown, LoadCountsTyped
  <2>3. CASE UNCHANGED <<over, under>>
    BY <1>0, <1>1, <2>3 DEF LoadCountsTyped
  <2>4. TestAtMost \/ TestMoreThan =>
          UNCHANGED <<over, under>> \/ \E r \in 1 .. 4 : CountLoad(r)
    BY <1>0 DEF TestAtMost, TestMoreThan, HandlerTyped
  <2>. QED
    BY <2>1, <2>2, <2>3, <2>4 DEF Next, Handler, Load, Transition,
       LoadFreqCounts, StoreFreqCounts, TestUp, TestDown, SuspendPrepare,
       PostSuspend, counts, vars
<1>6. FreqCountsTyped'
  <2>1. CASE StoreFreqCounts
    <3>1. /\ Inc(loaded[1], FreqNeed) \in 0 .. FreqNeed
          /\ Inc(loaded[2], FreqNeed) \in 0 .. FreqNeed
      BY <1>0, NeedAssumption, IncBounded DEF FreqCountsTyped
    <3>. QED
      BY <2>1, <3>1, NeedAssumption DEF StoreFreqCounts, FreqCountsTyped
  <2>2. CASE CpuUp \/ CpuDown
    BY <1>0, <2>2, NeedAssumption DEF CpuUp, CpuDown, AfterDown, FreqCountsTyped
  <2>3. CASE SuspendPrepare
    BY <1>0, <2>3, NeedAssumption
    DEF SuspendPrepare, SuspendPrepareCounts, FreqCountsTyped
  <2>4. CASE LoadFreqCounts
    BY <1>0, <2>4 DEF LoadFreqCounts, FreqCountsTyped, counts
  <2>5. CASE UNCHANGED <<in_cnt, out_cnt, loaded>>
    BY <1>0, <2>5 DEF FreqCountsTyped
  <2>. QED
    BY <2>1, <2>2, <2>3, <2>4, <2>5 DEF Next, Handler, Load, Transition,
       TestAtMost, TestMoreThan, TestUp, TestDown, PostSuspend, counts, vars
<1>7. HandlerTyped' /\ RuleExists'
  <2>1. /\ pc' \in HandlerPcs \cup {"idle"} /\ rule' \in 1 .. 4
        /\ pc' = "at_most" => rule' <= 3
        /\ pc' \in {"up", "cpu_up", "down", "cpu_down"} => rule' <= Len(UpRules)
    <3>1. CASE Transition
      <4>1. Goto("at_most", 1) \/ UNCHANGED <<pc, rule>>
        BY <3>1 DEF Transition
      <4>. QED
        BY <1>0, <4>1 DEF Goto, HandlerTyped, HandlerPcs, RuleExists
    <3>2. CASE TestAtMost \/ TestMoreThan
      BY <1>0, <3>2
      DEF TestAtMost, TestMoreThan, Goto, HandlerTyped, HandlerPcs, RuleExists
    <3>3. CASE LoadFreqCounts \/ StoreFreqCounts
      BY <1>2, <3>3 DEF LoadFreqCounts, StoreFreqCounts, Goto, HandlerPcs
    <3>4. CASE TestUp \/ TestDown
      BY <1>0, <1>2, <3>4
      DEF TestUp, TestDown, Goto, HandlerTyped, HandlerPcs, RuleExists
    <3>5. CASE CpuUp \/ CpuDown
      BY <1>2, <3>5 DEF CpuUp, CpuDown, Goto, HandlerPcs
    <3>6. CASE UNCHANGED <<pc, rule>>
      BY <1>0, <3>6 DEF HandlerTyped, RuleExists
    <3>. QED
      BY <3>1, <3>2, <3>3, <3>4, <3>5, <3>6
      DEF Next, Handler, Load, SuspendPrepare, PostSuspend, vars
  <2>2. freqs' \in [old : Freqs, new : Freqs]
    BY <1>0 DEF HandlerTyped, MachineTyped, Next, Handler, Load, Transition,
       TestAtMost, TestMoreThan, LoadFreqCounts, StoreFreqCounts, TestUp,
       CpuUp, TestDown, CpuDown, SuspendPrepare, PostSuspend, vars
  <2>. QED
    BY <1>1, <2>1, <2>2 DEF HandlerTyped, RuleExists
<1>8. HistoryTyped'
  <2>1. Inc(since, FreqNeed) \in 0 .. FreqNeed /\ 0 \in 0 .. FreqNeed
    BY <1>0, NeedAssumption, IncBounded DEF HistoryTyped
  <2>. QED
    BY <1>0, <2>1 DEF HistoryTyped, Next, Handler, Load, Transition, TestAtMost,
       TestMoreThan, LoadFreqCounts, StoreFreqCounts, TestUp, CpuUp, TestDown,
       CpuDown, Changed, SuspendPrepare, PostSuspend, history, vars
<1>. QED
  BY <1>3, <1>4, <1>5, <1>6, <1>7, <1>8, TypeParts, PTL

(* The variables keep their types: in particular the counts stay within     *)
(* their thresholds, CPU 0 stays online, and the chains of rules are never  *)
(* followed past their ends.                                                *)
THEOREM HotplugTyped == Spec => []TypeInv
<1>. QED
  BY InitTyped, TypesKept, PTL DEF Spec

-----------------------------------------------------------------------------
(* CountsAgree is inductive: each notification writes all counts of load in *)
(* one of its tests, whichever one that is                                  *)

LEMMA CountLoadAgrees ==
  ASSUME TypeOK, TypeOK', NEW r \in 1 .. 4, CountLoad(r)
  PROVE  CountsAgree'
<1>1. ASSUME NEW n \in Loads
      PROVE  /\ OverLimit(n) \in Nat \ {0} /\ UnderNeed[n] \in Nat \ {0}
             /\ over[n] \in 0 .. OverLimit(n) /\ under[n] \in 0 .. UnderNeed[n]
  <2>1. OverLimit(n) \in Nat \ {0} /\ UnderNeed[n] \in Nat \ {0}
    BY LimitsAreNeeds DEF TypeOK
  <2>. QED
    BY <2>1 DEF TypeOK
<1>2. ASSUME NEW n \in Loads
      PROVE  /\ Inc(over[n], OverLimit(n)) > 0
             /\ Inc(under[n], UnderNeed[n]) > 0
  BY <1>1, IncBounded
<1>3. \A n \in Loads : /\ over'[n] > 0 <=> n <= r
                       /\ under'[n] > 0 <=> n > r
                       /\ over'[n] = 0 \/ under'[n] = 0
  BY <1>2 DEF CountLoad, Loads
<1>. QED
  BY <1>3 DEF CountsAgree, Loads

LEMMA CountsKept == TypeInv /\ TypeInv' /\ CountsAgree /\ [Next]_vars => CountsAgree'
<1>. SUFFICES ASSUME TypeInv, TypeInv', CountsAgree, [Next]_vars
              PROVE  CountsAgree'
  OBVIOUS
<1>1. CASE TestAtMost \/ TestMoreThan
  <2>1. CASE UNCHANGED <<over, under>>
    BY <1>1, <2>1 DEF CountsAgree, TestAtMost, TestMoreThan, machine
  <2>2. CASE \E r \in 1 .. 4 : CountLoad(r)
    BY <2>2, CountLoadAgrees DEF TypeInv
  <2>. QED
    BY <1>1, <2>1, <2>2 DEF TestAtMost, TestMoreThan, TypeInv, TypeOK
<1>2. CASE CpuUp
  BY <1>2 DEF CpuUp, CountsAgree, TypeInv, TypeOK, Loads
<1>3. CASE CpuDown
  BY <1>3 DEF CpuDown, CountsAgree, TypeInv, TypeOK, Loads
<1>4. CASE UNCHANGED <<quad, over, under>>
  BY <1>4 DEF CountsAgree
<1>. QED
  BY <1>1, <1>2, <1>3, <1>4
  DEF Next, Handler, Load, Transition, LoadFreqCounts, StoreFreqCounts, TestUp,
      TestDown, SuspendPrepare, PostSuspend, machine, counts, history, vars

(* However nr_running moves between the tests of one notification, for any  *)
(* thresholds, no load counts as both over and under, and who was busy with *)
(* n threads was busy with fewer.                                           *)
THEOREM CountsAlwaysAgree == Spec => []CountsAgree
<1>1. Init => CountsAgree
  BY DEF Init, CountsAgree
<1>. QED
  BY <1>1, HotplugTyped, CountsKept, PTL DEF Spec

-----------------------------------------------------------------------------
(* A change of the CPUs needs a frequency count at its threshold.  A count  *)
(* grows by at most one in a notification, so that it never exceeds since   *)
(* (nor reaches it before the notification has counted), and the change     *)
(* leaves both counts at zero: its own is reset and the other one is zero,  *)
(* since a frequency is not high and low at once.                           *)

Below(c) == c <= since /\ (since = FreqNeed \/ c < since)

SpacedInv ==
  /\ in_cnt <= since /\ out_cnt <= since
  /\ pc \in {"at_most", "more_than", "load_freq"} => Below(in_cnt) /\ Below(out_cnt)
  /\ pc = "store_freq" => Below(loaded[1]) /\ Below(loaded[2])
  /\ pc \in {"up", "cpu_up", "down", "cpu_down"} =>
       (High => out_cnt = 0) /\ (Low => in_cnt = 0)
  /\ pc = "cpu_up" => High /\ since >= FreqNeed
  /\ pc = "cpu_down" => Low /\ since >= FreqNeed

LEMMA HighIsNotLow ==
  ASSUME TypeOK
  PROVE  ~(High /\ Low)
<1>1. freqs.new \in Nat
  BY TriggerAssumption DEF TypeOK
<1>. QED
  BY <1>1, TriggerAssumption DEF High, Low

LEMMA SpacedKept ==
  TypeInv /\ TypeInv' /\ SpacedInv /\ [Next]_vars => SpacedInv'
<1>. SUFFICES ASSUME TypeInv, TypeInv', SpacedInv, [Next]_vars
              PROVE  SpacedInv'
  OBVIOUS
<1>0. /\ FreqNeed \in Nat \ {0} /\ since \in 0 .. FreqNeed
      /\ in_cnt \in 0 .. FreqNeed /\ out_cnt \in 0 .. FreqNeed
      /\ loaded[1] \in 0 .. FreqNeed /\ loaded[2] \in 0 .. FreqNeed
  BY NeedAssumption DEF TypeInv, TypeOK
<1>1. CASE Load
  BY <1>1 DEF Load, SpacedInv, Below, High, Low, counts
<1>2. CASE Transition
  <2>1. CASE can_hotplug
    BY <1>0, <1>2, <2>1
    DEF Transition, SpacedInv, Below, Goto, Inc, counts
  <2>2. CASE ~can_hotplug
    BY <1>2, <2>2 DEF Transition, SpacedInv, counts
  <2>. QED
    BY <2>1, <2>2
<1>3. CASE TestAtMost \/ TestMoreThan
  BY <1>3 DEF TestAtMost, TestMoreThan, SpacedInv, Below, Goto, machine, history
<1>4. CASE LoadFreqCounts
  BY <1>4 DEF LoadFreqCounts, SpacedInv, Below, Goto, counts, history
<1>5. CASE StoreFreqCounts
  <2>1. ~(High /\ Low)
    BY HighIsNotLow DEF TypeInv
  <2>2. Inc(loaded[1], FreqNeed) <= since /\ Inc(loaded[2], FreqNeed) <= since
    BY <1>0, <1>5 DEF StoreFreqCounts, SpacedInv, Below, Inc
  <2>3. in_cnt' <= since /\ out_cnt' <= since
    BY <1>0, <1>5, <2>2 DEF StoreFreqCounts
  <2>4. High' = High /\ Low' = Low
    BY <1>5 DEF StoreFreqCounts, High, Low
  <2>5. (High => out_cnt' = 0) /\ (Low => in_cnt' = 0)
    BY <1>5, <2>1 DEF StoreFreqCounts
  <2>. QED
    BY <1>5, <2>3, <2>4, <2>5 DEF StoreFreqCounts, SpacedInv, Goto, history
<1>6. CASE TestUp
  <2>1. High' = High /\ Low' = Low
    BY <1>6 DEF TestUp, High, Low
  <2>2. pc' = "cpu_up" => High /\ in_cnt >= FreqNeed
    BY <1>6 DEF TestUp, UpApplies, UpDue, Goto
  <2>3. pc' \in {"up", "cpu_up", "down"} /\ pc = "up"
    BY <1>6 DEF TestUp, Goto
  <2>. QED
    BY <1>0, <1>6, <2>1, <2>2, <2>3 DEF TestUp, SpacedInv, counts, history
<1>7. CASE TestDown
  <2>1. High' = High /\ Low' = Low
    BY <1>7 DEF TestDown, High, Low
  <2>2. pc' = "cpu_down" => Low /\ out_cnt >= FreqNeed
    BY <1>7 DEF TestDown, DownApplies, DownDue, Goto
  <2>3. pc' \in {"down", "cpu_down", "idle"} /\ pc = "down"
    BY <1>7 DEF TestDown, Goto
  <2>. QED
    BY <1>0, <1>7, <2>1, <2>2, <2>3 DEF TestDown, SpacedInv, counts, history
<1>8. CASE CpuUp
  <2>1. in_cnt' = 0 /\ out_cnt' = 0 /\ pc' = "down"
    BY <1>8 DEF CpuUp, SpacedInv, Goto
  <2>2. since' \in 0 .. FreqNeed
    BY <1>0, <1>8 DEF CpuUp, Changed
  <2>. QED
    BY <2>1, <2>2 DEF SpacedInv
<1>9. CASE CpuDown
  <2>1. in_cnt' = 0 /\ out_cnt' = 0 /\ pc' = "idle"
    BY <1>9 DEF CpuDown, AfterDown, SpacedInv, Goto
  <2>2. since' \in 0 .. FreqNeed
    BY <1>0, <1>9 DEF CpuDown, Changed
  <2>. QED
    BY <2>1, <2>2 DEF SpacedInv
<1>10. CASE SuspendPrepare
  <2>1. in_cnt' = 0 /\ out_cnt' = 0 /\ pc' = pc /\ freqs' = freqs
        /\ loaded' = loaded
    BY <1>10 DEF SuspendPrepare, SuspendPrepareCounts
  <2>2. CASE pc = "idle"
    BY <1>0, <1>10, <2>1, <2>2 DEF SuspendPrepare, SpacedInv
  <2>3. CASE pc # "idle"
    <3>1. since' = since
      BY <1>10, <2>3 DEF SuspendPrepare
    <3>. QED
      BY <1>0, <2>1, <3>1 DEF SpacedInv, Below, High, Low
  <2>. QED
    BY <2>2, <2>3
<1>11. CASE PostSuspend
  BY <1>11 DEF PostSuspend, SpacedInv, Below, High, Low, counts, history
<1>12. CASE UNCHANGED vars
  BY <1>12 DEF vars, SpacedInv, Below, High, Low, counts, history
<1>. QED
  BY <1>1, <1>2, <1>3, <1>4, <1>5, <1>6, <1>7, <1>8, <1>9, <1>10, <1>11,
     <1>12 DEF Next, Handler

LEMMA ChangesNeedSpace ==
  SpacedInv /\ [Next]_vars => (online' # online => since >= FreqNeed)
<1>1. ASSUME SpacedInv, CpuUp \/ CpuDown PROVE since >= FreqNeed
  BY <1>1 DEF SpacedInv, CpuUp, CpuDown
<1>2. ASSUME [Next]_vars, ~(CpuUp \/ CpuDown) PROVE online' = online
  BY <1>2 DEF Next, Handler, Load, Transition, TestAtMost, TestMoreThan,
     LoadFreqCounts, StoreFreqCounts, TestUp, TestDown, SuspendPrepare,
     PostSuspend, machine, vars
<1>. QED
  BY <1>1, <1>2

(* The CPUs do not flap: FreqNeed notifications lie between any two changes *)
(* and between a change and a suspend before it, whatever the thresholds,   *)
(* although suspends reset the counts in the middle of a notification.      *)
THEOREM ChangesAreSpaced == Spec => ChangesSpaced
<1>1. Init => SpacedInv
  BY DEF Init, SpacedInv
<1>2. Spec => []SpacedInv
  BY <1>1, HotplugTyped, SpacedKept, PTL DEF Spec
<1>3. SpacedInv /\ [Next]_vars => [online' # online => since >= FreqNeed]_vars
  BY ChangesNeedSpace
<1>. QED
  BY <1>2, <1>3, PTL DEF Spec, ChangesSpaced
-----------------------------------------------------------------------------
(* The order of the CPUs.  A later rule asks for at least the load of an    *)
(* earlier one, so that in a notification during which nr_running stays the *)
(* same a rule applies only if the earlier ones have nothing left to do.    *)

(* What the rules before the one that the handler is at said                *)
RulesPassed ==
  /\ pc \in {"up", "cpu_up"} =>
       \A i \in 1 .. rule - 1 : ~UpApplies(UpRules[i])
  /\ pc \in {"down", "cpu_down"} =>
       \A i \in 1 .. rule - 1 : ~DownApplies(DownRules[i])
  /\ pc = "cpu_up" => UpApplies(UpRules[rule])
  /\ pc = "cpu_down" => DownApplies(DownRules[rule])

OrderInv == OnlineOrder /\ (~moved => RulesPassed)

(* The CPU that is brought up is the highest that is offline ...            *)
LEMMA UpInOrder ==
  ASSUME TypeOK, NEW r \in 1 .. Len(UpRules), UpApplies(UpRules[r]),
         \A i \in 1 .. r - 1 : ~UpApplies(UpRules[i])
  PROVE  \A d \in Cpus : UpRules[r].cpu < d => d \in online
<1>1. nr \in Nat
  BY TriggerAssumption DEF TypeOK
<1>2. CASE quad
  <2>1. /\ Len(UpRules) = 3 /\ UpRules[1].cpu = 3 /\ UpRules[1].nr = 2
        /\ UpRules[2].cpu = 2 /\ UpRules[2].nr = 3
        /\ UpRules[3].cpu = 1 /\ UpRules[3].nr = 4
    BY <1>2 DEF UpRules
  <2>2. r = 1 \/ r = 2 \/ r = 3
    BY <2>1
  <2>3. r > 1 => 3 \in online
    BY <1>1, <2>1, <2>2 DEF UpApplies
  <2>4. r > 2 => 2 \in online
    BY <1>1, <2>1, <2>2 DEF UpApplies
  <2>. QED
    BY <1>2, <2>1, <2>2, <2>3, <2>4 DEF Cpus
<1>3. CASE ~quad
  <2>1. Len(UpRules) = 1 /\ UpRules[1].cpu = 1
    BY <1>3 DEF UpRules
  <2>. QED
    BY <1>3, <2>1 DEF Cpus
<1>. QED
  BY <1>2, <1>3

(* ... and the one that is taken down the lowest that is online but 0       *)
LEMMA DownInOrder ==
  ASSUME TypeOK, NEW r \in 1 .. Len(DownRules), DownApplies(DownRules[r]),
         \A i \in 1 .. r - 1 : ~DownApplies(DownRules[i])
  PROVE  \A c \in Cpus \ {0} : c < DownRules[r].cpu => c \notin online
<1>1. nr \in Nat
  BY TriggerAssumption DEF TypeOK
<1>2. CASE quad
  <2>1. /\ Len(DownRules) = 3 /\ DownRules[1].cpu = 1 /\ DownRules[1].nr = 4
        /\ DownRules[2].cpu = 2 /\ DownRules[2].nr = 3
        /\ DownRules[3].cpu = 3 /\ DownRules[3].nr = 2
    BY <1>2 DEF DownRules
  <2>2. r = 1 \/ r = 2 \/ r = 3
    BY <2>1
  <2>3. r > 1 => 1 \notin online
    BY <1>1, <2>1, <2>2 DEF DownApplies
  <2>4. r > 2 => 2 \notin online
    BY <1>1, <2>1, <2>2 DEF DownApplies
  <2>. QED
    BY <1>2, <2>1, <2>2, <2>3, <2>4 DEF Cpus
<1>3. CASE ~quad
  <2>1. Len(DownRules) = 1 /\ DownRules[1].cpu = 1
    BY <1>3 DEF DownRules
  <2>. QED
    BY <1>3, <2>1 DEF Cpus
<1>. QED
  BY <1>2, <1>3

LEMMA OrderKept ==
  TypeInv /\ TypeInv' /\ OrderInv /\ [Next]_vars => OrderInv'
<1>. SUFFICES ASSUME TypeInv, TypeInv', OrderInv, [Next]_vars
              PROVE  OrderInv'
  OBVIOUS
<1>0. /\ Len(UpRules) \in 1 .. 3 /\ Len(DownRules) = Len(UpRules)
      /\ \A i \in 1 .. Len(UpRules) :
           UpRules[i].cpu \in Cpus \ {0} /\ DownRules[i].cpu \in Cpus \ {0}
  BY RulesAreRules DEF TypeInv, TypeOK
<1>1. CASE Load
  <2>1. OnlineOrder'
    BY <1>1 DEF Load, OrderInv, OnlineOrder, Cpus
  <2>2. ~moved' => pc' = "idle"
    BY <1>1 DEF Load
  <2>. QED
    BY <2>1, <2>2 DEF OrderInv, RulesPassed
<1>2. CASE Transition \/ TestAtMost \/ TestMoreThan \/ LoadFreqCounts
  <2>1. UNCHANGED <<quad, online, mixed>>
    BY <1>2 DEF Transition, TestAtMost, TestMoreThan, LoadFreqCounts, machine,
       history
  <2>2. pc' \in {"idle", "at_most", "more_than", "load_freq", "store_freq"}
        \/ UNCHANGED <<pc, rule, nr, freqs, moved>>
    BY <1>2 DEF Transition, TestAtMost, TestMoreThan, LoadFreqCounts, Goto,
       machine, history
  <2>. QED
    BY <2>1, <2>2 DEF OrderInv, OnlineOrder, RulesPassed, UpApplies, DownApplies,
       UpRules, DownRules, High, Low, Cpus
<1>3. CASE StoreFreqCounts
  <2>1. UNCHANGED <<quad, online, mixed>> /\ pc' = "up" /\ rule' = 1
    BY <1>3 DEF StoreFreqCounts, Goto, machine, history
  <2>. QED
    BY <2>1 DEF OrderInv, OnlineOrder, RulesPassed, Cpus
<1>4. CASE TestUp
  <2>1. /\ UNCHANGED <<quad, nr, online, freqs, moved, mixed>> /\ pc = "up"
        /\ \/ pc' = "cpu_up" /\ rule' = rule /\ UpApplies(UpRules[rule])
           \/ pc' = "up" /\ rule' = rule + 1 /\ ~UpApplies(UpRules[rule])
           \/ pc' = "down" /\ rule' = 1
    BY <1>4 DEF TestUp, Goto, machine, history
  <2>2. UpRules' = UpRules /\ \A r : UpApplies(r)' <=> UpApplies(r)
    BY <2>1 DEF UpRules, UpApplies, High
  <2>3. rule \in Nat
    BY DEF TypeInv, TypeOK
  <2>4. ~moved' => RulesPassed'
    BY <2>1, <2>2, <2>3 DEF OrderInv, RulesPassed
  <2>. QED
    BY <2>1, <2>4 DEF OrderInv, OnlineOrder, Cpus
<1>5. CASE TestDown
  <2>1. /\ UNCHANGED <<quad, nr, online, freqs, moved, mixed>> /\ pc = "down"
        /\ \/ pc' = "cpu_down" /\ rule' = rule /\ DownApplies(DownRules[rule])
           \/ pc' = "down" /\ rule' = rule + 1 /\ ~DownApplies(DownRules[rule])
           \/ pc' = "idle"
    BY <1>5 DEF TestDown, Goto, machine, history
  <2>2. DownRules' = DownRules /\ \A r : DownApplies(r)' <=> DownApplies(r)
    BY <2>1 DEF DownRules, DownApplies, Low
  <2>3. rule \in Nat
    BY DEF TypeInv, TypeOK
  <2>4. ~moved' => RulesPassed'
    BY <2>1, <2>2, <2>3 DEF OrderInv, RulesPassed
  <2>. QED
    BY <2>1, <2>4 DEF OrderInv, OnlineOrder, Cpus
<1>6. CASE CpuUp
  <2>1. pc = "cpu_up" /\ pc' = "down" /\ rule' = 1 /\ quad' = quad
        /\ Changed(online \cup {UpRules[rule].cpu})
    BY <1>6 DEF CpuUp, Goto
  <2>2. OnlineOrder'
    <3>1. CASE UNCHANGED <<online, mixed>>
      BY <2>1, <3>1 DEF OrderInv, OnlineOrder, Cpus
    <3>2. CASE mixed' = (mixed \/ moved) /\ online' = online \cup {UpRules[rule].cpu}
      <4>1. rule \in 1 .. Len(UpRules) /\ Cpus \subseteq Nat
        <5>1. rule \in 1 .. 4 /\ rule <= Len(UpRules)
          BY <2>1 DEF TypeInv, TypeOK, RuleExists
        <5>2. Cpus \subseteq Nat
          BY DEF Cpus
        <5>. QED
          BY <1>0, <5>1, <5>2
      <4>2. ~moved => \A d \in Cpus : UpRules[rule].cpu < d => d \in online
        BY <2>1, <4>1, UpInOrder DEF OrderInv, RulesPassed, TypeInv
      <4>3. Cpus' = Cpus
        BY <2>1 DEF Cpus
      <4>. QED
        BY <1>0, <3>2, <4>1, <4>2, <4>3 DEF OrderInv, OnlineOrder
    <3>. QED
      BY <2>1, <3>1, <3>2 DEF Changed
  <2>. QED
    BY <2>1, <2>2 DEF OrderInv, RulesPassed
<1>7. CASE CpuDown
  <2>1. pc = "cpu_down" /\ pc' = "idle" /\ quad' = quad
        /\ Changed(online \ {DownRules[rule].cpu})
    BY <1>7 DEF CpuDown, Goto
  <2>2. OnlineOrder'
    <3>1. CASE UNCHANGED <<online, mixed>>
      BY <2>1, <3>1 DEF OrderInv, OnlineOrder, Cpus
    <3>2. CASE mixed' = (mixed \/ moved) /\ online' = online \ {DownRules[rule].cpu}
      <4>1. rule \in 1 .. Len(DownRules) /\ Cpus \subseteq Nat
        <5>1. rule \in 1 .. 4 /\ rule <= Len(UpRules)
          BY <2>1 DEF TypeInv, TypeOK, RuleExists
        <5>2. Cpus \subseteq Nat
          BY DEF Cpus
        <5>. QED
          BY <1>0, <5>1, <5>2
      <4>2. ~moved => \A c \in Cpus \ {0} : c < DownRules[rule].cpu => c \notin online
        BY <2>1, <4>1, DownInOrder DEF OrderInv, RulesPassed, TypeInv
      <4>3. Cpus' = Cpus
        BY <2>1 DEF Cpus
      <4>. QED
        BY <1>0, <3>2, <4>1, <4>2, <4>3 DEF OrderInv, OnlineOrder
    <3>. QED
      BY <2>1, <3>1, <3>2 DEF Changed
  <2>. QED
    BY <2>1, <2>2 DEF OrderInv, RulesPassed
<1>8. CASE SuspendPrepare \/ PostSuspend \/ UNCHANGED vars
  <2>1. UNCHANGED <<quad, nr, online, freqs, pc, rule, moved, mixed>>
    BY <1>8 DEF SuspendPrepare, PostSuspend, vars, machine, history
  <2>. QED
    BY <2>1 DEF OrderInv, OnlineOrder, RulesPassed, UpApplies, DownApplies,
       UpRules, DownRules, High, Low, Cpus
<1>. QED
  BY <1>1, <1>2, <1>3, <1>4, <1>5, <1>6, <1>7, <1>8 DEF Next, Handler

(* The CPUs come up in the order 3, 2, 1 and go down in the order 1, 2, 3,  *)
(* whatever the thresholds and however the load moves, until one changes in *)
(* a notification during which nr_running moved.                            *)
THEOREM CpusInOrder == Spec => []OnlineOrder
<1>1. Init => OrderInv
  BY DEF Init, OrderInv, OnlineOrder, RulesPassed
<1>2. Spec => []OrderInv
  BY <1>1, HotplugTyped, OrderKept, PTL DEF Spec
<1>3. OrderInv => OnlineOrder
  BY DEF OrderInv
<1>. QED
  BY <1>2, <1>3, PTL
=============================================================================
