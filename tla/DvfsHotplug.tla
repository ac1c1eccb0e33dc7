------------------------------ MODULE DvfsHotplug ------------------------------
(***************************************************************************)
(* The integrated DVFS hotplug,                                            *)
(* arch/arm/mach-exynos/dynamic-dvfs-nr_running-hotplug.c: a transition    *)
(* notifier that counts for how many frequency transitions in a row the    *)
(* machine was busy or idle and brings CPUs up or takes them down.         *)
(*                                                                         *)
(* The handler runs under the driver's set_freq_lock, one at a time, but   *)
(* calls nr_running() again for every test, while the number of runnable   *)
(* threads changes; and the power management notifier resets its counters  *)
(* from another thread without any lock.                                   *)
(***************************************************************************)
EXTENDS Integers, Sequences

CONSTANTS
  Socs,        (* the values of soc_is_exynos4412() to consider             *)
  OverNeed,    (* how often nr_running must have been over 2, 3 and 4 in a
                  row: 4, 4 and 8                                           *)
  DualNeed,    (* likewise over 2 when there are two CPUs: 8                *)
  UnderNeed,   (* likewise under 2, 3 and 4: 8 each                         *)
  FreqNeed,    (* and for how many transitions the frequency: 5             *)
  Freqs,       (* the frequencies of the table                              *)
  InTrg,       (* freq_in_trg, 800 MHz                                      *)
  OutTrg,      (* freq_out_trg, the slowest frequency of the table          *)
  MaxNr        (* bound of nr_running                                       *)

Loads == 2 .. 4

ASSUME SocsAssumption == Socs \subseteq BOOLEAN

ASSUME NeedAssumption ==
  /\ OverNeed \in [Loads -> Nat \ {0}]
  /\ UnderNeed \in [Loads -> Nat \ {0}]
  /\ FreqNeed \in Nat \ {0} /\ DualNeed \in Nat \ {0}

ASSUME TriggerAssumption ==
  /\ Freqs \subseteq Nat /\ Freqs # {}
  /\ InTrg \in Nat /\ OutTrg \in Nat /\ OutTrg < InTrg
  /\ MaxNr \in Nat

VARIABLES
  quad,        (* soc_is_exynos4412(): four CPUs, otherwise two             *)
  nr,          (* what nr_running() would return now                        *)
  cur,         (* the current frequency                                     *)
  online,      (* the CPUs that are online                                  *)
  can_hotplug,
  over, under, (* ctn_nr_running_over<n> and _under<n>                      *)
  in_cnt,      (* ctn_freq_in_trg_cnt                                       *)
  out_cnt,     (* ctn_freq_out_trg_cnt                                      *)
  pc, rule,    (* where the handler is: the test or rule it is at           *)
  freqs,       (* the old and the new frequency of the transition           *)
  loaded,      (* in_cnt and out_cnt as loaded for their increment          *)
  since,       (* history: notifications since a CPU changed or a suspend
                  began between notifications, up to FreqNeed               *)
  moved,       (* history: nr has changed since the notification began      *)
  mixed        (* history: a CPU changed in such a notification             *)

counts == <<over, under, in_cnt, out_cnt>>
machine == <<quad, nr, cur, online, can_hotplug>>
history == <<since, moved, mixed>>
vars == <<machine, counts, pc, rule, freqs, loaded, history>>

-----------------------------------------------------------------------------

Cpus == IF quad THEN 0 .. 3 ELSE 0 .. 1

(* The rules of the two if chains: the CPU, the count consulted and the     *)
(* nr_running the test asks for, at least or below                          *)
UpRules_Swapped ==
  << [cpu |-> 1, load |-> 2, nr |-> 2],
     [cpu |-> 2, load |-> 3, nr |-> 3],
     [cpu |-> 3, load |-> 4, nr |-> 4] >>

UpRules_MoreThan ==
  << [cpu |-> 3, load |-> 2, nr |-> 2],
     [cpu |-> 2, load |-> 3, nr |-> 3],
     [cpu |-> 1, load |-> 4, nr |-> 5] >>

UpRules ==
  IF quad
  THEN << [cpu |-> 3, load |-> 2, nr |-> 2],
          [cpu |-> 2, load |-> 3, nr |-> 3],
          [cpu |-> 1, load |-> 4, nr |-> 4] >>
  ELSE << [cpu |-> 1, load |-> 2, nr |-> 0] >>

DownRules_Fewer ==
  << [cpu |-> 1, load |-> 4, nr |-> 3],
     [cpu |-> 2, load |-> 3, nr |-> 2],
     [cpu |-> 3, load |-> 2, nr |-> 1] >>

DownRules ==
  IF quad
  THEN << [cpu |-> 1, load |-> 4, nr |-> 4],
          [cpu |-> 2, load |-> 3, nr |-> 3],
          [cpu |-> 3, load |-> 2, nr |-> 2] >>
  ELSE << [cpu |-> 1, load |-> 2, nr |-> MaxNr + 1] >>

OverLimit(n) == IF quad THEN OverNeed[n] ELSE DualNeed

(* The counts are only compared with their thresholds and stop there        *)
Inc(c, need) == IF c < need THEN c + 1 ELSE c

High == freqs.old >= InTrg /\ freqs.new >= InTrg
Low == freqs.old <= OutTrg /\ freqs.new <= OutTrg

Goto(p, r) == pc' = p /\ rule' = r

Init ==
  /\ quad \in Socs
  /\ nr \in 0 .. MaxNr
  /\ cur \in Freqs
  /\ online = Cpus
  /\ can_hotplug = TRUE
  /\ over = [n \in Loads |-> 0] /\ under = [n \in Loads |-> 0]
  /\ in_cnt = 0 /\ out_cnt = 0
  /\ pc = "idle" /\ rule = 1
  /\ freqs = [old |-> cur, new |-> cur]
  /\ loaded = <<0, 0>>
  /\ since = 0 /\ moved = FALSE /\ mixed = FALSE

(* nr_running(): threads start and stop at any time                         *)
Load ==
  /\ nr' \in 0 .. MaxNr /\ nr' # nr
  /\ moved' = (pc # "idle")
  /\ UNCHANGED <<quad, cur, online, can_hotplug, counts, pc, rule, freqs,
                 loaded, since, mixed>>

(* hotplug_cpufreq_transition, at the CPUFREQ_POSTCHANGE of a transition    *)
Transition ==
  /\ pc = "idle"
  /\ cur' \in Freqs
  /\ IF can_hotplug
     THEN /\ freqs' = [old |-> cur, new |-> cur']
          /\ Goto("at_most", 1)
          /\ since' = Inc(since, FreqNeed)
          /\ moved' = FALSE
     ELSE UNCHANGED <<freqs, pc, rule, since, moved>>
  /\ UNCHANGED <<quad, nr, online, can_hotplug, counts, loaded, mixed>>

-----------------------------------------------------------------------------
(* exynos4_integrated_dvfs_hotplug counts nr_running: the tests of its      *)
(* first if chain, "more than rule - 1" and "at most rule", each of which   *)
(* calls nr_running() again                                                 *)

(* Busy with n: the counts over up to n and under beyond it grow, the       *)
(* others start again                                                       *)
CountLoad_NoReset(n) ==
  /\ over' = [m \in Loads |->
                IF m <= n THEN Inc(over[m], OverLimit(m)) ELSE over[m]]
  /\ under' = [m \in Loads |->
                 IF m > n THEN Inc(under[m], UnderNeed[m]) ELSE 0]

CountLoad(n) ==
  /\ over' = [m \in Loads |->
                IF m <= n THEN Inc(over[m], OverLimit(m)) ELSE 0]
  /\ under' = [m \in Loads |->
                 IF m > n THEN Inc(under[m], UnderNeed[m]) ELSE 0]

TestAtMost ==
  /\ pc = "at_most"
  /\ IF nr <= rule
     THEN CountLoad(rule) /\ Goto("load_freq", 1)
     ELSE UNCHANGED <<over, under>> /\ Goto("more_than", rule + 1)
  /\ UNCHANGED <<machine, in_cnt, out_cnt, freqs, loaded, history>>

(* When no test holds, because nr_running changed meanwhile, nothing counts *)
TestMoreThan ==
  /\ pc = "more_than"
  /\ \/ /\ nr > rule - 1 /\ rule < 4
        /\ Goto("at_most", rule)
        /\ UNCHANGED <<over, under>>
     \/ /\ nr > rule - 1 /\ rule = 4
        /\ CountLoad(4)
        /\ Goto("load_freq", 1)
     \/ /\ nr <= rule - 1
        /\ IF rule < 4 THEN Goto("more_than", rule + 1)
           ELSE Goto("load_freq", 1)
        /\ UNCHANGED <<over, under>>
  /\ UNCHANGED <<machine, in_cnt, out_cnt, freqs, loaded, history>>

(* The increments of the frequency counts, which the power management       *)
(* notifier may reset in between                                            *)
LoadFreqCounts ==
  /\ pc = "load_freq"
  /\ loaded' = <<in_cnt, out_cnt>>
  /\ Goto("store_freq", 1)
  /\ UNCHANGED <<machine, counts, freqs, history>>

StoreFreqCounts ==
  /\ pc = "store_freq"
  /\ in_cnt' = IF High THEN Inc(loaded[1], FreqNeed) ELSE 0
  /\ out_cnt' = IF Low THEN Inc(loaded[2], FreqNeed) ELSE 0
  /\ loaded' = <<0, 0>>
  /\ Goto("up", 1)
  /\ UNCHANGED <<machine, over, under, freqs, history>>

-----------------------------------------------------------------------------
(* The if chain that brings a CPU up: only the first rule that applies is   *)
(* looked at further                                                        *)

UpApplies(r) == r.cpu \notin online /\ nr >= r.nr /\ High

UpDue(r) == over[r.load] >= OverLimit(r.load) /\ in_cnt >= FreqNeed

TestUp ==
  /\ pc = "up"
  /\ IF UpApplies(UpRules[rule])
     THEN IF UpDue(UpRules[rule]) THEN Goto("cpu_up", rule)
          ELSE Goto("down", 1)
     ELSE IF rule < Len(UpRules) THEN Goto("up", rule + 1)
          ELSE Goto("down", 1)
  /\ UNCHANGED <<machine, counts, freqs, loaded, history>>

(* A cpu_up or cpu_down that comes during a suspend is refused; the result  *)
(* is not looked at                                                         *)
Changed(cpus) ==
  \/ /\ online' = cpus
     /\ since' = 0
     /\ mixed' = (mixed \/ moved)
  \/ /\ ~can_hotplug
     /\ UNCHANGED <<online, since, mixed>>

CpuUp ==
  /\ pc = "cpu_up"
  /\ Changed(online \cup {UpRules[rule].cpu})
  /\ in_cnt' = 0
  /\ over' = IF quad THEN over ELSE [over EXCEPT ![2] = 0]
  /\ Goto("down", 1)
  /\ UNCHANGED <<quad, nr, cur, can_hotplug, under, out_cnt, freqs, loaded,
                 moved>>

(* The if chain that takes a CPU down, likewise                             *)
DownApplies(r) == r.cpu \in online /\ nr < r.nr /\ Low

DownDue(r) == under[r.load] >= UnderNeed[r.load] /\ out_cnt >= FreqNeed

TestDown ==
  /\ pc = "down"
  /\ IF DownApplies(DownRules[rule])
     THEN IF DownDue(DownRules[rule]) THEN Goto("cpu_down", rule)
          ELSE Goto("idle", 1)
     ELSE IF rule < Len(DownRules) THEN Goto("down", rule + 1)
          ELSE Goto("idle", 1)
  /\ UNCHANGED <<machine, counts, freqs, loaded, history>>

AfterDown_Kept == out_cnt
AfterDown == 0

CpuDown ==
  /\ pc = "cpu_down"
  /\ Changed(online \ {DownRules[rule].cpu})
  /\ out_cnt' = AfterDown
  /\ under' = IF quad THEN under ELSE [under EXCEPT ![2] = 0]
  /\ Goto("idle", 1)
  /\ UNCHANGED <<quad, nr, cur, can_hotplug, over, in_cnt, freqs, loaded,
                 moved>>

-----------------------------------------------------------------------------
(* hotplug_pm_transition                                                    *)

SuspendPrepareCounts == in_cnt' = 0 /\ out_cnt' = 0

SuspendPrepare ==
  /\ can_hotplug /\ can_hotplug' = FALSE
  /\ SuspendPrepareCounts
  /\ since' = IF pc = "idle" THEN 0 ELSE since
  /\ UNCHANGED <<quad, nr, cur, online, over, under, pc, rule, freqs, loaded,
                 moved, mixed>>

PostSuspend ==
  /\ ~can_hotplug /\ can_hotplug' = TRUE
  /\ UNCHANGED <<quad, nr, cur, online, counts, pc, rule, freqs, loaded,
                 history>>

-----------------------------------------------------------------------------

Handler ==
  \/ TestAtMost \/ TestMoreThan \/ LoadFreqCounts \/ StoreFreqCounts
  \/ TestUp \/ CpuUp \/ TestDown \/ CpuDown

Next == Load \/ Transition \/ Handler \/ SuspendPrepare \/ PostSuspend

Spec == Init /\ [][Next]_vars

(* The handler runs to its end, and the governor, which samples the load    *)
(* periodically, keeps asking for frequencies                               *)
FairSpec == Spec /\ WF_vars(Handler) /\ WF_vars(Transition)

-----------------------------------------------------------------------------
(* Properties                                                               *)

HandlerPcs == {"at_most", "more_than", "load_freq", "store_freq", "up",
               "cpu_up", "down", "cpu_down"}

(* The values of the handler's variables                                    *)
TypeOK ==
  /\ quad \in BOOLEAN
  /\ nr \in 0 .. MaxNr /\ cur \in Freqs
  /\ online \in SUBSET Cpus /\ 0 \in online
  /\ can_hotplug \in BOOLEAN
  /\ over \in [Loads -> Nat] /\ under \in [Loads -> Nat]
  /\ \A n \in Loads : over[n] <= OverLimit(n) /\ under[n] <= UnderNeed[n]
  /\ in_cnt \in 0 .. FreqNeed /\ out_cnt \in 0 .. FreqNeed
  /\ pc \in HandlerPcs \cup {"idle"} /\ rule \in 1 .. 4
  /\ freqs \in [old : Freqs, new : Freqs]
  /\ loaded \in (0 .. FreqNeed) \X (0 .. FreqNeed)
  /\ since \in 0 .. FreqNeed /\ moved \in BOOLEAN /\ mixed \in BOOLEAN

(* However nr_running moves between the tests of one notification, the      *)
(* counts never contradict each other: no load counts as both over and      *)
(* under, and who was busy with n threads was busy with fewer.              *)
CountsAgree ==
  /\ \A n \in Loads : over[n] = 0 \/ under[n] = 0
  /\ \A m, n \in Loads : m < n =>
       /\ over[n] > 0 => over[m] > 0 \/ ~quad
       /\ under[m] > 0 => under[n] > 0

(* The CPUs do not flap: FreqNeed notifications lie between any two changes *)
(* and between a change and a suspend before it, the notification that a    *)
(* suspend interrupted excepted.                                            *)
ChangesSpaced == [][online' # online => since >= FreqNeed]_vars

(* The CPUs come up in the order 3, 2, 1 and go down in the order 1, 2, 3,  *)
(* so that those online are 0 and the highest; a notification during which  *)
(* nr_running moves may skip one.                                           *)
OnlineOrder ==
  mixed \/ \A c, d \in Cpus \ {0} : c \in online /\ c < d => d \in online

(* A machine that stays busy at a high frequency ends with all its CPUs ... *)
BusyGetsAll ==
  <>[](nr >= 4 /\ cur >= InTrg /\ can_hotplug) => <>[](online = Cpus)

(* ... and one that stays idle at the lowest frequency with only one.       *)
IdleKeepsOne ==
  <>[](nr <= 1 /\ cur <= OutTrg /\ can_hotplug) => <>[](online = {0})
=============================================================================
