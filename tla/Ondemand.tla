------------------------------- MODULE Ondemand -------------------------------
(***************************************************************************)
(* The ondemand governor, drivers/cpufreq/cpufreq_ondemand.c: its work     *)
(* samples the load, goes to the policy's maximum when the load passes     *)
(* up_threshold and else to the lowest frequency that still carries it.    *)
(* With powersave_bias it alternates between two frequencies, the second   *)
(* set by a "sub sample".  A task of the core stores limits, stops and     *)
(* starts the governor, with the policy's semaphore held, so that there is *)
(* one such task at a time; tunables are written at any time without it.   *)
(***************************************************************************)
EXTENDS FreqTable, FiniteSetsExt

CONSTANTS
  Loads,       (* the loads of the busiest CPU in a sample, in percent      *)
  Wrap,        (* 2^32: unsigned arithmetic wraps there                     *)
  Period,      (* sampling_rate in jiffies                                  *)
  TunerWrites, (* what is written to the tunables, <<name, value>>          *)
  MaxWrites    (* bound of the writes to tunables and to the policy         *)

ASSUME OndemandAssumption ==
  /\ Loads \subseteq 0 .. 100
  /\ Wrap \in Nat /\ Wrap > 100 * Freq[MaxIdx]
  /\ Period \in Nat \ {0} /\ MaxWrites \in Nat

(* Frequencies are in kHz, so that a hundredth of one is not rounded away   *)
ASSUME FreqResolution == Freq[MinIdx] >= 100

VARIABLES
  policy,      (* the policy's min and max                                  *)
  task,        (* where the core's task is, and the limits it stores        *)
  cur,         (* policy->cur                                               *)
  tuners,      (* dbs_tuners_ins                                            *)
  gov,         (* dbs_enable, whether the group exists and sampling_rate is
                  set, and whether timer_mutex is initialised               *)
  info,        (* od_cpu_dbs_info: freq_lo and its jiffies, rate_mult,
                  sample_type                                               *)
  work, s,     (* where the delayed work is, and its locals                 *)
  writes       (* writes so far                                             *)

vars == <<policy, task, cur, tuners, gov, info, work, s, writes>>

-----------------------------------------------------------------------------

NoTask == [at |-> "idle", min |-> 0, max |-> 0]
NoSample == [kind |-> "none", next |-> 0, relation |-> "L", load |-> 0,
             percent |-> 0, min |-> 0, up |-> 0, diff |-> 0, bias |-> 0]
NoLow == [lo |-> 0, hi |-> 0, avg |-> 0, lo_jiffies |-> 0, hi_jiffies |-> 0]

Init ==
  /\ policy = [min |-> Freq[MinIdx], max |-> Freq[MaxIdx]]
  /\ task = NoTask
  /\ cur \in { Freq[i] : i \in Levels }
  /\ tuners = [up |-> 80, diff |-> 10, down_factor |-> 1, bias |-> 0]
  /\ gov = [enable |-> 0, ready |-> FALSE, set |-> FALSE]
  /\ info = [low |-> NoLow, rate_mult |-> 1, sub |-> FALSE]
  /\ work = "idle" /\ s = NoSample /\ writes = 0

Write == writes < MaxWrites /\ writes' = writes + 1

(* The store functions: what they accept, and what they reset without       *)
(* timer_mutex.  store_down_differential looks at up_threshold, but not the *)
(* other way around.                                                        *)
TunerRange == [up |-> 11 .. 100, diff |-> 3 .. tuners.up,
               down_factor |-> 1 .. 100000, bias |-> 0 .. 1000]

StoreTuner ==
  /\ gov.set /\ Write
  /\ \E w \in TunerWrites :
       /\ w[2] \in TunerRange[w[1]]
       /\ tuners' = [tuners EXCEPT ![w[1]] = w[2]]
       /\ info' = CASE w[1] = "down_factor" -> [info EXCEPT !.rate_mult = 1]
                    [] w[1] = "bias" -> [info EXCEPT !.low.lo = 0]
                    [] OTHER -> info
  /\ UNCHANGED <<policy, task, cur, gov, work, s>>

-----------------------------------------------------------------------------
(* The core's task: __cpufreq_set_policy and the governor's events          *)

Acceptable(min, max) ==
  /\ InPolicy([min |-> min, max |-> max]) # {}
  /\ min <= policy.max /\ max >= policy.min

StoreMin ==
  /\ task = NoTask /\ Write
  /\ \E min, max \in { Freq[i] : i \in Levels } :
       /\ Acceptable(min, max)
       /\ policy' = [policy EXCEPT !.min = min]
       /\ task' = [at |-> "max", min |-> min, max |-> max]
  /\ UNCHANGED <<cur, tuners, gov, info, work, s>>

StoreMax ==
  /\ task.at = "max"
  /\ policy' = [policy EXCEPT !.max = task.max]
  /\ task' = IF gov.ready THEN [task EXCEPT !.at = "limits"] ELSE NoTask
  /\ UNCHANGED <<cur, tuners, gov, info, work, s, writes>>

(* Another driver's floor or ceiling, or the governor in use while this one *)
(* is stopped, moves the clock                                              *)
OtherRequest ==
  /\ Write
  /\ cur' \in { Freq[i] : i \in Levels } \ {cur}
  /\ UNCHANGED <<policy, task, tuners, gov, info, work, s>>

Running == work \in {"sampled", "requeue"}

(* CPUFREQ_GOV_LIMITS, under the timer_mutex that the work holds            *)
Limits ==
  /\ task.at = "limits" /\ ~Running
  /\ cur' = IF policy.max < cur THEN Freq[TableTarget(policy, policy.max, "H")]
            ELSE IF policy.min > cur
            THEN Freq[TableTarget(policy, policy.min, "L")] ELSE cur
  /\ task' = NoTask
  /\ UNCHANGED <<policy, tuners, gov, info, work, s, writes>>

(* CPUFREQ_GOV_START counts, makes the group if it is the first, which may  *)
(* fail, and schedules the work                                             *)
Start ==
  /\ task = NoTask /\ ~gov.ready
  /\ \E fails \in BOOLEAN :
       /\ fails => gov.enable = 0
       /\ gov' = [enable |-> gov.enable + 1, ready |-> ~fails,
                  set |-> gov.set \/ (gov.enable = 0 /\ ~fails)]
       /\ info' = [info EXCEPT !.rate_mult = 1, !.low.lo = 0,
                               !.sub = IF fails THEN @ ELSE FALSE]
       /\ work' = IF fails THEN work ELSE "queued"
       /\ task' = IF fails THEN task ELSE [NoTask EXCEPT !.at = "limits"]
  /\ UNCHANGED <<policy, cur, tuners, s, writes>>

Cancelled_NoSync == TRUE
Cancelled == ~Running

(* CPUFREQ_GOV_STOP: cancel_delayed_work_sync waits for a running work and  *)
(* keeps it from queueing itself                                            *)
Stop ==
  /\ task = NoTask /\ gov.ready /\ Cancelled
  /\ work' = IF work = "queued" THEN "idle" ELSE work
  /\ gov' = [gov EXCEPT !.enable = @ - 1, !.ready = FALSE,
                        !.set = @ /\ gov.enable > 1]
  /\ UNCHANGED <<policy, task, cur, tuners, info, s, writes>>

-----------------------------------------------------------------------------
(* The work: dbs_check_cpu and do_dbs_timer                                 *)

(* powersave_bias_target: the two frequencies around the reduced one, and   *)
(* how long to stay at each                                                 *)
JiffiesHi_Down(avg, lo, hi) == ((avg - lo) * Period) \div (hi - lo + 1)
JiffiesHi(avg, lo, hi) ==
  ((avg - lo) * Period + (hi - lo) \div 2) \div (hi - lo)

Biased(freq, relation) ==
  LET req == Freq[TableTarget(policy, freq, relation)]
      avg == req - (req * tuners.bias) \div 1000
      lo == Freq[TableTarget(policy, avg, "H")]
      hi == Freq[TableTarget(policy, avg, "L")]
  IN  IF lo = hi THEN [NoLow EXCEPT !.hi = hi]
      ELSE LET j == JiffiesHi(avg, lo, hi)
           IN  [lo |-> lo, hi |-> hi, avg |-> avg,
                lo_jiffies |-> Period - j, hi_jiffies |-> j]

(* The lowest frequency that carries the load without passing up_threshold  *)
(* again, diff points under it; unsigned                                    *)
Spare_Sum == (tuners.up + tuners.diff) % Wrap
Spare == (tuners.up - tuners.diff) % Wrap

Lower(load) == Max({load \div Spare, policy.min})

Decision_OfMax(load) ==
  IF load > tuners.up * policy.max THEN "up"
  ELSE IF load < (Spare * cur) % Wrap THEN "down" ELSE "none"

Decision(load) ==
  IF load > tuners.up * cur THEN "up"
  ELSE IF load < (Spare * cur) % Wrap THEN "down" ELSE "none"

Sample ==
  /\ work = "queued" /\ ~(info.sub /\ tuners.bias # 0)
  /\ \E busiest \in Loads :
       LET load == busiest * cur
           kind == Decision(load)
           asked == IF kind = "up" THEN policy.max
                    ELSE IF kind = "down" THEN Lower(load) ELSE 0
           low == IF tuners.bias = 0 \/ kind = "none" THEN NoLow
                  ELSE Biased(asked, IF kind = "up" THEN "H" ELSE "L")
       IN  /\ s' = [kind |-> kind, load |-> load, percent |-> busiest,
                    min |-> policy.min,
                    up |-> tuners.up, diff |-> tuners.diff,
                    bias |-> tuners.bias,
                    next |-> IF tuners.bias = 0 THEN asked ELSE low.hi,
                    relation |-> IF kind = "up" /\ tuners.bias = 0
                                 THEN "H" ELSE "L"]
           /\ info' = [low |-> low, sub |-> FALSE,
                       rate_mult |-> IF kind = "up" /\ cur < policy.max
                                     THEN tuners.down_factor
                                     ELSE IF kind = "down" THEN 1
                                     ELSE info.rate_mult]
  /\ work' = "sampled"
  /\ UNCHANGED <<policy, task, cur, tuners, gov, writes>>

(* A sub sample sets freq_lo, which a write to powersave_bias may have      *)
(* reset                                                                    *)
SubSample ==
  /\ work = "queued" /\ info.sub /\ tuners.bias # 0
  /\ s' = [NoSample EXCEPT !.kind = "sub", !.next = info.low.lo,
                           !.relation = "H"]
  /\ info' = [info EXCEPT !.sub = FALSE]
  /\ work' = "sampled"
  /\ UNCHANGED <<policy, task, cur, tuners, gov, writes>>

(* __cpufreq_driver_target                                                  *)
Target ==
  /\ work = "sampled"
  /\ cur' = IF s.kind = "none" THEN cur
            ELSE Freq[TableTarget(policy, s.next, s.relation)]
  /\ work' = "requeue"
  /\ UNCHANGED <<policy, task, tuners, gov, info, s, writes>>

Requeue ==
  /\ work = "requeue"
  /\ info' = [info EXCEPT !.sub = s.kind # "sub" /\ info.low.lo # 0]
  /\ work' = "queued" /\ s' = NoSample
  /\ UNCHANGED <<policy, task, cur, tuners, gov, writes>>

Work == Sample \/ SubSample \/ Target \/ Requeue
Task == StoreMax \/ Limits
Next == Work \/ Task \/ StoreMin \/ Start \/ Stop \/ StoreTuner
        \/ OtherRequest

Spec == Init /\ [][Next]_vars

(* The work is queued again as long as ondemand is the governor, and a      *)
(* write to the policy goes on                                              *)
FairSpec == Spec /\ WF_vars(Work) /\ WF_vars(Task)

-----------------------------------------------------------------------------
(* Properties                                                               *)

(* The variables have their types.                                          *)
TypeOK ==
  /\ cur \in { Freq[i] : i \in Levels }
  /\ work \in {"idle", "queued", "sampled", "requeue"}
  /\ gov \in [enable : Nat, ready : BOOLEAN, set : BOOLEAN]
  /\ info.rate_mult \in 1 .. 100000 /\ info.sub \in BOOLEAN
  /\ writes \in 0 .. MaxWrites

(* A frequency lowered by a sample still carries the load that was sampled  *)
(* without passing up_threshold, and no slower level of the policy would do *)
(* so with the margin of down_differential (:631-663), as long as the       *)
(* margin is below the threshold.  A sample taken under powersave_bias is   *)
(* meant to go below, also if the bias is written 0 before the clock moves. *)
LowestSustaining ==
  [][Target /\ s.kind = "down" /\ s.bias = 0 /\ s.diff < s.up =>
       /\ \/ cur' * s.up >= s.load
          \/ cur' = Freq[Fastest(InPolicy(policy))]
       /\ \A i \in InPolicy(policy) :
            Freq[i] \in s.min .. cur' - 1 => Freq[i] * (s.up - s.diff) < s.load
    ]_vars

(* The two frequencies of powersave_bias average to the one it asks for,    *)
(* to half a jiffy (:199-222).                                              *)
BiasAverages ==
  LET l == info.low
      sum == l.hi * l.hi_jiffies + l.lo * l.lo_jiffies
  IN  l.lo # 0 => /\ l.hi_jiffies \in 0 .. Period
                  /\ 2 * (sum - l.avg * Period) \in -(l.hi - l.lo) .. l.hi - l.lo

(* Once STOP has returned, no work of the governor is queued or running, so *)
(* that it never takes a destroyed timer_mutex (:725-728, :823-835).        *)
StoppedMeansIdle == ~gov.ready => work = "idle"

(* When every sample finds a CPU busier than up_threshold and no bias is    *)
(* asked for, the clock settles at the policy's maximum.                    *)
BusyReachesMax ==
  <>[](/\ gov.ready /\ tuners.bias = 0
       /\ work \in {"sampled", "requeue"} => s.percent > tuners.up)
    => <>[](cur = Freq[Fastest(InPolicy(policy))])
=============================================================================
