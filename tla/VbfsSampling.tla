----------------------------- MODULE VbfsSampling -----------------------------
(***************************************************************************)
(* How the vbfs governor, drivers/cpufreq/cpufreq_vbfs.c, chooses a        *)
(* frequency: the work samples the load of the CPUs, the running threads   *)
(* and the memory in use, compares them with the last sample, and steps    *)
(* the frequency up or down a table.  The work holds timer_mutex; it reads *)
(* the policy's limits at seven places while a task may be storing new     *)
(* ones, and other drivers may move the clock under it.  Whether the work  *)
(* runs at all, and the speed a user writes, is the matter of              *)
(* CpufreqPolicy; here vbfs is the governor, and powersave_bias is off.    *)
(***************************************************************************)
EXTENDS FreqTable, FiniteSetsExt

CONSTANTS
  Cpus,        (* the CPUs of the policy, numbers in the order of the mask  *)
  Loads,       (* the loads a CPU may show in a sample, in percent          *)
  Threads,     (* the values of run_thread_number                           *)
  MemUsed,     (* the pages in use, of MemTotal                             *)
  MemTotal,
  MemWrap,     (* 2^32: unsigned arithmetic on pages wraps there            *)
  IndexWrap,   (* 2^32: unsigned arithmetic on indices wraps there          *)
  LazyWrap,    (* 2^32: and the count of lazy samples there                 *)
  Limits,      (* the limits a user may write                               *)
  TunerWrites, (* what is written to the tunables, <<name, value>>          *)
  MaxWrites    (* bound of the writes and of the other drivers' requests    *)

ASSUME SamplesAssumption ==
  /\ IsFiniteSet(Cpus) /\ Cpus # {} /\ Cpus \subseteq Nat
  /\ Loads \subseteq 0 .. 100 /\ Threads \subseteq Nat
  /\ MemTotal \in Nat \ {0} /\ MemUsed \subseteq 0 .. MemTotal
  /\ MemWrap \in Nat \ {0} /\ IndexWrap \in Nat /\ IndexWrap > MinIdx
  /\ LazyWrap \in Nat \ {0}

ASSUME LimitsAssumption ==
  /\ Limits \subseteq Freq[MinIdx] .. Freq[MaxIdx]
  /\ MaxWrites \in Nat

VARIABLES
  policy,      (* the policy's min and max                                  *)
  change,      (* the limits a task is storing, and how far it is           *)
  cur,         (* policy->cur                                               *)
  tuners,      (* vbfs_tuners_ins                                           *)
  res,         (* vbfs_resources_ins                                        *)
  lazy,        (* l_lazy_freq_step_down_cnt                                 *)
  pc, s,       (* where the work is, its locals, and history: the index
                  it read the table at, whether others moved the clock,
                  whether it was outside of the limits when sampled, and
                  whether the limits then failed the decision              *)
  writes       (* writes and requests so far                                *)

outside == <<policy, change, tuners, writes>>
vars == <<outside, cur, res, lazy, pc, s>>

-----------------------------------------------------------------------------

Ups == {"step_up", "scale_up"}
Downs == {"step_down", "scale_down"}

NoChange == [at |-> "none", min |-> 0, max |-> 0]
NoSample == [cond |-> "none", point |-> 0, freq |-> 0, usage |-> 0,
             from |-> 0, to |-> 0, index |-> 0, start |-> 0,
             relation |-> "L", read |-> MaxIdx,
             moved |-> FALSE, out |-> FALSE, lost |-> FALSE]

(* cpufreq_frequency_table_target leaves the index at 0 when it fails       *)
Lookup(target, relation) ==
  IF InPolicy(policy) = {} THEN 0 ELSE TableTarget(policy, target, relation)

(* What reading the table at an index outside of the levels yields          *)
InvalidFreq == Freq[MaxIdx] + 1
FreqAt(i) == IF i \in Levels THEN Freq[i] ELSE InvalidFreq

Init ==
  /\ policy = [min |-> Freq[MinIdx], max |-> Freq[MaxIdx]]
  /\ change = NoChange
  /\ cur \in { Freq[i] : i \in Levels }
  /\ tuners = [up |-> 50, down |-> 30, var_up |-> 40, var_down |-> -40,
               thread_up |-> 2, thread_down |-> -2,
               mem_up |-> 20, mem_down |-> -20, lazy_down |-> 3]
  /\ res = [maxfreqindex |-> 0, minfreqindex |-> 0, max_load |-> 0,
            thread_prev |-> 0, mem_prev |-> 0, next_freq |-> 0,
            adj |-> FALSE]
  /\ lazy = 0 /\ pc = "wait" /\ s = NoSample /\ writes = 0

-----------------------------------------------------------------------------
(* What the rest of the system does meanwhile                               *)

(* The values each tunable's store function accepts; those of the lower     *)
(* thresholds look at the upper ones, not the other way around              *)
TunerRange ==
  [up |-> 11 .. 100, down |-> 3 .. tuners.up,
   var_up |-> 1 .. 100, var_down |-> -100 .. tuners.var_up,
   thread_up |-> 1 .. 100, thread_down |-> -100 .. tuners.thread_up,
   mem_up |-> 1 .. 100, mem_down |-> -100 .. tuners.mem_up,
   lazy_down |-> Nat]

StoreTuner ==
  /\ writes < MaxWrites /\ writes' = writes + 1
  /\ \E w \in TunerWrites :
       /\ w[2] \in TunerRange[w[1]]
       /\ tuners' = [tuners EXCEPT ![w[1]] = w[2]]
  /\ UNCHANGED <<policy, change, cur, res, lazy, pc, s>>

(* __cpufreq_set_policy accepts limits that hold a frequency of the table   *)
(* and meet the old ones                                                    *)
Acceptable(min, max) ==
  /\ InPolicy([min |-> min, max |-> max]) # {}
  /\ min <= policy.max /\ max >= policy.min

StoreMin ==
  /\ change = NoChange
  /\ writes < MaxWrites /\ writes' = writes + 1
  /\ \E min, max \in Limits :
       /\ Acceptable(min, max)
       /\ policy' = [policy EXCEPT !.min = min]
       /\ change' = [at |-> "max", min |-> min, max |-> max]
  /\ s' = [s EXCEPT !.lost = @ \/ s.out]
  /\ UNCHANGED <<tuners, cur, res, lazy, pc>>

StoreMax ==
  /\ change.at = "max"
  /\ policy' = [policy EXCEPT !.max = change.max]
  /\ change' = [change EXCEPT !.at = "limits"]
  /\ s' = [s EXCEPT !.lost = @ \/ s.out]
  /\ UNCHANGED <<tuners, writes, cur, res, lazy, pc>>

(* CPUFREQ_GOV_LIMITS takes timer_mutex, which the work holds               *)
GovLimits ==
  /\ change.at = "limits" /\ pc = "wait"
  /\ cur' = IF policy.max < cur THEN Freq[Lookup(policy.max, "H")]
            ELSE IF policy.min > cur THEN Freq[Lookup(policy.min, "L")]
            ELSE cur
  /\ change' = NoChange
  /\ UNCHANGED <<policy, tuners, writes, res, lazy, pc, s>>

(* A floor, a ceiling or a fixed level of another driver moves the clock    *)
OtherRequest ==
  /\ writes < MaxWrites /\ writes' = writes + 1
  /\ cur' \in { Freq[i] : i \in Levels } \ {cur}
  /\ s' = [s EXCEPT !.moved = pc # "wait"]
  /\ UNCHANGED <<policy, change, tuners, res, lazy, pc>>

-----------------------------------------------------------------------------
(* A sample: vbfs_initialize_resources and checkCPULoadCond                 *)

(* get_max_load_freq compares each CPU's load with a maximum it never       *)
(* raises from 0: the load of the last CPU that was not idle is kept, and   *)
(* the one of the last sample if all were.                                  *)
MaxLoad(load) ==
  LET busy == { c \in Cpus : load[c] * cur > 0 }
  IN  IF busy = {} THEN res.max_load ELSE load[Max(busy)]

(* get_mem_portion: hundredths of a percent                                 *)
MemPortion(used) == ((used * 10000) % MemWrap) \div MemTotal

(* checkThreadCond and checkMemCond                                         *)
Cond(diff, up, down) == IF diff >= up THEN 1 ELSE IF diff <= down THEN -1 ELSE 0

(* The direction that the load asks for                                     *)
LoadCond(load, diff) ==
  IF diff >= tuners.var_up \/ load >= tuners.up
  THEN IF cur = policy.max THEN "settled"
       ELSE IF diff >= tuners.var_up THEN "scale_up" ELSE "step_up"
  ELSE IF load <= tuners.down
  THEN IF cur = policy.min THEN "settled"
       ELSE IF diff <= tuners.var_down THEN "scale_down" ELSE "step_down"
  ELSE "no_need"

LazyCount_Reset(cond) == 0
LazyCount(cond) == IF cond = "step_down" THEN (lazy + 1) % LazyWrap ELSE 0

Uninitialised ==
  res.maxfreqindex = 0 \/ res.minfreqindex = 0

SampleOf(load, threads, used) ==
  LET max_load == MaxLoad(load)
      mem == MemPortion(used)
      cond == LoadCond(max_load, max_load - res.max_load)
      point == Cond(threads - res.thread_prev,
                    tuners.thread_up, tuners.thread_down)
                 + Cond(mem - res.mem_prev, tuners.mem_up, tuners.mem_down)
  IN  /\ res' = [res EXCEPT
           !.max_load = max_load, !.thread_prev = threads,
           !.mem_prev = mem, !.adj = FALSE,
           !.maxfreqindex =
             IF Uninitialised THEN Lookup(policy.max, "H") ELSE @,
           !.minfreqindex =
             IF Uninitialised THEN Lookup(policy.min, "L") ELSE @,
           !.next_freq =
             IF Uninitialised \/ cond \in Ups \cup Downs THEN @
             ELSE IF cond = "settled" THEN cur ELSE 0]
      /\ IF Uninitialised
         THEN UNCHANGED <<lazy, pc, s>>
         ELSE /\ lazy' = LazyCount(cond)
              /\ s' = [NoSample EXCEPT
                   !.cond = cond, !.point = point, !.freq = cur,
                   !.usage = max_load,
                   !.from = IF cond \in Ups THEN cur ELSE policy.min,
                   !.to = IF cond \in Ups THEN policy.max ELSE cur,
                   !.out = cur < policy.min \/ policy.max < cur]
              /\ pc' = IF cond \in Ups \cup Downs THEN "index" ELSE "adjust"

Sample ==
  /\ pc = "wait"
  /\ \E load \in [Cpus -> Loads], threads \in Threads, used \in MemUsed :
       SampleOf(load, threads, used)
  /\ UNCHANGED <<outside, cur>>

-----------------------------------------------------------------------------
(* selectNextFrequencyByLoad: three searches, each of which reads the       *)
(* limits                                                                   *)

(* History.  While a task is between storing two limits there may be no     *)
(* frequency within them, and the look-up fails; what was chosen for a      *)
(* clock outside of the limits does not fit others.                         *)
Lost == s.lost \/ InPolicy(policy) = {}

FindIndex ==
  /\ pc = "index"
  /\ s' = [s EXCEPT !.index =
             Lookup(s.freq, IF s.cond \in Ups THEN "H" ELSE "L"),
                    !.lost = Lost]
  /\ pc' = "start"
  /\ UNCHANGED <<outside, cur, res, lazy>>

FindStart ==
  /\ pc = "start"
  /\ s' = [s EXCEPT !.start = Lookup(s.from, "L"), !.lost = Lost]
  /\ pc' = "select"
  /\ UNCHANGED <<outside, cur, res, lazy>>

(* A third of the way down, or as far up as the load is high, and at least  *)
(* one step                                                                 *)
Abs(n) == IF n < 0 THEN -n ELSE n

ScaledDown(start, end) == ((start - end + 1) % IndexWrap) \div 3 + end
ScaledUp(start, end, usage) ==
  LET n == (start - end + 1) * usage - 1
  IN  Abs((IF n < 0 THEN 0 ELSE n) \div 100 - start)

Selected_Slower(end) ==
  LET up == ScaledUp(s.start, end, s.usage)
  IN  IF s.cond \in Ups
      THEN IF up >= s.index /\ up > end THEN s.index + 1 ELSE up
      ELSE ScaledDown(s.start, end)

Selected(end) ==
  LET down == ScaledDown(s.start, end)
      up == ScaledUp(s.start, end, s.usage)
  IN  IF s.cond \in Ups
      THEN IF up >= s.index /\ up > end THEN s.index - 1 ELSE up
      ELSE IF down <= s.index /\ down < s.start THEN s.index + 1 ELSE down

LazyOver_Both == lazy = tuners.lazy_down
LazyOver == s.cond # "step_down" \/ lazy = tuners.lazy_down

Select ==
  /\ pc = "select"
  /\ LET i == Selected(Lookup(s.to, "H"))
     IN  /\ res' = [res EXCEPT !.next_freq = IF LazyOver THEN FreqAt(i) ELSE cur]
         /\ s' = [s EXCEPT !.read = IF LazyOver THEN i ELSE @, !.lost = Lost]
  /\ lazy' = IF LazyOver THEN 0 ELSE lazy
  /\ pc' = "adjust"
  /\ UNCHANGED <<outside, cur>>

-----------------------------------------------------------------------------
(* adjustCond: further up or down by the conditions of threads and memory   *)

Adjusted == \/ s.cond \in Ups /\ s.point > 0
            \/ s.cond \in Downs /\ s.point < 0
            \/ s.cond = "no_need" /\ s.point # 0

Relation ==
  IF \/ s.cond = "settled" /\ cur = policy.max
     \/ s.cond \in Ups
     \/ s.cond = "no_need" /\ s.point > 0
  THEN "H" ELSE "L"

(* One index per condition, up to the first limits that were seen           *)
Moved_Free(i) == i - s.point
Moved(i) ==
  IF s.point > 0
  THEN IF i <= res.maxfreqindex THEN i
       ELSE Max({res.maxfreqindex, i - s.point})
  ELSE IF i >= res.minfreqindex THEN i
       ELSE Min({res.minfreqindex, i - s.point})

Adjust ==
  /\ pc = "adjust"
  /\ LET from == IF s.cond = "no_need" THEN cur ELSE res.next_freq
         i == Moved(Lookup(from, Relation))
     IN  /\ res' = [res EXCEPT
              !.adj = s.cond # "no_need" \/ Adjusted,
              !.next_freq = IF Adjusted THEN FreqAt(i) ELSE @]
         /\ s' = [s EXCEPT !.relation = Relation,
                           !.read = IF Adjusted THEN i ELSE @,
                           !.lost = Lost]
  /\ pc' = "target"
  /\ UNCHANGED <<outside, cur, lazy>>

(* vbfs_check_resources sets the frequency, unless nothing asks for it, and *)
(* the work queues itself again                                             *)
Target ==
  /\ pc = "target"
  /\ cur' = IF res.adj /\ InPolicy(policy) # {}
            THEN Freq[TableTarget(policy, res.next_freq, s.relation)]
            ELSE cur
  /\ pc' = "wait" /\ s' = NoSample
  /\ UNCHANGED <<outside, res, lazy>>

Work == Sample \/ FindIndex \/ FindStart \/ Select \/ Adjust \/ Target
StoreLimits == StoreMax \/ GovLimits
Next == Work \/ StoreLimits \/ StoreMin \/ StoreTuner \/ OtherRequest

Spec == Init /\ [][Next]_vars

(* The work queues itself again as long as vbfs is the governor, and a      *)
(* write to the policy goes on                                              *)
FairSpec == Spec /\ WF_vars(Work) /\ WF_vars(StoreLimits)

-----------------------------------------------------------------------------
(* Properties                                                               *)

(* The variables have their types, among them: the limits that are stored  *)
(* hold a frequency of the table unless a task is between storing the two,  *)
(* and the clock runs at a frequency of the table.                          *)
Speeds == { Freq[i] : i \in Levels }
Admitted == Freq[MinIdx] .. Freq[MaxIdx]
LimitsOK ==
  /\ policy \in [min : Admitted, max : Admitted]
  /\ change = NoChange
       \/ change \in [at : {"max", "limits"}, min : Admitted, max : Admitted]
  /\ change.at = "max" => policy.min = change.min
  /\ InPolicy(IF change.at = "max"
              THEN [min |-> change.min, max |-> change.max] ELSE policy) # {}
Indices == Levels \cup {0}
Locals == [cond : Ups \cup Downs \cup {"none", "settled", "no_need"},
           point : -2 .. 2, freq : Nat, usage : 0 .. 100, from : Nat, to : Nat,
           index : Indices, start : Indices, relation : Relations, read : Int,
           moved : BOOLEAN, out : BOOLEAN, lost : BOOLEAN]
Resources == [maxfreqindex : Indices, minfreqindex : Indices,
              max_load : 0 .. 100, thread_prev : Nat, mem_prev : Nat,
              next_freq : Nat, adj : BOOLEAN]
TypeOK ==
  /\ LimitsOK
  /\ cur \in Speeds
  /\ lazy \in 0 .. LazyWrap - 1 /\ writes \in 0 .. MaxWrites
  /\ pc \in {"wait", "index", "start", "select", "adjust", "target"}
  /\ s \in Locals /\ res \in Resources
  /\ pc # "wait" => ~Uninitialised
  /\ pc \in {"index", "start", "select"} => s.cond \in Ups \cup Downs

(* No search, step or adjustment reads the frequency table outside of its   *)
(* levels, whatever limits are being stored meanwhile (:908-946,            *)
(* :1231-1251), unless no frequency was within the limits between two       *)
(* stores, or the sample found the clock outside of limits that were stored *)
(* afterwards.                                                              *)
IndexInTable == s.read \in Levels \/ s.lost

(* A sample that finds the machine busy does not slow the clock, and one    *)
(* that finds it calm does not raise it, unless another driver moved it     *)
(* meanwhile, and but for limits that were stored meanwhile (:1366-1379)    *)
(* and the two cases named above.                                           *)
TowardLoad ==
  [][Target /\ ~s.moved /\ ~Lost =>
       /\ s.cond \in Ups => cur' >= Min({cur, Freq[Fastest(InPolicy(policy))]})
       /\ s.cond \in Downs => cur' <= Max({cur, Freq[Slowest(InPolicy(policy))]})
    ]_vars

(* When every sample finds the machine busy, the clock settles at the       *)
(* policy's fastest level.                                                  *)
RisesWhenBusy ==
  <>[](res.max_load >= tuners.up)
    => <>[](InPolicy(policy) # {} /\ cur = Freq[Fastest(InPolicy(policy))])

(* When every sample finds the machine calm, at a load that no threshold    *)
(* for raising the clock can be met from, the clock settles at the policy's *)
(* slowest level, if the count of lazy samples has not already passed a     *)
(* bound that was lowered.                                                  *)
Calm == /\ res.max_load <= tuners.down
        /\ res.max_load < tuners.up /\ res.max_load < tuners.var_up
FallsWhenCalm ==
  <>[](Calm /\ lazy <= tuners.lazy_down)
    => <>[](InPolicy(policy) # {} /\ cur = Freq[Slowest(InPolicy(policy))])
=============================================================================
