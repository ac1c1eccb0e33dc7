----------------------------- MODULE UsageScore -----------------------------
(***************************************************************************)
(* The cpuusage daemon (system/extras/cpuusage): cpuusage.c samples the    *)
(* usage, the running threads and the memory portion, scoreCalc.c compares *)
(* a sample with the one before it and decides a frequency, cpufreq.c      *)
(* writes the governor and the speed through sysfs.                        *)
(*                                                                         *)
(* A frequency is its step on the ladder both tables hold: 0 is            *)
(* CPUFREQ_MIN, Top is CPUFREQ_MAX (the kernel's order, fastest first, is  *)
(* turned round).  The table files hold the values tableFilesCheck writes. *)
(* The scores are only logged and are left out.                            *)
(***************************************************************************)
EXTENDS Integers

CONSTANTS
    Top,        \* the step of CPUFREQ_MAX
    Usages,     \* the CPU usages a sample may read, in percent
    Threads,    \* the numbers of running threads
    Mems,       \* the memory portions, in tenths of a percent
    LimitPairs, \* the policy limits [lo, hi] other programs set
    NoFreq,     \* freq = 0: no change of frequency wanted
    FirstUsage  \* the static preUsage

ASSUME TopAssumption == Top \in Nat \ {0}
ASSUME UsageAssumption == Usages \subseteq 0 .. 100 /\ FirstUsage.cpu \in 0 .. 100

Steps == 0 .. Top

ASSUME NoFreqAssumption == NoFreq \notin Steps

ASSUME LimitAssumption ==
    \A l \in LimitPairs : l.lo \in Steps /\ l.hi \in Steps /\ l.lo <= l.hi

UpThreshold      == 20
DownThreshold    == 20
DownLimit        == 30
MinUpThreshold   == 50
MinDownThreshold == 30
ThreadThreshold  == 2
MemThreshold     == 2

VARIABLES
    gov,     \* scaling_governor of CPU 0
    pseFile, \* what pseON.txt holds
    lim,     \* the policy's limits
    set,     \* cpu_set_freq of the userspace governor
    cur,     \* scaling_cur_freq
    phase,   \* the daemon: off, started (no sample yet), looping
    on,      \* pseONOFF
    pre      \* preUsage

vars == <<gov, pseFile, lim, set, cur, phase, on, pre>>
kernel == <<gov, lim, set, cur>>

Resource == [cpu : Usages, thread : Threads, mem : Mems]

(* "vbfs" stands for the governors cpufreq.c has no name for.              *)
Governors == {"userspace", "ondemand", "vbfs"}
Named == Governors \ {"vbfs"}

TypeOK ==
    /\ gov \in Governors
    /\ pseFile \in BOOLEAN /\ on \in BOOLEAN
    /\ lim \in LimitPairs
    /\ set \in Steps
    /\ cur \in lim.lo .. lim.hi
    /\ phase \in {"off", "started", "looping"}
    /\ pre \in Resource \cup {FirstUsage}

Init ==
    /\ gov \in Governors \ {"userspace"}
    /\ pseFile = TRUE
    /\ lim \in LimitPairs
    /\ cur = lim.lo
    /\ set = cur
    /\ phase = "off"
    /\ on = FALSE
    /\ pre = FirstUsage

-----------------------------------------------------------------------------
(* The kernel, as sysfs shows it.                                          *)

Clamp(f) == IF f < lim.lo THEN lim.lo ELSE IF f > lim.hi THEN lim.hi ELSE f

(* scaling_governor: the userspace governor starts from the current clock. *)
SetGovernor(g) ==
    /\ gov' = g
    /\ set' = IF g = "userspace" THEN cur ELSE set
    /\ UNCHANGED <<lim, cur>>

(* scaling_setspeed: refused unless the userspace governor is the policy's *)
(* (the daemon does not see the error: fprintf only fills the buffer).     *)
SetSpeed(f) ==
    IF gov = "userspace"
    THEN set' = f /\ cur' = Clamp(f) /\ UNCHANGED <<gov, lim>>
    ELSE UNCHANGED kernel

OtherGovernor ==
    /\ \E g \in Governors \ {gov} : SetGovernor(g)
    /\ UNCHANGED <<pseFile, phase, on, pre>>

OtherLimits ==
    /\ \E l \in LimitPairs \ {lim} :
        /\ lim' = l
        /\ LET want == IF gov = "userspace" THEN set ELSE cur IN
           cur' = IF want < l.lo THEN l.lo ELSE IF want > l.hi THEN l.hi ELSE want
    /\ UNCHANGED <<gov, set, pseFile, phase, on, pre>>

GovernorMoves ==
    /\ gov # "userspace"
    /\ cur' \in lim.lo .. lim.hi
    /\ UNCHANGED <<gov, lim, set, pseFile, phase, on, pre>>

OtherPse ==
    /\ pseFile' = ~pseFile
    /\ UNCHANGED <<kernel, phase, on, pre>>

-----------------------------------------------------------------------------
(* Stepping along the kernel's table: the neighbour of the first entry     *)
(* that is not above the frequency, except at the two ends.                *)

NextFreq_Same(f) == f              \* mutant: table[i] for table[i - 1]
PrevFreq_NoEnd(f) == f - 1         \* mutant: no test for CPUFREQ_MIN

NextFreq(f) == IF f = Top THEN Top ELSE f + 1
PrevFreq(f) == IF f = 0 THEN 0 ELSE f - 1

(* The index scaled up by the usage: never below the current one, one      *)
(* above it when the scaling leaves it where it is.                        *)
ScaledUp(f, usage) ==
    LET adj == ((Top - f + 1) * usage + 100 * (f - 1)) \div 100
    IN  IF adj < f THEN f ELSE IF adj = f THEN NextFreq(f) ELSE adj

ScaledDown(f, usage) == ((f + 1) * usage) \div 100

(* The frequency the usage alone asks for.                                 *)
UsageCond(f, usage, diff) ==
    IF diff >= UpThreshold THEN ScaledUp(f, usage)
    ELSE IF diff <= -DownThreshold /\ usage <= DownLimit THEN ScaledDown(f, usage)
    ELSE IF usage < MinDownThreshold /\ f # 0 THEN PrevFreq(f)
    ELSE IF usage > MinUpThreshold /\ f # Top THEN NextFreq(f)
    ELSE NoFreq

Cond(diff, threshold) ==
    IF diff >= threshold THEN 1 ELSE IF diff <= -threshold THEN -1 ELSE 0

(* One step per point, from the wanted frequency or from the current one;  *)
(* at the end of the ladder nothing is asked for at all.                   *)
Adjusted(f, want, point) ==
    LET from == IF want = NoFreq THEN f ELSE want IN
    CASE point = 2  /\ from # Top -> NextFreq(NextFreq(from))
      [] point = 1  /\ from # Top -> NextFreq(from)
      [] point = -1 /\ from # 0   -> PrevFreq(from)
      [] point = -2 /\ from # 0   -> PrevFreq(PrevFreq(from))
      [] point = 0  -> want
      [] OTHER -> NoFreq

(* The threads and the memory add weight to a wanted frequency only in the *)
(* direction the usage moves.                                              *)
SameDirection_Any(diff, point) == point # 0   \* mutant: in any direction

SameDirection(diff, point) == (diff < 0 /\ point < 0) \/ (diff > 0 /\ point > 0)

Diff(r, last) == [cpu |-> r.cpu - last.cpu, thread |-> r.thread - last.thread,
                  mem |-> r.mem - last.mem]

Decided(f, r, last) ==
    LET diff  == Diff(r, last)
        point == Cond(diff.thread, ThreadThreshold) + Cond(diff.mem, MemThreshold)
        want  == UsageCond(f, r.cpu, diff.cpu)
    IN  IF want # NoFreq /\ ~SameDirection(diff.cpu, point)
        THEN want
        ELSE Adjusted(f, want, point)

-----------------------------------------------------------------------------
(* main(): pseON.txt is read to choose the governor; an unknown governor   *)
(* ends the program.                                                       *)
Start ==
    /\ phase = "off"
    /\ pseFile /\ gov # "userspace" => gov \in Named
    /\ IF pseFile /\ gov # "userspace"
       THEN SetGovernor("userspace")
       ELSE UNCHANGED kernel
    /\ phase' = "started"
    /\ on' = FALSE
    /\ pre' = FirstUsage
    /\ UNCHANGED pseFile

(* loadUsageScoreValue, at the first sample: pseON.txt is read again.      *)
Loaded == IF phase = "started" THEN pseFile ELSE on

Sample(r) ==
    /\ phase # "off"
    /\ on' = Loaded
    /\ pre' = r
    /\ phase' = "looping"
    /\ LET f == Decided(cur, r, pre) IN
       IF on' /\ f # NoFreq THEN SetSpeed(f) ELSE UNCHANGED kernel
    /\ UNCHANGED pseFile

(* The log cannot be opened: the program returns before it decides and     *)
(* leaves the governor as it is.                                           *)
LogFails ==
    /\ phase # "off"
    /\ phase' = "off"
    /\ on' = Loaded
    /\ UNCHANGED <<kernel, pseFile, pre>>

(* The logging time is over: back to ondemand, whatever was there before;  *)
(* an unknown governor ends the program first.                             *)
Finish ==
    /\ phase # "off"
    /\ phase' = "off"
    /\ IF gov \in Named \ {"ondemand"}
       THEN SetGovernor("ondemand")
       ELSE UNCHANGED kernel
    /\ UNCHANGED <<pseFile, on, pre>>

Loop == \E r \in Resource : Sample(r)

Next ==
    \/ Start \/ Loop \/ LogFails \/ Finish
    \/ OtherGovernor \/ OtherLimits \/ GovernorMoves \/ OtherPse

(* The loop goes on: while nothing but what it read before is to be read,  *)
(* it reads that again and acts on it.                                     *)
Again(r) == pre = r /\ Sample(r)

Spec == Init /\ [][Next]_vars /\ \A r \in Resource : WF_vars(Again(r))

-----------------------------------------------------------------------------
(* The speed written is one of the table's: neither the scaled index nor   *)
(* the neighbour of an entry, nor two neighbours in a row, leaves the      *)
(* tables (scoreCalc.c getCPUFreqFromTbl, cpufreq.c get_next_freq and      *)
(* get_prev_freq index them without a bound).                              *)
SpeedOnLadder == set \in Steps

(* A sample whose usage rose by the threshold never lowers the clock, one  *)
(* that fell into the low range never raises it, whatever the threads and  *)
(* the memory did and whatever the limits are (calcResourceScore:          *)
(* "overweight only in case the direction is same").                       *)
NeverAgainstLoad ==
    [][\A r \in Resource : Sample(r) =>
        /\ r.cpu - pre.cpu >= UpThreshold => cur' >= cur
        /\ r.cpu - pre.cpu <= -DownThreshold /\ r.cpu <= DownLimit => cur' <= cur]_vars

Governs(r, l) == phase = "looping" /\ on /\ gov = "userspace" /\ pre = r /\ lim = l

(* While the daemon governs and the samples stay the same, a usage above   *)
(* the middle range brings the clock to the policy's maximum for good and  *)
(* one below it to the minimum, also when the limit is not the end of the  *)
(* daemon's own table.                                                     *)
LoadSettles ==
    \A r \in Resource, l \in LimitPairs :
        /\ r.cpu > MinUpThreshold   => (<>[]Governs(r, l) => <>[](cur = l.hi))
        /\ r.cpu < MinDownThreshold => (<>[]Governs(r, l) => <>[](cur = l.lo))
=============================================================================
