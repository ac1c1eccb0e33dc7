------------------------------ MODULE FreqTable ------------------------------
(***************************************************************************)
(* The frequency table of the Exynos DVFS driver                           *)
(* (arch/arm/mach-exynos/cpufreq.c) and the function with which the driver *)
(* and the governors search it.                                            *)
(*                                                                         *)
(* A level is an index of the table: MaxIdx (max_support_idx) is the       *)
(* fastest one, MinIdx (min_support_idx) the slowest, so a LARGER level is *)
(* a SLOWER clock.  Frequencies are plain numbers; only their order        *)
(* matters.                                                                *)
(***************************************************************************)
EXTENDS Integers

CONSTANTS
  MaxIdx,      (* exynos_info->max_support_idx                             *)
  MinIdx,      (* exynos_info->min_support_idx                             *)
  Freq         (* freq_table[i].frequency                                  *)

Levels == MaxIdx .. MinIdx

ASSUME LevelsAssumption ==
  MaxIdx \in Nat /\ MinIdx \in Nat /\ MaxIdx <= MinIdx

ASSUME FreqAssumption ==
  /\ Freq \in [Levels -> Nat \ {0}]
  /\ \A i, j \in Levels : i < j => Freq[j] < Freq[i]

-----------------------------------------------------------------------------

Fastest(S) == CHOOSE i \in S : \A j \in S : i <= j
Slowest(S) == CHOOSE i \in S : \A j \in S : j <= i

Relations == {"L", "H"}

(* cpufreq_frequency_table_target looks only at levels within the policy   *)
InPolicy(pol) == { i \in Levels : pol.min <= Freq[i] /\ Freq[i] <= pol.max }

(***************************************************************************)
(* cpufreq_frequency_table_target: CPUFREQ_RELATION_H takes the fastest    *)
(* level at or below the target, CPUFREQ_RELATION_L the slowest level at   *)
(* or above it; when there is none, the nearest level on the other side.   *)
(* It fails (-EINVAL) exactly when InPolicy(pol) is empty.                 *)
(***************************************************************************)
TableTarget(pol, target, relation) ==
  LET below == { i \in InPolicy(pol) : Freq[i] <= target }
      above == { i \in InPolicy(pol) : Freq[i] >= target }
  IN  IF relation = "H"
      THEN IF below # {} THEN Fastest(below) ELSE Slowest(above)
      ELSE IF above # {} THEN Slowest(above) ELSE Fastest(below)

(* exynos_cpufreq_get_level: the level of exactly this frequency, if any    *)
LevelsOfFreq(freq) == { i \in Levels : Freq[i] = freq }
=============================================================================
