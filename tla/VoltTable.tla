------------------------------ MODULE VoltTable ------------------------------
(***************************************************************************)
(* The voltage table of the Exynos DVFS driver                             *)
(* (arch/arm/mach-exynos/cpufreq.c), and the clock its ARM clock is        *)
(* switched to while its own PLL is reprogrammed.                          *)
(***************************************************************************)
EXTENDS FreqTable

CONSTANTS
  Volt,        (* volt_table[i]                                            *)
  MpllFreq,    (* exynos_info->mpll_freq_khz                               *)
  PllSafeIdx,  (* exynos_info->pll_safe_idx                                *)
  ApllChange   (* the pairs <<old, new>> for which need_apll_change holds  *)

ASSUME VoltAssumption ==
  /\ Volt \in [Levels -> Nat \ {0}]
  /\ \A i, j \in Levels : i < j => Volt[j] <= Volt[i]

(* The level whose voltage carries the MPLL clock is at least as fast as it *)
ASSUME PllAssumption ==
  /\ MpllFreq \in Nat \ {0}
  /\ PllSafeIdx \in Levels
  /\ MpllFreq <= Freq[PllSafeIdx]
  /\ ApllChange \in SUBSET (Levels \X Levels)

-----------------------------------------------------------------------------

(* exynos_get_safe_armvolt: 0 when no intermediate voltage is needed       *)
SafeArmVolt(old, new) ==
  IF /\ <<old, new>> \in ApllChange
     /\ Freq[new] < MpllFreq
     /\ Freq[old] < MpllFreq
  THEN Volt[PllSafeIdx] ELSE 0

(* The voltage a clock of frequency f needs: that of the slowest level at   *)
(* least as fast.                                                           *)
NeedVolt(f) == Volt[Slowest({ i \in Levels : Freq[i] >= f })]
=============================================================================
