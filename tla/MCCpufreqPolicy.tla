---------------------------- MODULE MCCpufreqPolicy ----------------------------
(* Instances of CpufreqPolicy for TLC.                                       *)
EXTENDS CpufreqPolicy

CONSTANTS w1, w2, work, noone
=============================================================================
