--------------------------- MODULE MCCpufreqDevices ---------------------------
(* CpufreqDevices for TLC: two CPUs, of which either may be the policy's    *)
(* first, and memory for the three policies there can be at once.           *)
EXTENDS CpufreqDevices
CONSTANTS u1, u2, p1, p2, p3
=============================================================================
