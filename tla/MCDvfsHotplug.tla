----------------------------- MODULE MCDvfsHotplug -----------------------------
(* Instances of DvfsHotplug for TLC.                                         *)
EXTENDS DvfsHotplug, TLC

(* The order of the thresholds is that of the source, 4, 4 and 8 against 5   *)
ShortOver == (2 :> 1) @@ (3 :> 1) @@ (4 :> 2)
ShortUnder == (2 :> 2) @@ (3 :> 2) @@ (4 :> 2)
=============================================================================
