----------------------------- MODULE MCExynosDvfs -----------------------------
(* Instances of ExynosDvfs for TLC.                                          *)
EXTENDS ExynosDvfs, TLC

CONSTANTS g1, c1, c2, f1, p1, tmu, dev

(* Four levels, two of them below the MPLL: 1.4 GHz, 1.0, 0.6 and 0.2 GHz    *)
MCFreq == (0 :> 14) @@ (1 :> 10) @@ (2 :> 6) @@ (3 :> 2)
MCVolt == (0 :> 13) @@ (1 :> 11) @@ (2 :> 10) @@ (3 :> 9)
MCApllChange == { p \in (0 .. 3) \X (0 .. 3) : p[1] # p[2] }
MCTargets == {2, 7}
MCPolicies == {<<2, 14>>}
TwoPolicies == {<<2, 6>>, <<10, 14>>}
MCBoot == {10}
MCBootOff == {9, 10}

SlowTarget == {2}

(* The ids each client uses: an own one, the same, or for only one of them  *)
OwnIds == (c1 :> {tmu}) @@ (c2 :> {dev})
Dev2Only == (c1 :> {}) @@ (c2 :> {dev})
TmuIds == (c1 :> {tmu}) @@ (c2 :> {tmu})
Tmu2Only == (c1 :> {}) @@ (c2 :> {tmu})
Tmu1Ids == (c1 :> {tmu})
No1Ids == (c1 :> {})
=============================================================================
