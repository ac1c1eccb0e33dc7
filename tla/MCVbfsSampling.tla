---------------------------- MODULE MCVbfsSampling ----------------------------
(* Instances of VbfsSampling for TLC: three levels at the indices 1 to 3 of *)
(* a table whose index 0 the board does not support, and limits of which    *)
(* one is no frequency of the table, so that two of them may hold none.     *)
EXTENDS VbfsSampling

MCFreq == [i \in MaxIdx .. MinIdx |-> 10 * (MinIdx - i + 1)]
MCLimits == {10, 15, 30}
MCTunerWrites == {<<"up", 90>>, <<"lazy_down", 1>>}
=============================================================================
