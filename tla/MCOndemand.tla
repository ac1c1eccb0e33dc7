------------------------------ MODULE MCOndemand ------------------------------
(* Instances of Ondemand for TLC: three levels, in MHz.                     *)
EXTENDS Ondemand

MCFreq == [i \in MaxIdx .. MinIdx |->
             CASE i = 0 -> 1400 [] i = 1 -> 800 [] i = 2 -> 200]
MCTunerWrites == {<<"up", 95>>, <<"diff", 3>>, <<"down_factor", 4>>,
                  <<"bias", 780>>, <<"bias", 0>>}
=============================================================================
