---------------------------- MODULE MCUsageScore ----------------------------
EXTENDS UsageScore

CONSTANT None

MCLimits == {[lo |-> 0, hi |-> 7], [lo |-> 2, hi |-> 5]}
MCFirst == [cpu |-> 20, thread |-> 2, mem |-> 80]
=============================================================================
