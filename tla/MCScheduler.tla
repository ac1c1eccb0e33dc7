----------------------------- MODULE MCScheduler -----------------------------
(* Scheduler for TLC: two CPUs, the first task and one more, of which one   *)
(* waits interruptibly and the other does not.                              *)
EXTENDS Scheduler
CONSTANTS c1, c2, t1, t2

MCCpus == {c1, c2}
MCTasks == {t1, t2}
MCWaitState ==
  [t \in MCTasks |-> IF t = t1 THEN "INTERRUPTIBLE" ELSE "UNINTERRUPTIBLE"]
MCMasks == {{c2}, {c1, c2}}
MCMovable == {t2}
=============================================================================
