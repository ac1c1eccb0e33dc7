SPECIFICATION Spec
CONSTANTS
  c1 = c1
  c2 = c2
  t1 = t1
  t2 = t2
  Cpus <- MCCpus
  Tasks <- MCTasks
  BootCpu = c1
  InitTask = t1
  Idle = Idle
  Stopper = Stopper
  Unlocked = TRUE
  MaxStops = 1
  Wrap = 2
  WaitState <- MCWaitState
  Masks <- MCMasks
  Movable <- MCMovable
INVARIANTS  UninterruptibleExact NoLostWakeup WakeupsPending
PROPERTIES LivesAsPromised
CHECK_DEADLOCK FALSE
