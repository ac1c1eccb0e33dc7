SPECIFICATION Spec
CONSTANTS
  w1 = w1
  w2 = w2
  work = work
  noone = noone
  Writers = {w1}
  Work = work
  NoOne = noone
  Freqs = {1, 2}
  Hotplug = TRUE
  Bias = TRUE
  MaxFail = 1
INVARIANT NoDeadlock
CHECK_DEADLOCK FALSE
