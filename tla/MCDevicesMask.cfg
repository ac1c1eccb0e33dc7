SPECIFICATION Spec
CONSTANTS
  u1 = u1
  u2 = u2
  p1 = p1
  p2 = p2
  p3 = p3
  NoOne = NoOne
  Cpus = {0, 1, 2}
  BootCpu = 0
  Policies = {p1, p2, p3}
  Users = {u1, u2}
INVARIANT HeldNotFreed
