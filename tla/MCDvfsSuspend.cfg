SPECIFICATION Spec
CONSTANTS
  g1 = g1
  c1 = c1
  c2 = c2
  f1 = f1
  p1 = p1
  tmu = tmu
  dev = dev
  NoThread = NoThread
  PmId = PmId
  MaxIdx = 0
  MinIdx = 3
  Freq <- MCFreq
  Volt <- MCVolt
  MpllFreq = 8
  PllSafeIdx = 1
  ApllChange <- MCApllChange
  Governors = {g1}
  Clients = {c1}
  Fixers = {f1}
  PmThreads = {p1}
  Ids = {tmu, dev, PmId}
  TmuId = tmu
  LockIds <- Tmu1Ids
  LimitIds <- No1Ids
  ReqLevels = {0, 2}
  Targets <- MCTargets
  Policies <- MCPolicies
  LevelLockOff = {FALSE}
  PmLockIdx = 1
  BootFreqs <- MCBoot

  
  
PROPERTY FloorsKept
CHECK_DEADLOCK FALSE
