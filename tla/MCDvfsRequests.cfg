SPECIFICATION Spec
CONSTANTS
  g1 = g1
  c1 = c1
  c2 = c2
  f1 = f1
  p1 = p1
  tmu = tmu
  dev = dev
  NoThread = NoThread
  PmId = PmId
  MaxIdx = 0
  MinIdx = 3
  Freq <- MCFreq
  Volt <- MCVolt
  MpllFreq = 8
  PllSafeIdx = 1
  ApllChange <- MCApllChange
  Governors = {g1}
  Clients = {c1, c2}
  Fixers = {}
  PmThreads = {}
  Ids = {tmu, dev, PmId}
  TmuId = tmu
  LockIds <- Dev2Only
  LimitIds <- OwnIds
  ReqLevels = {0, 2, 3}
  Targets <- SlowTarget
  Policies <- TwoPolicies
  LevelLockOff = {FALSE}
  PmLockIdx = 1
  BootFreqs <- MCBoot
INVARIANTS
  TypeOK
  RequestsExact
  
  
  
  
CHECK_DEADLOCK FALSE
