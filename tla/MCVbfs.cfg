SPECIFICATION FairSpec
CONSTANTS
  MaxIdx = 1
  MinIdx = 3
  Freq <- MCFreq
  Cpus = {0}
  Loads = {10, 40, 50, 100}
  Threads = {2}
  MemUsed = {40, 83}
  MemTotal = 100
  MemWrap = 820000
  IndexWrap = 65536
  LazyWrap = 5
  Limits <- MCLimits
  TunerWrites <- MCTunerWrites
  MaxWrites = 3
INVARIANTS
  IndexInTable
PROPERTIES
  TowardLoad
  RisesWhenBusy
  FallsWhenCalm
CHECK_DEADLOCK FALSE
