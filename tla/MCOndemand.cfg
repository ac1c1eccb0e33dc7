SPECIFICATION FairSpec
CONSTANTS
  MaxIdx = 0
  MinIdx = 2
  Freq <- MCFreq
  Loads = {22, 75, 100}
  Wrap = 1000000
  Period = 10
  TunerWrites <- MCTunerWrites
  MaxWrites = 3
INVARIANTS
  BiasAverages
  StoppedMeansIdle
PROPERTIES
  LowestSustaining
  BusyReachesMax
CHECK_DEADLOCK FALSE
