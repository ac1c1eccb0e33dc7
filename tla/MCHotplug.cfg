SPECIFICATION FairSpec
CONSTANTS
  Socs = {TRUE, FALSE}
  OverNeed <- ShortOver
  UnderNeed <- ShortUnder
  DualNeed = 2
  FreqNeed = 2
  Freqs = {2, 6, 10}
  InTrg = 8
  OutTrg = 2
  MaxNr = 4
INVARIANTS
  
  OnlineOrder

  
  
  
