CONSTANTS
    Top = 7
    Usages = {5, 25, 40, 60, 100}
    Threads = {1, 4}
    Mems = {80, 83}
    None = None
    NoFreq <- None
    LimitPairs <- MCLimits
    FirstUsage <- MCFirst
SPECIFICATION Spec
INVARIANTS
    SpeedOnLadder
PROPERTIES
    
    LoadSettles
