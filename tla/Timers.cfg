CONSTANTS
    MaxTime = 6
    MaxCalls = 2
    Period = 2
    LastTimer = 1
    EntryBits = 8
    PeriodicCapable = {0}
    HpetTimes = {3}
    ApicTimes = {0, 3}
    Second = 4
    CountMax = 20
    Mega = 2
    CpuidFrequencies = {0, 30}
    TscDeadline = TRUE
SPECIFICATION FairSpec
INVARIANT NeverEarly
 
CHECK_DEADLOCK FALSE
