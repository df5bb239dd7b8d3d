SPECIFICATION FairSpec
CONSTANTS
    Machines <- MCMachines
    LineLength = 4
    LastDevice = 1
INVARIANTS
    ConfigSpaceMapped
    BootApicReady
    
    DrawsInside

    
CHECK_DEADLOCK FALSE
