SPECIFICATION Spec
CONSTANTS
    Madt <- MCMadt
    Vectors <- MCVectors
    BootVectors <- MCBootVectors
    Timers <- MCTimers
    RoutingMode = "Legacy"
    RouteCap <- MCRouteCap
    PeriodicCapable <- MCPeriodicCapable
    FsbCapable <- MCFsbCapable
    StubsOf <- MCStubsOf
    Receive <- MCReceive
INVARIANTS
    UnmaskedHasHandler
    
    IrqErrorMeansTaken
    
PROPERTIES
    OnlyOwnLineChanges
CHECK_DEADLOCK FALSE
