CONSTANTS
    Threads = {t1, t2, t3}
    MaxLog = 7
SPECIFICATION FairSpec
CHECK_DEADLOCK FALSE
INVARIANTS
    MutualExclusion
PROPERTIES
    ImplementsAtomicObject
    SomebodyGetsIn
