CONSTANTS
    MemMap <- MCMemMap
    Nodes = 7
    MetaPages = 1
    AllocCounts = {0, 1, 2, 3, 16, 17}
    AtCounts = {0, 1, 2}
    Alignments = {1, 3, 4}
SPECIFICATION Spec
INVARIANTS
    NoOverlap
    Conservation
    
    FreeRunsAreFound
    HeldCanBeFreed
PROPERTY ImplementsPageFrames
