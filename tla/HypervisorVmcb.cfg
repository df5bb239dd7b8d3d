SPECIFICATION Spec
CONSTANTS
    EntryBits = 2
    MaxVid = 5
    SlabBytes = 4096
    NodeSize = 56
    NodeAlign = 8
    VmcbBytes = 4096
    Pages = {p1, p2, p3}
    NoPage = NoPage
    MaxAsids = {1, 3, 7}
    HostCr4s <- MCHostCr4s
    Rips = {0}
SYMMETRY PageSymmetry
CHECK_DEADLOCK FALSE
INVARIANT
    VmcbCanBeAllocated
