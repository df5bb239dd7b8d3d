SPECIFICATION Spec
CONSTANTS
    PageSize = 40
    NodeSize = 13
    NodeAlign = 8
    Classes <- MCClasses
    Layouts <- MCLayouts
    Pages = {p1, p2, p3}
SYMMETRY PageSymmetry
CHECK_DEADLOCK FALSE
INVARIANTS
    ObjectsPartitioned
    PagesPartitioned
    HeldCanBeFreed
    FailureMeansNoMemory
