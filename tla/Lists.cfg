SPECIFICATION Spec
CONSTANTS
    Node = {n1, n2, n3, n4}
    Values = {0, 1}
    None = None
SYMMETRY NodeSymmetry
INVARIANTS
    LinkedListWellLinked
    StackListOwnsChain
PROPERTY
    ImplementsSequence
