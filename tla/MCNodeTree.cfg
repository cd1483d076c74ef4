SPECIFICATION Spec
CONSTANTS
    Node = {n1, n2, n3, n4}
    Null = null
    Openings <- MCOpenings
    MoveLists <- MCMoveLists
    MaxGame = 2
    MaxQueue = 2
INVARIANTS
    TypeOK
    OneOwner
    SiblingsOrdered
    MovesAreHistory
PROPERTY
    IsPathTree
SYMMETRY
    Symmetry
