SPECIFICATION Spec
CONSTANTS
    Walls <- MCWalls
    Targets <- MCTargets
    Floor <- MCFloor
    StartBoxes <- MCStartBoxes
    StartChar <- MCStartChar
INVARIANTS
    BoardConsistent
    NoSquareOutOfRange
    NeverBlocked
PROPERTIES
    StuckBoxesStay
