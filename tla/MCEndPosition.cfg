SPECIFICATION Spec
CONSTANTS
    Walls <- MCWalls
    Targets <- MCTargets
    Floor <- MCFloor
    StartBoxes <- MCStartBoxes
    StartChar <- MCStartChar
PROPERTY
    StuckMeansUnsolvable
