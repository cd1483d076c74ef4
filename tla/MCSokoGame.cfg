SPECIFICATION Spec
CONSTANTS
    Walls <- MCWalls
    Targets <- MCTargets
    Floor <- MCFloor
    StartBoxes <- MCStartBoxes
    StartChar <- MCStartChar
    MaxDepth = 3
INVARIANTS
    RepetitionsCount
    SearchPathsDoNotRepeat
