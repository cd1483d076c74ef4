SPECIFICATION PlaySpec
CONSTANTS
    Walls <- MCWalls
    Targets <- MCTargets
    Floor <- MCFloor
    StartBoxes <- MCStartBoxes
    StartChar <- MCStartChar
    MaxDepth = 0
    One = 2
    Averages <- MCAverages
    Estimates <- MCEstimates
    MaxVisits = 4
INVARIANTS
    ResultsAreExplained
    NoBoardThreeTimes
PROPERTIES
    PlaysByTheRules
    PlayEnds
