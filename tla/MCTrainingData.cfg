SPECIFICATION Spec
CONSTANTS
    Worker = {w1, w2}
    Node <- MCNode
    Root <- MCRoot
    Path <- MCPath
    Kids <- MCKids
    Outcome <- MCOutcome
    Unit = 5
    Values <- MCValues
    Fpu = 6
    MiniBatchSize = 2
    CollisionLimit = 2
    MaxVisits = 4
INVARIANT
    TrainingDataIsValid
