SPECIFICATION Spec
CONSTANTS
    Values <- MCValues
    MaxGoes = 3
    MaxLines = 5
INVARIANTS
    TypeOK
    OneSearchAtATime
    AnswersInOrder
PROPERTY
    EngineGoesOn
