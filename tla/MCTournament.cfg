SPECIFICATION Spec
CONSTANTS
    Worker = {w1, w2}
    TotalGames = 3
    MaxGames = 3
    MaxMoves = 1
    Free = free
    Caller = caller
INVARIANTS
    TypeOK
    NumbersAreUnique
    ResultsAddUp
    FinalIsComplete
    AbortedGameDoesNotSearch
    AbortedOrEscaped
PROPERTY
    TournamentEnds
