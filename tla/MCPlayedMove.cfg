SPECIFICATION Spec
CONSTANTS
    Worker = {w1, w2}
    Edges <- MCEdges
    DefaultMove = "Up"
    Watchdog = watchdog
    Owner = owner
    Caller = caller
    Nobody = nobody
    MaxVisits = 2
INVARIANT
    PlayedMoveHasAnEdge
