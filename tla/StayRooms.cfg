SPECIFICATION Spec
CONSTANTS
    Stays = {g1, g2}
    Rooms = {r1, r2}
    None = None
    MaxSteps = 5
SYMMETRY Symmetry
INVARIANTS
    OnlyMovesShare
    OccupancyFollows
    CleanIsClean
    DepartureIsCleaned
CHECK_DEADLOCK FALSE
