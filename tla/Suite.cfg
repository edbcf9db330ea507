SPECIFICATION FairSpec
CONSTANTS
    Proc = {p1, p2}
    NumRabbits = 2
    MaxRuns = 2
    NoRun = NoRun
INVARIANTS
    TypeOK
    ClosedUntilTriaged
    ReservationRespected
    UserVerified
    PodsTidiedUp
PROPERTIES
    FailsOnlyForOthers
    RunEnds
CHECK_DEADLOCK FALSE
