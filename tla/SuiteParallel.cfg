SPECIFICATION Spec
CONSTANTS
    Proc = {p1, p2}
    NumRabbits = 1
    MaxRuns = 1
    NoRun = NoRun
PROPERTIES
    HealthyRunPasses
CHECK_DEADLOCK FALSE
