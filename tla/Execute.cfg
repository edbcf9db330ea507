SPECIFICATION FairExecuteSpec
CONSTANTS
    NumBreakdowns = 3
    PersistentDW <- MCPersistentDW
INVARIANTS
    TypeOK
    PassedMeansReached
    PassedLeavesWhatWasAsked
    AllocatedBeforeSetup
PROPERTIES
    EvidencePreserved
    LeftoverUntouched
    SkipsOnlyAfterExpectedError
    ProceedToTeardown
    Contract
    FollowsOutline
    Terminates
    HealthyPasses
CHECK_DEADLOCK FALSE
