SPECIFICATION Spec
CONSTANTS
    NoName = NoName
    DirectiveLists <- MCDirectiveLists
    LustreNames <- MCLustreNames
    GlobalNames = {myGlobal}
    PoolNames <- MCPoolNames
    PoolCounts <- MCPoolCounts
    RabbitComputes = 1
    ExternalComputes = 11
    MaxCopies = 21
    MaxCalls = 4
    myProfile = myProfile
    myContainer = myContainer
    myPool = myPool
    myLustre = myLustre
    ownLustre = ownLustre
    myGlobal = myGlobal
INVARIANTS
    WorksIffSound
    MissingCopiesNoticed
CHECK_DEADLOCK FALSE
