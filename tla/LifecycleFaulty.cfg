SPECIFICATION FairSpec
CONSTANTS
    Procs = 2
    Faulty = TRUE
    Flaky = FALSE
    NoName = NoName
    TOptions <- MCTOptions
    Leftovers <- MCLeftovers
    Test = {lustreDm, stopped, namesake, persistent}
    xfs = xfs
    xfsLv = xfsLv
    gfs2 = gfs2
    lustreDm = lustreDm
    gfs2Dm = gfs2Dm
    container = container
    persistent = persistent
    mgsPool = mgsPool
    stopped = stopped
    namesake = namesake
    myXfs = myXfs
    myGfs2 = myGfs2
    lustreProfile = lustreProfile
    poolUser = poolUser
    pool = pool
    containerProf = containerProf
    lustre = lustre
    gfs2Lustre = gfs2Lustre
    ownLustre = ownLustre
    global = global
    gfs2Global = gfs2Global
INVARIANTS
    TypeOK
    CleanedUp
PROPERTIES
    DeletesOnlyOwn
    PreparedFirst
    DependentsGoFirst
    SuiteEnds
    FollowsOutline
CHECK_DEADLOCK FALSE
