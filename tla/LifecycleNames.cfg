SPECIFICATION Spec
CONSTANTS
    Procs = 2
    Faulty = FALSE
    Flaky = FALSE
    NoName = NoName
    TOptions <- MCTOptions
    Leftovers <- NoLeftovers
    Test = {xfs, xfsLv}
    xfs = xfs
    xfsLv = xfsLv
    gfs2 = gfs2
    lustreDm = lustreDm
    gfs2Dm = gfs2Dm
    container = container
    persistent = persistent
    mgsPool = mgsPool
    stopped = stopped
    namesake = namesake
    myXfs = myXfs
    myGfs2 = myGfs2
    lustreProfile = lustreProfile
    poolUser = poolUser
    pool = pool
    containerProf = containerProf
    lustre = lustre
    gfs2Lustre = gfs2Lustre
    ownLustre = ownLustre
    global = global
    gfs2Global = gfs2Global
INVARIANTS
    NoneFails
CHECK_DEADLOCK FALSE
