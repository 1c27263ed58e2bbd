SPECIFICATION MountSpec
CONSTANTS
    t1 = t1
    t2 = t2
    f1 = f1
    f2 = f2
    x1 = x1
    x2 = x2
    NoThread = NoThread
    Threads <- MCThreads
    Files <- MCFiles
    Transcoders <- MCTranscoders
    Sizes <- MCSizes
    Mtimes <- MCMtimes
    Versions <- MCVersions
    TrueSize <- MCTrueSize
    ForeseenSize <- MCForeseenSize
    MaxDamaged = 1
    statcachesize = 1
    MaxClock = 1
SYMMETRY Symmetry
INVARIANT CurrentSizesAreRight
PROPERTIES
    RemovedIsOutOfDate
    ImplementsForgetfulCache
