SPECIFICATION FairSpec
CONSTANTS
    Threads = {"t1", "t2"}
    NoThread = "none"
    Files = {"f1", "f2", "f3"}
    Sizes <- OneSize
    Mtimes <- OneMtime
    statcachesize = 2
    MaxClock = 1
INVARIANTS
    TypeOK
    ExcessIsRelieved
PROPERTIES
    PruneSparesNewEntries
    EvictsLeastRecentlyUsed
    ExcessIsTransient
