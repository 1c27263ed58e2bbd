SPECIFICATION Spec
CONSTANTS
    Threads = {"main", "fuse1", "fuse2"}
    Main = "main"
    Writable = {"/log"}
    Directories = {"/music", "/mnt"}
    MaxTime = 2
    MaxBuffered = 6
    MaxEntries <- MCMaxEntries
    kQualityMax = 9
    ArgLists <- MCArgLists
    Messages <- MCMessages
INVARIANTS
    MountedAsAsked
    DebugShowsEverything
    SyslogIsFaithful
PROPERTY LoneEntryIsRight
CHECK_DEADLOCK FALSE
