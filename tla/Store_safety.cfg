SPECIFICATION FairSpec
CONSTANTS
    Processes = {"p1", "p2"}
    Main = "p1"
    Clients = {"c1", "c2", "c3"}
    Host <- MCHost
    Modes = {"json", "sqlite", "postgres"}
    SyncOverlap = FALSE
    MaxAttempts = 2
    MaxCalls = 3
    MaxCrashes = 1
INVARIANTS
    JsonCacheCurrent
    CacheWasCommitted
PROPERTIES
    IsAtomic
    CallsEnd
CHECK_DEADLOCK FALSE
