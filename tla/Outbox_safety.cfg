SPECIFICATION FairSpec
CONSTANTS
    Sessions = {"s1"}
    AckKeys = {"a1", "a2"}
    MaxEvents = 4
    Executions = {1, 2}
    RedriveKeys = {"k1"}
    MaxAttempts = 2
    MaxItemEvents = 3
    MaxCycles = 2
    MaxFaults = 2
INVARIANTS
    OneSender
    SourceRetained
    NothingMissed
    Accounted
PROPERTIES
    FinalStays
    
CHECK_DEADLOCK FALSE
