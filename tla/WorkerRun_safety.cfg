SPECIFICATION Spec
CONSTANTS
    Executors = {x1, x2}
    MaxAttempts = 2
    ApprovalRequired = FALSE
    MaxJobs = 2
    MaxCheckpoints = 2
    MaxCommands = 2
    MaxFaults = 2
    MaxEvents = 2
CHECK_DEADLOCK FALSE
SYMMETRY Symmetry
INVARIANTS
    CheckpointsFenced
PROPERTIES
    ProgressOnlyUnderLease
