SPECIFICATION FairSpec
CONSTANTS
    Executors = {x1}
    MaxAttempts = 2
    ApprovalRequired = TRUE
    MaxJobs = 2
    MaxCheckpoints = 2
    MaxCommands = 2
    MaxFaults = 1
    MaxEvents = 3
CHECK_DEADLOCK FALSE
INVARIANTS
    CompletedOnlyApproved
PROPERTIES
    FollowsLifecycle
    RunningMovesOn
    EndedRunsDrain
