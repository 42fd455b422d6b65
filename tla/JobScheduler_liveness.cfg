SPECIFICATION FairSpec
CONSTANTS
    Processes = {p1, p2}
    Modes = {"file"}
    Executions = {x1}
    MaxAttempts = 1
    OneOffs = 1
    MaxJobs = 1
    MaxCommands = 0
    MaxFaults = 1
CHECK_DEADLOCK FALSE
PROPERTIES
    QueuedClaimed
