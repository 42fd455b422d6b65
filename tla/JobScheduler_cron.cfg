SPECIFICATION Spec
CONSTANTS
    Processes = {p1}
    Modes = {"off", "fail_open"}
    Executions = {x1}
    MaxAttempts = 2
    OneOffs = 0
    MaxJobs = 3
    MaxCommands = 2
    MaxFaults = 1
CHECK_DEADLOCK FALSE
SYMMETRY Symmetry
INVARIANTS
    OneOccurrence
