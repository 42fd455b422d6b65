SPECIFICATION Spec
CONSTANTS
    Processes = {p1, p2}
    Modes = {"fail_closed", "fail_open"}
    Executions = {x1, x2}
    MaxAttempts = 2
    OneOffs = 1
    MaxJobs = 1
    MaxCommands = 1
    MaxFaults = 1
CHECK_DEADLOCK FALSE
SYMMETRY Symmetry
INVARIANTS
    OneExecution
    OnlyFailuresCount
    OneDequeuer
PROPERTIES
    EndedStays
