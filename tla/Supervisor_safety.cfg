SPECIFICATION FairSpec
CONSTANTS
    Plans = {"answer", "look", "login", "edit"}
    Size <- Sizes
    Redacted <- Masked
    Costs = {1}
    MaxIterations = 2
    MaxCost = 4
    MaxFailures = 2
    MaxToolCalls = 2
    MaxCuts = 2
    MaxFaults = 1
INVARIANTS
    RestoreAccepted
    OnePlanPerIteration
    BudgetsBoundWork
    CompletedOnMatch
PROPERTIES
    LedgerMonotone
    Ends
CHECK_DEADLOCK FALSE
