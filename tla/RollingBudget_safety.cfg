SPECIFICATION FairSpec
CONSTANTS
    Runs = {"r1", "r2"}
    Deployments = {"d1", "d2"}
    DeploymentOf <- MCDeploymentOf
    Policy <- MCPolicy
    Amounts = {2}
    Costs <- MCCosts
    Kinds = {"provider_cost_usd", "billable_action"}
    Window = 0
    MaxTime = 1
    MaxFence <- MCMaxFence
    MaxCalls <- MCMaxCalls
INVARIANTS
    OnlyLosersUncounted
PROPERTIES
    OnlyOvershootExceeds
    HoldsEnd
CHECK_DEADLOCK FALSE
