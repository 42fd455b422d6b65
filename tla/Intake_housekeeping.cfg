SPECIFICATION Spec
CONSTANTS
    Requests = {r1, r2}
    DeliveryIds = {"e1"}
    Digests = {x, y}
    Commands = {c1, c2}
    Versions = {1, 2}
    MaxDeployments = 3
    MaxRuns = 2
INVARIANTS
    InboxesConsistent
CHECK_DEADLOCK FALSE
