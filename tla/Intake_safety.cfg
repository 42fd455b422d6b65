SPECIFICATION Spec
CONSTANTS
    Requests = {r1, r2}
    DeliveryIds = {"e1"}
    Digests = {x, y}
    Commands = {c1, c2}
    Versions = {1, 2}
    MaxDeployments = 3
    MaxRuns = 2
SYMMETRY MCSymmetry
INVARIANTS
    OneRunPerDelivery
    OneActive
    RevokedDrains
PROPERTIES
    NoGap
CHECK_DEADLOCK FALSE
