SPECIFICATION Spec
CONSTANTS
    Supervisors = {s1, s2}
    Class <- EachOnce
    Plans = {p1, p2}
    MaxFence = 3
    MaxCheckpoints = 5
    MaxFaults = 2
SYMMETRY Symmetry
CHECK_DEADLOCK FALSE
INVARIANTS
    NonReplayableOnce
    ReceiptsMatchChain
    QuarantinedOnlyUncertain
    CompletedRunPerformed
PROPERTIES
    KeepsLog
