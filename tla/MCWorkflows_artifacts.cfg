CONSTANTS
    Callers = {c1, c2}
    NumSteps = 3
    MaxRetries = 1
    Compensable <- FirstAndLast
    SagaFaults <- OnlyRaises
    NoRow = NoRow
    Sessions = {s1}
    NumHands = 2
    MaxSeconds = 2
    SessionFaults <- OnlyRaises
    Nobody = Nobody
    Requests = {r1, r2}
    Trees <- SomeTrees
    Trembles <- SomeTrembles
    Trunks <- SomeTrunks
    NoTrunk = NoTrunk
    TrunkValues <- SomeTrunkValues
    MostWalks = 6
SPECIFICATION Spec
INVARIANT
    FailureLeavesNothing
CHECK_DEADLOCK FALSE
