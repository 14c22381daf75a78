CONSTANTS
    Callers = {c1, c2}
    NumSteps = 3
    MaxRetries = 1
    Compensable <- FirstAndLast
    SagaFaults <- SagaFaultKinds
    NoRow = NoRow
    Sessions = {s1, s2}
    NumHands = 2
    MaxSeconds = 2
    SessionFaults <- SessionFaultKinds
    Nobody = Nobody
    Requests = {r1, r2}
    Trees <- SomeTrees
    Trembles <- SomeTrembles
    Trunks <- SomeTrunks
    NoTrunk = NoTrunk
    TrunkValues <- SomeTrunkValues
    MostWalks = 6
SPECIFICATION FairSpec
INVARIANTS
    WorkflowsTypeOK
    NeverTwice EffectsUndone RowAndAnswersTrue
    ReadersSeeWhole FailureLeavesNoRows CandidateIsBacked SolversHold
PROPERTY
    WorkflowsEnd
CHECK_DEADLOCK FALSE
