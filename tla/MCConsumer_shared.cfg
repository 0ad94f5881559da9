SPECIFICATION Spec
CONSTANTS
    m1 = m1
    m2 = m2
    m3 = m3
    m4 = m4
    Messages = {m1, m2, m3}
    Kind <- Mixed
    Consumers = {c1, c2}
    Answers = {"sent", "refused"}
    CancelBatchLimit = 2
    CancelAllThreshold = 2
    MaxDeaths = 1
    MaxCuts = 1
SYMMETRY Pods
INVARIANT TypeOK
INVARIANT BatchesKeepPace
INVARIANT DeathLosesAtMostOne
INVARIANT PostedAgainOnlyAfterFailure
CHECK_DEADLOCK FALSE
