SPECIFICATION FairSpec
CONSTANTS
    m1 = m1
    m2 = m2
    m3 = m3
    m4 = m4
    Messages = {m1, m2, m3}
    Kind <- Doubtful
    Consumers = {c1, c2}
    Answers = {"sent"}
    CancelBatchLimit = 1
    CancelAllThreshold = 2
    MaxDeaths = 1
    MaxCuts = 0
PROPERTY TopicDrained
CHECK_DEADLOCK FALSE
