SPECIFICATION FairSpec
CONSTANTS
    Handlers = {h1, h2}
    Boot = {h1}
    Sizes <- Growing
    Least = 1
    Largest = 2
    MaxRestarts = 1
    MaxFails = 1
INVARIANT TypeOK
INVARIANT StatusFollowsRuns
INVARIANT LoneLoadIsComplete
INVARIANT SomeLoadIsComplete
PROPERTY PollingEnds
CHECK_DEADLOCK FALSE
