SPECIFICATION Spec
CONSTANTS
    o1 = o1
    o2 = o2
    o3 = o3
    Orders = {o1, o2, o3}
    Allocations <- UpToThree
    NumWorkers = 3
    NumJobs = 3
    MaxCrashes = 1
    MaxFails = 1
INVARIANT TypeOK
INVARIANT FinishedListsReachTopic
PROPERTY PurgeLeavesOneTask
CHECK_DEADLOCK FALSE
