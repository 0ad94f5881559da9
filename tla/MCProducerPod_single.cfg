SPECIFICATION FairSpec
CONSTANTS
    o1 = o1
    o2 = o2
    o3 = o3
    Orders = {o1, o2, o3}
    Allocations <- UpToThree
    NumWorkers = 1
    NumJobs = 2
    MaxCrashes = 2
    MaxFails = 2
PROPERTY RelaysOrders
PROPERTY EntryEventuallyPurged
CHECK_DEADLOCK FALSE
