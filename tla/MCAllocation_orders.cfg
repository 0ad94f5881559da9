SPECIFICATION FairSpec
CONSTANTS
    o1 = o1
    o2 = o2
    o3 = o3
    MaxRequests = 2
    Boot <- MCBoot
    NumPods = 2
    NumWorkers = 2
    NumJobs = 2
    Orders <- MCOrders
    Inputs <- MCInputs
    MaxHasty = 0
    MaxCrashes = 1
    MaxFails = 1
CHECK_DEADLOCK FALSE
INVARIANT TypeOK
INVARIANT CarefulUseDropsNothing
INVARIANT PublishedOncePerPass
INVARIANT AllocatedOrdersKept
PROPERTY TableWorkedOff
