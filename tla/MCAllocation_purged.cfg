SPECIFICATION FairSpec
CONSTANTS
    o1 = o1
    o2 = o2
    o3 = o3
    MaxRequests = 1
    Boot <- MCBoot
    NumPods = 2
    NumWorkers = 1
    NumJobs = 1
    Orders <- MCOrders
    Inputs <- MCInputs
    MaxHasty = 1
    MaxCrashes = 0
    MaxFails = 0
CHECK_DEADLOCK FALSE
INVARIANT WorkKeptUntilProduced
