SPECIFICATION Spec
CONSTANTS
    o1 = o1
    o2 = o2
    o3 = o3
    Orders = {o1, o2, o3}
    Allocations <- ThreeOrders
    NumWorkers = 2
    NumJobs = 2
    MaxCrashes = 0
    MaxFails = 0
INVARIANT AllocatedOrdersProduced
CHECK_DEADLOCK FALSE
