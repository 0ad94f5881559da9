SPECIFICATION Spec
CONSTANT Inputs = {1, 2, 3, 4, 5}
CONSTANT NumWorkers = 3
CONSTANT NumJobs = 3
CONSTANT Listings <- MCListings
CONSTANT Logs <- MCLogs
CONSTANT Names = {1, 2, 3}
CONSTANT Contents = {"blank", "a", "b", "folder"}
CONSTANT Unreadable = {"folder"}
CONSTANT SizeOf <- MCSizeOf
CONSTANT MaxEdits = 1
CONSTANT Dumps <- MCDumps
CONSTANT Tables <- MCTables
CONSTANT MaxUpdates = 1
CONSTANT Callers = {"c1", "c2"}
CONSTANT MaxTopic = 2
CONSTANT MaxMishaps = 1
CONSTANT Keys = {1, 2, 3, 4, 5}
CONSTANT Staged = {1, 2, 3, 4}
CONSTANT StagedLists <- MCStagedLists
CONSTANT NumPods = 3
CONSTANT NumLoaders = 2
CONSTANT NumLoads = 2
CONSTANT MaxFaults = 1
INVARIANT PartsTypeOK
INVARIANT OnlyARemainderIsLeftOut
INVARIANT FaultNeedsATaskLeft
INVARIANT BreaksAreListed
INVARIANT TotalTelescopes
INVARIANT ReportAddsUp
INVARIANT ExtractedOrders
INVARIANT BackupIsComplete
INVARIANT AllocationSurvives
PROPERTY EndsOrSpins
PROPERTY StreamPollingEnds
CHECK_DEADLOCK FALSE
