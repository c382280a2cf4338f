CONSTANTS
    u1 = u1
    i1 = i1
    i2 = i2
    UserIds = {u1}
    IPs = {i1, i2}
    PurgeEvery = 2
    MayReturn = FALSE
    MaxTraffic = 3
    MaxKernelOps = 1
    MaxUserOps = 1
    MaxConnChanges = 2
    MaxReportFaults = 1
SPECIFICATION FairSpec
INVARIANT NotOverbilled
PROPERTIES AllIsBilled AliveIPsFlushed
CHECK_DEADLOCK FALSE
