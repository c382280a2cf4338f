CONSTANTS
    main = main
    None = None
    n1 = n1
    s1 = s1
    i1 = i1
    i2 = i2
    i3 = i3
    Nodes = {n1}
    Syncs = {s1}
    Instances = {i1, i2, i3}
    MaxChanges = 3
    MaxFaults = 1
SPECIFICATION FairSpec
INVARIANTS OneServicePerNode EventsReachService
PROPERTIES ShutdownCompletes Converges
CHECK_DEADLOCK FALSE
