CONSTANTS
    None = None
    WriteCap = 2
    StatusCap = 2
    BackoffInitial = 1
    BackoffMax = 3
    MaxFaults = 3
SPECIFICATION FairSpec
INVARIANT StatusIsCurrent
PROPERTIES ImplementsLink Reconnects ShutdownCompletes MessagesHandled
CHECK_DEADLOCK FALSE
