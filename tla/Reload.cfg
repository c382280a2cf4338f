CONSTANTS
    None = None
    Env <- MCEnv
    NormalizedURL <- MCNormalizedURL
    Files <- MCFiles
    Content <- MCContent
    MaxEdits = 2
    MaxSignals = 2
    MaxFaults = 1
SPECIFICATION FairSpec
INVARIANTS Separate HealthServed
PROPERTIES EditApplied SignalEnds
CHECK_DEADLOCK FALSE
