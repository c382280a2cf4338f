CONSTANTS
    bad = bad
    c1 = c1
    c2 = c2
    c3 = c3
    d1 = d1
    d2 = d2
    u1 = u1
    u2 = u2
    v1 = v1
    v2 = v2
    Nil = Nil
    UserIds = {u1}
    Specs = {v1, v2}
    Configs = {c1, c2}
    DeviceSets = {}
    Unsupported = {}
    HotSwap = {c1}
    KernelMayFail = FALSE
    WsEnabled = TRUE
    FirstLink = {TRUE}
    Malformed = {}
    Pushes = {"full", "add", "remove"}
    Greets = {TRUE, FALSE}
    MayBeEmpty = TRUE
    EarlyChanges = TRUE
    MaxChanges = 2
    MaxDrops = 1
    MaxRestFaults = 0
    MaxInFlight = 2
    StatusCap = 4
SPECIFICATION FairSpec
INVARIANTS KernelServesConfig
PROPERTIES ResyncCompletes
CHECK_DEADLOCK FALSE
