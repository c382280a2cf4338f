CONSTANTS
    bad = bad
    c1 = c1
    c2 = c2
    c3 = c3
    d1 = d1
    d2 = d2
    u1 = u1
    u2 = u2
    v1 = v1
    v2 = v2
    Nil = Nil
    UserIds = {u1, u2}
    Specs = {v1, v2}
    Configs = {c1, c2}
    DeviceSets = {d1}
    Unsupported = {}
    HotSwap = {c1, c2}
    KernelMayFail = FALSE
    WsEnabled = TRUE
    FirstLink = {TRUE}
    Malformed = {}
    Pushes = {"full", "add", "remove"}
    Greets = {FALSE}
    MayBeEmpty = FALSE
    EarlyChanges = FALSE
    MaxChanges = 3
    MaxDrops = 0
    MaxRestFaults = 0
    MaxInFlight = 2
    StatusCap = 4
SPECIFICATION FairSpec
INVARIANTS BaselineIsCurrent
PROPERTIES UsersConverge ConfigConverges
CHECK_DEADLOCK FALSE
