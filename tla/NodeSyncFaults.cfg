CONSTANTS
    bad = bad
    c1 = c1
    c2 = c2
    c3 = c3
    d1 = d1
    d2 = d2
    u1 = u1
    u2 = u2
    v1 = v1
    v2 = v2
    Nil = Nil
    UserIds = {u1, u2}
    Specs = {v1}
    Configs = {c1, c2}
    DeviceSets = {}
    Unsupported = {}
    HotSwap = {}
    KernelMayFail = TRUE
    WsEnabled = FALSE
    FirstLink = {FALSE}
    Malformed = {bad}
    Pushes = {}
    Greets = {FALSE}
    MayBeEmpty = TRUE
    EarlyChanges = FALSE
    MaxChanges = 4
    MaxDrops = 0
    MaxRestFaults = 1
    MaxInFlight = 2
    StatusCap = 4
SPECIFICATION Spec
PROPERTIES UserUpdateIsServed
CHECK_DEADLOCK FALSE
