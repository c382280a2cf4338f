CONSTANTS
    main = main
    None = None
    NoCert = NoCert
    g1 = g1
    g2 = g2
    u1 = u1
    c1 = c1
    i1 = i1
    i2 = i2
    i3 = i3
    self = self
    bare = bare
    acme1 = acme1
    Configs = {g1, g2}
    Users = {u1}
    Commands = {c1}
    Instances = {i1, i2, i3}
    Given = {}
    Bare = {bare}
    SelfSigned = {self}
    Acme = {acme1}
    HotSwap = {g1}
    MaxRenewals = 1
    MaxCommands = 2
    MaxConfigs = 1
    MaxUsers = 1
    MaxFaults = 1
SPECIFICATION Spec
INVARIANT StopSurvivesSync
CHECK_DEADLOCK FALSE
