CONSTANTS
    u1 = u1
    u2 = u2
    v1 = v1
    v2 = v2
    c1 = c1
    c2 = c2
    d1 = d1
    r1 = r1
    r2 = r2
    Nil = Nil
    UserIds = {u1, u2}
    Specs = {v1, v2}
    Configs = {c1, c2}
    DeviceSets = {d1}
    Senders = {r1, r2}
SPECIFICATION FairSpec
INVARIANTS NoLostWakeup BaselineIsHanded
PROPERTY ImplementsFeed
