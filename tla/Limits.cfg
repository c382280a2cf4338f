CONSTANTS
    u1 = u1
    k1 = k1
    k2 = k2
    k3 = k3
    Users = {u1}
    IPs = {1, 2, 3}
    Conns = {k1, k2, k3}
    DeviceLimits = {0, 1}
SYMMETRY Symmetry
SPECIFICATION Spec
INVARIANTS NoCounterLeaks DevicesAreConnected LocalIsNotRemote CapHolds
PROPERTIES ExistingStaysAllowed
CONSTRAINT Bounded
CHECK_DEADLOCK FALSE
