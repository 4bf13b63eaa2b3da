CONSTANTS
    c1 = c1  c2 = c2  k1 = k1  k2 = k2  b1 = b1
    Conns = {c1, c2}
    Keys = {k1, k2}
    BoundKeys = {}
    Digests = {"d1"}
    MaxRequests = 2
    MaxConnections = 2
    Main = Main  Free = Free
SPECIFICATION Spec
SYMMETRY Symmetry
INVARIANTS OneChildAtATime NoForgottenChild
PROPERTY KeepsPromise
CHECK_DEADLOCK FALSE
