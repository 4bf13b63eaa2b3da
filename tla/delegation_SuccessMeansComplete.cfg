CONSTANTS
    c1 = c1  c2 = c2  k1 = k1  k2 = k2  b1 = b1
    Conns = {c1, c2}
    Keys = {b1}
    BoundKeys = {b1}
    Digests = {"d1", "d2"}
    MaxRequests = 1
    MaxConnections = 2
    Main = Main  Free = Free
SPECIFICATION Spec
SYMMETRY Symmetry
INVARIANT SuccessMeansComplete
CHECK_DEADLOCK FALSE
