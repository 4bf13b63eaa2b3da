CONSTANTS
    n1 = n1  n2 = n2  r1 = r1  r2 = r2  k1 = k1  k2 = k2  m1 = m1  m2 = m2
    Nodes = {n1, n2}
    Runs = {r1, r2}
    Keys = {k1, k2}
    Modes = {m1, m2}
    Messages = {"a", "b", "c"}
    Histories <- Corrected
    Saved = {k1}
    Configs <- Unprotected
    SeenLimit = 2
    MaxSessions = 3
    Free = Free  None = None
SPECIFICATION Spec
SYMMETRY Symmetry
INVARIANTS NeverOmits SessionStaysInScope
CHECK_DEADLOCK FALSE
