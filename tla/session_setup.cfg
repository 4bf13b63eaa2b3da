CONSTANTS
    Runs = {r1, r2, r3}
    Keys = {k1, k2}
    Entries = {e1, e2, e3}
    Nil = Nil  Free = Free
    Loaders = {l1, l2}
    MaxSaves = 2
    Attempts = {t1, t2, t3}
    MaxIssued = 3
    MaxRollouts = 2
    MaxPart = 1
SPECIFICATION FairSpecOne
INVARIANTS MutualExclusion ExcludeKept HomesKeepState StartTruthful PolicyKeepsApart
PROPERTIES ActsAsMutex WaitersEnter
CHECK_DEADLOCK FALSE
