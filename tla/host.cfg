CONSTANTS
    root = root  a = a  b = b
    Pids = {root, a, b}
    Root = root
    DescendantLimit = 2
    MaxStart = 4
    Loaders = {l1, l2}
    Copies = {c1, c2}
    LastFile = 2
    ScanLimit = 1
    MaxDamage = 2
SPECIFICATION SpecOne
SYMMETRY Symmetry
INVARIANTS KillsOnlyDescendants CleanupTruthful CacheLoadedIsPinned
PROPERTIES CacheDamageIsLeftAlone
CHECK_DEADLOCK FALSE
