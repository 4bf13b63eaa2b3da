CONSTANTS
    c1 = c1  c2 = c2
    Callers = {c1, c2}
    PendingLimit = 1
    EventLimit = 1
    WriteLimit = 1
    MaxCalls = 2
    MaxTraffic = 3
    None = None
SPECIFICATION FairSpec
INVARIANTS NilMeansOwnAnswer
PROPERTIES NobodyWaits
CHECK_DEADLOCK FALSE
