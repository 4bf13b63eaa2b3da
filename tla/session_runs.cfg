CONSTANTS
    n1 = n1  n2 = n2  r1 = r1  r2 = r2  k1 = k1  k2 = k2  m1 = m1  m2 = m2
    Nodes = {n1, n2}
    Runs = {r1, r2}
    Keys = {k1, k2}
    Modes = {m1}
    Messages = {"a"}
    Histories <- Plain
    Saved = {k1}
    Configs <- Protected
    SeenLimit = 2
    MaxSessions = 2
    Free = Free  None = None
SPECIFICATION FairSpec
INVARIANTS LocksProtectRuns SuccessIsRemembered
PROPERTIES OthersRecordsKept RunsFinish
CHECK_DEADLOCK FALSE
