CONSTANTS
    None = None
    QueueLimit = 2
    MaxNoise = 2
    Backends = {"codex", "claude", "command", "remote"}
    Tools = {"a", "b"}
    RecordLimit = 2
    ActiveLimit = 1
    TailLimit = 2
    MaxRecords = 2
    MaxDiag = 3
    OutputLimit = 2
    MaxSent = 3
    Pieces = 2
SPECIFICATION FairSpecOne
INVARIANTS OwnTurnDecides NothingLeftSilently OneTurnPerRequest ClaudeSuccessIsLastAnswer ClaudeObserved CommandOutcomeTruthful RemoteReportTruthful
PROPERTIES BackendsReturn
CHECK_DEADLOCK FALSE
