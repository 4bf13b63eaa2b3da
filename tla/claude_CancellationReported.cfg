CONSTANTS
    None = None
    QueueLimit = 2
    MaxNoise = 1
    Backends = {"claude"}
    Tools = {"a"}
    RecordLimit = 2
    ActiveLimit = 1
    TailLimit = 1
    MaxRecords = 1
    MaxDiag = 0
    OutputLimit = 2
    MaxSent = 3
    Pieces = 2
SPECIFICATION SpecOne
INVARIANTS ClaudeCancellationReported
CHECK_DEADLOCK FALSE
