CONSTANTS
    None = None  NoRun = NoRun  Owner = Owner  Main = Main
    Parts = {"node"}
    MaxGenerations = 2
    Stoppers = {p1}
    Requests = {q1}
    HelperCalls = {q1, q2}
    Runs = {r1}
    Others = {p1}
    ErrorBodyLimit = 2
    MaxChunks = 4
    MaxSwaps = 2
SPECIFICATION SpecOne
INVARIANTS NodeHelperSilent
CHECK_DEADLOCK FALSE
