CONSTANTS
    None = None  NoRun = NoRun  Owner = Owner  Main = Main
    Parts = {"a2a", "node", "response", "helper", "host"}
    MaxGenerations = 2
    Stoppers = {p1}
    Requests = {q1}
    HelperCalls = {q1, q2}
    Runs = {r1, r2}
    Others = {p1}
    ErrorBodyLimit = 2
    MaxChunks = 4
    MaxSwaps = 2
SPECIFICATION FairSpecOne
INVARIANTS GenerationsKept ProxyOutlivesRequests NodeEndsClean ResponseIntact HelperEffectsAccounted HandshakeIsOwn
PROPERTIES ServicesEnd
CHECK_DEADLOCK FALSE
