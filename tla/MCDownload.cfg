CONSTANTS
    Blocks  <- MCBlocks
    Genesis = "g"
    Path    <- MCPath
    Work    <- MCWork
    Rank    <- MCRank
    ScanWindow = 3
    Peers   = {p, q}
    Serving = {p}
    p = p
    q = q
    MaxConnections = 2
    WindowSize = 2
    LookAhead = 1
    BatchSize = 1
    RetrySize = 1
    MaxAskers = 2
SPECIFICATION FairSpec
INVARIANTS
    TypeOK
    QueuedInWindow
PROPERTIES
    NoneIdle
    SyncCompletes
