CONSTANTS
    Blocks  <- KillTree
    Genesis = "g"
    Path    <- MCPath
    Work    <- MCWork
    Rank    <- MCRank
    Coins   <- MCCoins
    Txs     <- MCTxs
    ScanWindow = 3
    MaxHeaders = 2
    OfferedTxs = {}
    MempoolLimit = 2
    MaxCrashes = 1
    Garbled = Garbled
SPECIFICATION Spec
INVARIANTS
    TypeOK
    UtxoMatchesChain
    StoredFirst
    StagedTracksBranch
PROPERTIES
    ImplementsBestChain
    UsesIndex
    UsesUtxoIndex
CHECK_DEADLOCK FALSE
