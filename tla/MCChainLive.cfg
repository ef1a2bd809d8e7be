CONSTANTS
    Blocks  <- PlainTree
    Genesis = "g"
    Path    <- MCPath
    Work    <- MCWork
    Rank    <- MCRank
    Coins   <- MCCoins
    Txs     <- MCTxs
    ScanWindow = 3
    MaxHeaders = 2
    OfferedTxs = {}
    MempoolLimit = 2
    MaxCrashes = 0
    Garbled = Garbled
SPECIFICATION FairSpec
PROPERTIES
    CatchesUp
