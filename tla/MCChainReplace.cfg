CONSTANTS
    Blocks  <- MixedTree
    Genesis = "g"
    Path    <- MCPath
    Work    <- MCWork
    Rank    <- MCRank
    Coins   <- MCCoins
    Txs     <- MCTxs
    ScanWindow = 3
    MaxHeaders = 2
    OfferedTxs <- MCOffered
    MempoolLimit = 2
    MaxCrashes = 0
    Garbled = Garbled
SPECIFICATION Spec
INVARIANTS
    BetterHeadersWait
    NeverStops
PROPERTIES
    ImplementsUtxoSet
    RejectsOnlyInvalid
    MempoolStaysUnconfirmed
