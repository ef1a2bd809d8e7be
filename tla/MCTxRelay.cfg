CONSTANTS
    Txs     <- MCTxs
    TxId    <- MCTxId
    VSize   <- MCVSize
    Parents <- MCParents
    Events  <- MCEvents
    BytesLimit = 5
    Nodes = {"n1", "n2"}
    AnnounceMin = 1
SPECIFICATION Spec
INVARIANTS
    TypeOK
    MempoolConsistent
PROPERTIES
    TxSpreads
    GossipEnds
CHECK_DEADLOCK FALSE
