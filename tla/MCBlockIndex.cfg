CONSTANTS
    Blocks  <- MCBlocks
    Genesis = "g"
    Path    <- MCPath
    Work    <- MCWork
    Rank    <- MCRank
    ScanWindow = 2
SPECIFICATION Spec
INVARIANTS
    TypeOK
    ActiveChainRecorded
    HeaderIndexBest
    CandidatesComplete
PROPERTIES
    RestartKeepsChain
