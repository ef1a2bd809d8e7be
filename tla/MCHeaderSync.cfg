CONSTANTS
    Blocks  <- MCBlocks
    Genesis = "g"
    Path    <- MCPath
    Work    <- MCWork
    Rank    <- MCRank
    Nodes   = {n1, n2}
    n1 = n1
    n2 = n2
    MaxHeaders = 2
    Dense = 1
SPECIFICATION Spec
INVARIANTS
    TypeOK
    AnswersConnect
PROPERTIES
    HeadersCatchUp
    RequestsEnd
CHECK_DEADLOCK FALSE
