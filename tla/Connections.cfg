CONSTANTS
    MaxIds = 1
    MaxConnections = 2
    MaxData = 1
    MaxRequests = 1
SPECIFICATION Spec
INVARIANTS
    TypeOK
    PongToCome
PROPERTIES
    StopDisconnects
    DeadLeave
    StopEnds
CHECK_DEADLOCK FALSE
