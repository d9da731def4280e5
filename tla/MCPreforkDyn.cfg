CONSTANTS
    MinConn = 1
    MaxConn = 2
    NClients = 3
    PipeSize = 2
SPECIFICATION FairSpec
INVARIANTS
    PoolAccounting
    ShortageIsRace
CHECK_DEADLOCK FALSE
PROPERTIES
    ClientAccepted
    Shutdown
