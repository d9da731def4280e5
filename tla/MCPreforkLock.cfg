CONSTANTS
    NChildren = 3
    Clients = {c1, c2}
    NoClient = NoClient
SPECIFICATION LockFairSpec
INVARIANTS
    OneAcceptor
PROPERTIES
    ClientAccepted
    Shutdown
