CONSTANTS
    Threads = {t1, t2, t3}
    Clients = {c1, c2}
    MinThreads = 1
    MaxThreads = 3
    Main = Main
    Nobody = Nobody
    NoClient = NoClient
SPECIFICATION FairSpec
INVARIANTS
    PoolSound
PROPERTIES
    MissedOnlyByLeaving
    ClientAccepted
    PoolShrinks
