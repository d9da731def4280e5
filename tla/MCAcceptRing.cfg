CONSTANTS
    Threads = {t1, t2, t3}
    Clients = {c1, c2, c3, c4}
    MaxNCli = 3
    NoClient = NoClient
SPECIFICATION Serv08FairSpec
INVARIANTS
    NoIdleWhileQueued
PROPERTIES
    ImplementsHandOff
    AcceptedIsServed
