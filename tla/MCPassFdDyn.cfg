CONSTANTS
    MinChildren = 1
    MaxChildren = 3
    Clients = {c1, c2}
    NoClient = NoClient
SPECIFICATION FairSpec
INVARIANTS
    BeliefExact
PROPERTIES
    ImplementsDispatch
    ClientAccepted
