CONSTANTS
    NChildren = 3
    Clients = {c1, c2, c3}
    NoClient = NoClient
SPECIFICATION FairSpec
INVARIANTS
    BeliefExact
PROPERTIES
    ImplementsDispatch
    ClientAccepted
