CONSTANTS
    Inputs = {0, 7}
    MaxLine = 2
    CapC2S = 2
    CapS2C = 2
SPECIFICATION FairSpec
INVARIANTS
    NothingLost
    FinLast
    PrematureMeansCrash
PROPERTIES
    SessionEnds
