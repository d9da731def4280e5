CONSTANTS
    NFiles = 3
    Reads = 1
SPECIFICATION FairSpec
INVARIANTS
    AllRead
    ConnLimit
PROPERTIES
    Completes
CHECK_DEADLOCK FALSE
