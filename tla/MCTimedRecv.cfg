CONSTANTS
    Lines = 3
    Copies = 2
    Strays = 1
SPECIFICATION FairSpec
INVARIANTS
    AnswerBelongs
    StrayJump
PROPERTIES
    Completes
CHECK_DEADLOCK FALSE
