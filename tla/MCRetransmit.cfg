CONSTANTS
    SeqMod = 4
    Lifetime = 4
    MaxLines = 4
    Delays <- DelaysDef
SPECIFICATION AdvFairSpec
INVARIANTS
    SampleOfThisTransmission
    TimerBounded
PROPERTIES
    ImplementsRequestReply
    CallEnds
