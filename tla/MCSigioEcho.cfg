CONSTANTS
    Datagrams = {d1, d2, d3, d4, d5}
    QSize = 3
    SockMax = 2
    NoDatagram = NoDatagram
SPECIFICATION SigioFairSpec
PROPERTIES
    SendSlotStable
    ImplementsEcho
    EveryDatagramEchoed
