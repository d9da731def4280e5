CONSTANTS
    NClients = 3
    MaxClient = 2
    Lines = 1
SPECIFICATION FairSpec
INVARIANTS
    RememberedIsClosed
    ErrorsGoHome
PROPERTIES
    ClientEntered
