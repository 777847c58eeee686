\* Two candidate ports, two pair tokens, two sockets at a time for each; one command of
\* the user and one fault.
SPECIFICATION FairSpec
CONSTANTS
    Ports = {1, 2}
    Keys = {1, 2}
    DefaultPort = 1
    MaxSockets = 2
    MaxCommands = 1
    MaxTrouble = 1
CHECK_DEADLOCK FALSE
INVARIANTS
    TypeOK
    NoStraySocket
    ConnectedIsAuthenticated
    PairRequestIsAlive
    MemoryIsStored
PROPERTIES
    ImplementsLink
    Reconnects
