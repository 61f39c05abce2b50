SPECIFICATION FairSpec
CONSTANTS
    t1 = t1
    t2 = t2
    Tunnels <- MCTunnels
    Settings <- MCSettings
    MaxChunks = 1
INVARIANTS
    ConnectionsAreReleased
    ResponsesArriveWhole
PROPERTIES
    TunnelsEnd
