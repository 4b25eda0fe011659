\* One tab beside another one; a hub that takes two sockets.
SPECIFICATION FeedSpec
CONSTANTS
    p1 = p1
    p2 = p2
    k1 = k1
    g1 = g1
    Pair = {p1, p2}
    Panda = {k1}
    Guest = {g1}
    Socket = {1, 2}
    Conn = {1, 2, g1}
    MaxConn = 2
    MaxMoves = 4
    MaxFaults = 1
\* MaxMoves bounds what users do.
CHECK_DEADLOCK FALSE
INVARIANTS
    FeedTypeOK
    OneStream
    OneSocket
    OneCopy
PROPERTIES
    Reconnects
