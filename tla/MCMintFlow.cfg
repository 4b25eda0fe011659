\* Two users of one tab and two mints.
SPECIFICATION MintSpec
CONSTANTS
    n1 = n1
    n2 = n2
    u1 = u1
    u2 = u2
    Nft = {n1, n2}
    User = {u1, u2}
    None = None
    Flow = {1, 2, 3}
    MaxMoves = 4
    MaxFaults = 2
\* MaxMoves bounds what the user does.
CHECK_DEADLOCK FALSE
INVARIANTS
    RegisteredToMinter
    KeptUntilRegistered
    SuccessIsFinal
