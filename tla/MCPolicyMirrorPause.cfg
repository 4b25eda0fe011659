SPECIFICATION MirrorSpec
CONSTANTS
    h1 = h1
    h2 = h2
    Handler = {h1, h2}
    Cap = {1, 2}
    InitCap = 2
    MaxTx = 2
CHECK_DEADLOCK FALSE
INVARIANT PauseShutsGate
