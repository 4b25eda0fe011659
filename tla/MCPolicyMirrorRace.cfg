\* Two handlers race over four owner transactions.
SPECIFICATION MirrorSpec
CONSTANTS
    h1 = h1
    h2 = h2
    Handler = {h1, h2}
    Cap = {1, 2}
    InitCap = 2
    MaxTx = 4
SYMMETRY HandlerSymmetry
\* MaxTx bounds the owner.
CHECK_DEADLOCK FALSE
INVARIANTS
    RevokeShutsGate
    MirrorAgrees
