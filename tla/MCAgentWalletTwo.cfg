\* Two wallets of one Panda that changes hands between two users, with
\* training credit moving in and out of both vaults.
CONSTANTS
    Panda = {p1}
    User = {u1, u2}
    Agent = {g1}
    ZeroAddress = zero
    Wallet = {w1, w2}
    PairsHash = {h1}
    Amount = {1}
    Expiry = {0}
    DailyCap = {2}
    ProofKey = {k1}
    MaxTime = 0
    MaxVersion = 1
    MaxProofs = 1
    MaxCredit = 2
SPECIFICATION Spec
INVARIANTS
    TypeOK
    WalletsStayBound
    CreditConserved
PROPERTIES
    VaultPauseIsFinal
SYMMETRY WalletSymmetry
