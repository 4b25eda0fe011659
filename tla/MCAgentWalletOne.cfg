\* One wallet: the whole life of a policy and its vault, two updates deep,
\* with two pair hashes, an expiry inside the horizon and two proofs.
CONSTANTS
    Panda = {p1}
    User = {u1}
    Agent = {g1}
    ZeroAddress = zero
    Wallet = {w1}
    PairsHash = {h1, h2}
    Amount = {0, 1}
    Expiry = {0, 1}
    DailyCap = {2}
    ProofKey = {k1}
    MaxTime = 1
    MaxVersion = 3
    MaxProofs = 2
    MaxCredit = 0
SPECIFICATION Spec
INVARIANTS
    VersionPinsCollar
    NoProofAfterExpiry
PROPERTIES
    RevocationIsFinal
    CollarNeverLoosens
SYMMETRY PairSymmetry
