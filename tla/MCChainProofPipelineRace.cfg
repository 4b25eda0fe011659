\* Three sessions race over one fact, with a crash, lost replies and an owner.
SPECIFICATION FairSpec
CONSTANTS
    h1 = h1
    f1 = f1
    poller = poller
    a1 = a1
    a2 = a2
    Handler = {h1}
    Cap = {1}
    InitCap = 1
    MaxTx = 1
    Fact = {f1}
    NoFact = nofact
    Poller = {poller}
    Api = {a1, a2}
    MaxAttempts = 2
    DailyLimit = 1
    LostReplies = TRUE
    MaxCrashes = 1
\* MaxTx, MaxAttempts and MaxCrashes bound a run.
CHECK_DEADLOCK FALSE
INVARIANTS
    ProofTypeOK
    RowsAgree
    OncePerKey
PROPERTIES
    QueueDrains
