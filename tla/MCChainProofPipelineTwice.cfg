\* The poller and the requesting call run the same job.
SPECIFICATION ProofSpec
CONSTANTS
    h1 = h1
    f1 = f1
    poller = poller
    a1 = a1
    a2 = a2
    Handler = {h1}
    Cap = {1}
    InitCap = 1
    MaxTx = 0
    Fact = {f1}
    NoFact = nofact
    Poller = {poller}
    Api = {a1}
    MaxAttempts = 2
    DailyLimit = 1
    LostReplies = FALSE
    MaxCrashes = 0
\* MaxTx, MaxAttempts and MaxCrashes bound a run.
CHECK_DEADLOCK FALSE
INVARIANTS
    OneEventPerKey
