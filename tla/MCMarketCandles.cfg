\* Two pools, one of them at an interval without ticks; two requests at once.
SPECIFICATION CandlesSpec
CONSTANTS
    pool = pool
    hourly = hourly
    r1 = r1
    r2 = r2
    View = {pool, hourly}
    Ticking = {pool}
    Traded <- SomeTraded
    Request = {r1, r2}
    PageSize = 2
    TailFetch = 3
    Cap = 3
    Start = 4
    MaxNow = 6
    MaxWire = 1
    MaxMoves = 1
SYMMETRY RequestSymmetry
\* MaxNow bounds the clock.
CHECK_DEADLOCK FALSE
INVARIANTS
    CandlesTypeOK
    SyncedIsTrue
PROPERTY
    IsCandleWindow
