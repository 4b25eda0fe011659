\* Three trades on two pairs, with a budget cut and restored at any point.
SPECIFICATION LedgerSpec
CONSTANTS
    deep = deep
    sui = sui
    Pair = {deep, sui}
    Price = {1, 2}
    Budget = {4, 16}
    InitBudget = 16
    MaxTrades = 3
SYMMETRY PairSymmetry
INVARIANTS
    LedgerTypeOK
    Conserved
    RowConsistent
PROPERTY
    CashCovered
