CONSTANTS
    w1 = w1
    w2 = w2
    w3 = w3
    Writers <- MCWriters
    Limit = 2
    MaxIndex = 5
    CanFail = TRUE
SYMMETRY MCSymmetry
SPECIFICATION Spec
CHECK_DEADLOCK FALSE
INVARIANTS
    TypeOK
    RecentKept
PROPERTY
    StoreWindowSpec
    PutFresh
