SPECIFICATION FairSpec
CONSTANTS
    Accounts = {a1, a2, a3}
    Keys <- FourKeys
    Ties = FALSE
    Unit = 10
    FirstValues <- TenthsOfRows
    Orders = {"none", "ASC", "DESC"}
    DefaultPageSize = 10
    MaxChanges = 2
    Unset = Unset
CHECK_DEADLOCK FALSE
INVARIANTS
    TypeOK
    DamageBoundedByChanges
    HasNextPageIsRight
PROPERTY
    WalkEnds
