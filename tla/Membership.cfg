SPECIFICATION Spec
CONSTANTS
    NULL = NULL
    NoRow = NoRow
    Throws = Throws
    Accounts = {a1, a2, a3, a4, a5}
    Subscriptions = {s1, s2}
SYMMETRY Interchangeable
CHECK_DEADLOCK FALSE
INVARIANTS
    OwnSubscriptionOnly
    MembersSeeEachOther
    ReadableUntilDeletion
