SPECIFICATION Spec
CONSTANTS
    a1 = a1
    a2 = a2
    a3 = a3
    e1 = e1
    e2 = e2
    r1 = r1
    r2 = r2
    r3 = r3
    Accounts = {a1, a2, a3}
    Requests = {r1, r2, r3}
    Founders = {a1, a2}
    Emails = {e1, e2}
    StartEmail <- MCStartEmail
    Unset = Unset
    Empty = Empty
    NoLogin = NoLogin
    NoDetail = NoDetail
    Nobody = Nobody
SYMMETRY MCSymmetry
CHECK_DEADLOCK FALSE
INVARIANTS
    LoginEmailExplained
    SignUpsOverlap
    OnlyOverlapRevives
PROPERTY OnlyOverlapReverts
