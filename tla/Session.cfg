SPECIFICATION Spec
CONSTANTS
    a1 = a1
    a2 = a2
    e1 = e1
    e2 = e2
    e3 = e3
    r1 = r1
    r2 = r2
    r3 = r3
    Accounts = {a1, a2}
    Requests = {r1, r2, r3}
    Registered = {a1, a2}
    Emails = {e1, e2, e3}
    StartEmail <- MCStartEmail
    NoUser = NoUser
    NoCode = NoCode
    NoToken = NoToken
    Omitted = Omitted
SYMMETRY MCSymmetry
CHECK_DEADLOCK FALSE
INVARIANTS
    TypeOK
    OneChangePerPassword
    RefusedMeansUnchanged
    ResetReachesItsAccount
    SessionContinues
    TokensNameTheirAccount
