SPECIFICATION Spec
CONSTANTS
    r1 = r1
    r2 = r2
    n1 = n1
    n2 = n2
    Requests = {r1, r2}
    Nonces = {n1, n2}
    Asked <- MCAsked
    Calls = {c1, c2}
    MaxEvents = 2
SYMMETRY Symmetry
INVARIANTS
    TypeOK
    MacVersionWins
    StopIsReal
    SentOnceAsApproved
PROPERTIES
    RevocationHolds
CHECK_DEADLOCK FALSE
