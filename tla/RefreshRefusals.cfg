SPECIFICATION Spec
CONSTANTS
    w1 = w1
    w2 = w2
    t1 = t1
    t2 = t2
    t3 = t3
    a1 = a1
    Replicas = {w1, w2}
    Tokens = {t1, t2}
    Accounts = {a1}
    NoAccount = NoAccount
    None = None
    NoToken = NoToken
    Faults <- Refusals
    MaxFaults = 1
    MaxIssued = 2
SYMMETRY Symmetry
INVARIANTS
    RowHoldsLiveGrant
    RevokedMeansUserRevoked
    StaleIsPending
CHECK_DEADLOCK FALSE
