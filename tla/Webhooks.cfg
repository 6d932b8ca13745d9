SPECIFICATION MCSpec
CONSTANTS
    e1 = e1
    e2 = e2
    e3 = e3
    d1 = d1
    d2 = d2
    t1 = t1
    t2 = t2
    t3 = t3
    a1 = a1
    a2 = a2
    Events = {e1, e2, e3}
    Unkeyed = {e2}
    Mute = {e3}
    Deliveries = {d1, d2}
    Tokens = {t1, t2, t3}
    Accounts = {a1, a2}
    NoAccount = NoAccount
    None = None
    Teams <- OneTeam
    Faults <- AllFaults
INVARIANTS
    NoDoubleAudit
    ToldMeansRevoked
    AckMeansRevoked
PROPERTY UninstallTakesEffect
CHECK_DEADLOCK FALSE
