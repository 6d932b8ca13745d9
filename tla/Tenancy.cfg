SPECIFICATION FairSpec
CONSTANTS
    p = p
    q = q
    t = t
    k1 = k1
    k2 = k2
    s1 = s1
    s2 = s2
    o1 = o1
    m1 = m1
    w1 = w1
    w2 = w2
    Projects = {p, q}
    Tenants = {t}
    Keys = {k1, k2}
    Requests = {o1, m1}
    Seedings = {s1, s2}
    Seeded = {k1}
    SeedArgs <- Args
    TenantOf <- TenantsOfProjects
    LegacyKey = k2
    DefaultPid = p
    Enforce = FALSE
    None = None
    Opens = {o1}
    Messages = {m1}
    Replicas = {w1, w2}
INVARIANT RunsInOwnProject
PROPERTIES
    RotationKeepsAKey
    AcceptedArrives
CHECK_DEADLOCK FALSE
