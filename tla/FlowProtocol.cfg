SPECIFICATION FairSpec
CONSTANTS
    r1 = r1
    r2 = r2
    r3 = r3
    f1 = f1
    f2 = f2
    t1 = t1
    t2 = t2
    None = None
    Requests = {r1, r2}
    Flows = {f1, f2}
    Tenants = {t1}
    Kinds <- Protocol
    Imports = {"EMPTY", "full", "stripped", "invalid"}
    Faults <- OnTime
    MaxLate = 0
INVARIANTS
    PublishedIsVerified
    DeployedIsPublished
    PlanHasDraft
PROPERTIES
    RequestsEnd
CHECK_DEADLOCK FALSE
