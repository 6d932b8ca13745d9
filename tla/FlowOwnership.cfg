SPECIFICATION Spec
CONSTANTS
    r1 = r1
    r2 = r2
    r3 = r3
    f1 = f1
    f2 = f2
    t1 = t1
    t2 = t2
    None = None
    Requests = {r1, r2, r3}
    Flows = {f1}
    Tenants = {t1, t2}
    Kinds <- KindNames
    Imports = {"EMPTY", "full"}
    Faults <- Effective
    MaxLate = 1
SYMMETRY Symmetry
INVARIANTS
    TypeOK
    GraphIsAttributable
    RegistryMatchesProject
PROPERTIES
    ForeignFlowsUntouched
CHECK_DEADLOCK FALSE
