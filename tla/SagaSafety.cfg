SPECIFICATION Spec
CONSTANTS
    s1 = s1
    s2 = s2
    s3 = s3
    c1 = c1
    c2 = c2
    c3 = c3
    a1 = a1
    Sagas = {s1, s2, s3}
    Callbacks = {c1, c2, c3}
    Accounts = {a1}
    NoAccount = NoAccount
    None = None
    Teams <- OneTeam
    Faults <- AllFaults
SYMMETRY Symmetry
INVARIANTS
    TypeOK
    OneExchangePerSaga
    CompletedIsLinked
    CompensatedIsWiped
    RowsAreReachable
    RefusedOnlyByOverlap
PROPERTIES
    OutcomesExclude
    KeepsContract
CHECK_DEADLOCK FALSE
