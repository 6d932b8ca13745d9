SPECIFICATION MCSpec
CONSTANTS
    n1 = n1
    n2 = n2
    c1 = c1
    p1 = p1
    p2 = p2
    b1 = b1
    b2 = b2
    d1 = d1
    Pieces = {p1, p2}
    AuthPieces = {p1}
    Conns = {c1}
    Builds = {b1, b2}
    Deletes = {d1}
    Requests <- SomeRequests
    Submissions = {n1, n2}
    Packages = {q1, q2}
    Runs = {n1, n2}
    Indexes = {"actions_index", "schema_hashes"}
    None = None
    q1 = q1
    q2 = q2
    z1 = z1
    MaxVersion = 2
    MaxRelease = 2
    PieceNames = {q1, q2}
    Syncs = {n1, n2}
    Scorings = {z1}
    Services = {"vault"}
SYMMETRY Symmetry
INVARIANT FreshMeansFetched
CHECK_DEADLOCK FALSE
