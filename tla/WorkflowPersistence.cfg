SPECIFICATION PersistenceSpec
CONSTANTS
    Workflows = {w1, w2, w3}
    u1 = u1
    Users <- OneUser
    Owner <- OneOwner
    Requests = {r1, r2}
    NStages = 1
    ClientOps = {"dispatch"}
    ReportStatus = {"failed"}
    MaxActive = 1
    MaxStore = 1
    EvictBatch = 1
    MaxCrashes = 2
SYMMETRY Symmetric
CONSTRAINTS
    Undisturbed
    DispatchesFirst
INVARIANTS
    RowsCurrent
    CapOvershootBounded
PROPERTIES
    NoRevival
CHECK_DEADLOCK FALSE
