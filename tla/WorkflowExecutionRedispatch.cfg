SPECIFICATION PartSpec
CONSTANTS
    Workflows = {w1}
    u1 = u1
    Users <- OneUser
    Owner <- OneOwner
    Requests = {c1, g1}
    GatewayCalls = {g1}
    NStages = 2
    ClientOps = {"dispatch"}
    ReportStatus = {}
    Results = {"completed", "waiting_user"}
    Attempts = 1
    MaxStarts = 2
    MaxFailures = 0
    MaxCrashes = 0
    MaxActive = 1
    MaxStore = 1
    EvictBatch = 1

INVARIANT
    SucceededMeansAllStagesDone
CHECK_DEADLOCK FALSE
