SPECIFICATION PartSpec
CONSTANTS
    Workflows = {w1}
    u1 = u1
    Users <- OneUser
    Owner <- OneOwner
    Requests = {c1, g1, g2}
    GatewayCalls = {g1, g2}
    NStages = 2
    ClientOps = {"dispatch", "pause", "resume", "cancel"}
    ReportStatus = {}
    Results = {"completed", "failed", "waiting_user", "blocked"}
    Attempts = 2
    MaxStarts = 1
    MaxFailures = 1
    MaxCrashes = 1
    MaxActive = 1
    MaxStore = 1
    EvictBatch = 1
INVARIANTS
    StagesRunOnce

    
