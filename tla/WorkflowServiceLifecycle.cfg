SPECIFICATION Spec
CONSTANTS
    Workflows = {w1}
    u1 = u1
    Users <- OneUser
    Owner <- OneOwner
    Requests = {r1, r2}
    NStages = 1
    ClientOps = {"dispatch", "complete", "pause", "resume", "cancel", "fail"}
    ReportStatus = {"completed", "failed", "waiting_user", "verifying", "repairing"}
    MaxActive = 1
    MaxStore = 1
    EvictBatch = 1
    MaxCrashes = 1
SYMMETRY Symmetric
INVARIANTS
    MachineAgrees
    DiskCurrent
    OutcomeTruthful
    SupervisionSound
PROPERTY
    FinalIsFinal
