SPECIFICATION ServicesSpec
CONSTANTS
    d1 = d1
    d2 = d2
    d3 = d3
    Deliveries = {d1, d2, d3}
    EventOf <- MCEventOf
    Wecom = {d3}
    MaxConcurrency = 1
    MaxInflight = 1
    PlanTries = 2
    DispatchTries = 2
    Polls = 2
    DedupeTTL = 2
    SweepInterval = 1
    MaxTicks = 3
    MaxReboots = 1
    Users = {u1}
    Rounds = {r1, r2}
    Submits = {b1, b2}
    workflows = workflows
    calls = calls
    f1 = f1
    f2 = f2
    n1 = n1
    n2 = n2
    None = None
    Resources = {workflows, calls}
    Held = {workflows}
    DayLength = 2
    TTL = 1
    PoolSize = 2
    Scopes = {o1}
    Keys = {k1, k2}
    Limits = {1}
    CacheSize = 1
    MaxTime = 2
    MaxUpserts = 2
    MaxCrashes = 1
    MaxTaken = 2
    Facts = {f1, f2}
    Subject <- MCSubject
    Object <- MCObject
    Reviews = {r1}
    Writes = {v1}
    Queries = {q1, q2}
    Projections = {j1}
    Extractions = {x1, x2}
    Memories = {m1}
    BatchSize = 2
    CacheTTL = 1
    QueryTime = 1
    MaxFactTime = 4
    MaxFactRestarts = 1
    Skills = {s1}
    Nominations = {o1, o2}
    Decisions = {d1, d2}
    Audits = {a1}
    MaxSkillVersion = 2
    MaxNominated = 2
INVARIANTS
    
    RoundsAgree
    DailyUseCounted
    AnswersReviewed
    NothingSkipped
    ApprovedIsDefinedOnce

    
CHECK_DEADLOCK FALSE
