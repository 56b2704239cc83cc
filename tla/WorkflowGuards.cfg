SPECIFICATION GuardsSpec
CONSTANTS
    c1 = c1
    c2 = c2
    c3 = c3
    c4 = c4
    w1 = w1
    w2 = w2
    Monitored = {w1}
    MaxRetries = 2
    SoftTicks = 3
    HardTicks = 5
    RetryMax = 2
    Timeouts = {t1, t2}
    MaxRegs = 2
    MaxReports = 2
    MaxTokens = 2
    MaxCheckpoints = 1
    Surplus = 0
    Resumes = {p1}
    MaxVersion = 1
    MaxRestarts = 1
    Calls = {c1, c2, c3, c4}
    Refs = {w1, w2}
    RefOf <- Chosen
    NoCall = NoCall
INVARIANTS
    
    ComesBackAsSaved
PROPERTIES
    SilentIsGivenUp
    ImplementsFifo
    EveryCallServed
CHECK_DEADLOCK FALSE
