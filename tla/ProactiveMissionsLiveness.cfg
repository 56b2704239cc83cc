SPECIFICATION FairSpec
CONSTANTS
    s1 = s1
    s2 = s2
    v1 = v1
    v2 = v2
    d1 = d1
    d2 = d2
    c1 = c1
    f1 = f1
    f2 = f2
    b1 = b1
    Dashboards = {b1}
    None = None
    Scans = {s1}
    Scheduled = {s1}
    Reviews = {v1}
    Dispatches = {d1}
    Completes = {}
    Findings = {f1}
    Safe = {}
PROPERTIES
    RunsSettle
