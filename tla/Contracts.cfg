SPECIFICATION PartSpec
CONSTANTS
    e1 = e1
    e2 = e2
    e3 = e3
    e4 = e4
    champion = champion
    nextAction = nextAction
    gapChampion = gapChampion
    dG1 = dG1
    dG7 = dG7
    acme = acme
    acmeToo = acmeToo
    specialist = specialist
    p1 = p1
    p2 = p2
    i1 = i1
    i2 = i2
    t1 = t1
    t2 = t2
    GraphTasks = {champion, nextAction}
    Gaps = {gapChampion}
    GapTask <- MCGapTask
    Gates = {dG1, dG7}
    EvidenceTypes = {"quote", "meeting", "calendar", "snapshot"}
    Expects <- MCExpects
    EvidenceIds = {e3, e4}
    FirstEvidence <- MCFirstEvidence
    Titles = {acme, acmeToo, specialist}
    Slug <- MCSlug
    Projects = {p1, p2}
    Intents = {i1, i2}
    Null = Null
    MaxEvidence = 4
    BridgeTasks = {t1, t2}
    BridgeGaps = {gapChampion}
    Pieces = {e1}
    BridgeIntents = {i1}
    Absent = Absent
    Nobody = Nobody
    MaxDocuments = 4
    TaskNames = {1, 2, 3}
    Missing = 9
    Dependencies <- MCDependencies
    MaxTasks = 3
    QueueLength = 2
    MaxLines = 3
    MaxOfKind = 2
SYMMETRY MCSymmetry
INVARIANTS
    
    BridgeStaysOpen
    BridgesSound
    GraphsPlanned
    RoleViewsAgree
CHECK_DEADLOCK FALSE
