SPECIFICATION PagesSpec
CONSTANTS
    ConsoleUsers = {e1, e2}
    Creators = {e1}
    NoData = NoData
    MaxLoads = 3
    MaxPosts = 2
    Logins = {l1, l2}
    Changes = {c1, c2}
    Passwords = {admin, p1, p2}
    AdminPassword = admin
    p1 = p1
    None = None
    MaxAttempts = 2
    LockoutBase = 1
    LockoutMax = 2
    LoginWindow = 1
    SessionTTL = 2
    MaxSessions = 1
    MaxInFlight = 2
    MaxPortalTime = 4
    MaxPortalStarts = 1
    Settings = {"secret", "url"}
    Secrets = {"secret"}
    Texts = {"a", "b", "****", "********"}
    Given <- Typed
    Pages = {pageOne, pageTwo}
    ModelNames = {m1, m2}
    m1 = m1
    Unset = Unset
    MaxSlashes = 2
    MaxModels = 1
    Arrays = {a1, a2, a3, a4}
    NoArray = NoArray
    MemoryLimit = 3
    SummaryThreshold = 2
    MaxEntries = 5
    MaxSpills = 2
    MaxClears = 2
    MaxHermesStarts = 2
INVARIANTS
    ShownIsCurrent
    ChangesHold
    SessionsHold
    LimitsHold
    
    
PROPERTIES
    PanelSettles
CHECK_DEADLOCK FALSE
