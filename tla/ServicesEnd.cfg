SPECIFICATION ServicesSpec
CONSTANTS
    Cli = {c1}
    Desktop = desk
    MaxPid = 1
    Tasks = {t1}
    Sessions = {s1}
    NoTask = NoTask
    NoSession = NoSession
    Calls = {k1, k2}
    Addresses = {name}
    HostName = name
    HostAddr = here
    MaxServers = 2
    Free = Free
    Items = {i1}
    Counts = {1}
    MaxEvents = 2
    Handlers = {h1, h2}
    Tokens = {3}
    Limit = 1
    MaxLog = 2
    Borrowers = {b1, b2, b3}
    Slots = {w1, w2}
    Threshold = 2
    Nil = Nil
    Users = {u1}
    Emails = {}
    RefreshTokens = {}
    Clients = {build}
    BuildClient = build
    Missing = Missing
    MaxFiles = 1
    MaxSelected = 0
    MaxPerFile = 0
    MaxRow = 0
PROPERTIES
    StopEndsItsWorker SlotIsFreed AbandonedIsRetryable SavesReturn CloseReturns
VIEW EndView
CHECK_DEADLOCK FALSE
