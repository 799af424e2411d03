SPECIFICATION ServicesSafety
CONSTANTS
    Cli = {c1}
    Desktop = desk
    MaxPid = 2
    Tasks = {t1}
    Sessions = {s1, s2}
    NoTask = NoTask
    NoSession = NoSession
    Calls = {k1, k2}
    Addresses = {name, there}
    HostName = name
    HostAddr = here
    MaxServers = 2
    Free = Free
    Items = {i1, i2}
    Counts = {1}
    MaxEvents = 5
    Handlers = {h1, h2}
    Tokens = {0, 3}
    Limit = 2
    MaxLog = 5
    Borrowers = {b1, b2, b3}
    Slots = {w1, w2}
    Threshold = 2
    Nil = Nil
    Users = {u1}
    Emails = {e1}
    RefreshTokens = {r1, r2}
    Clients = {build}
    BuildClient = build
    Missing = Missing
    MaxFiles = 1
    MaxSelected = 2
    MaxPerFile = 2
    MaxRow = 2
INVARIANTS
    ServicesTypeOK
    OneWorkerAtWork WorkerIsFindable StatusTellsWorker
    SlotTellsSession OnlyTokensAuthorize
    RunningIsServing ListenersAreManaged SettingsApplied
    StreamIsGood EveryStreamIsFinished UsageReachesTheLog
    LogKeepsTheLatest
    SlotsAreConserved NoBrowserOutlivesThePool
    ImportReportAddsUp ArchiveIsReimportable
PROPERTIES
    IdsNeverReused
VIEW ServicesView
CHECK_DEADLOCK FALSE
