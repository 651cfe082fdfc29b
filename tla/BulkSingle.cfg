\* One job: every path of the worker, with duplicates, a name collision, a clear and a restart.
CONSTANTS
    t1 = t1
    t2 = t2
    t3 = t3
    y1 = y1
    none = none
    m1 = m1
    m2 = m2
    s1 = s1
    s2 = s2
    Jobs = {j1}
    Tables = {t1, t2, t3, y1}
    Slots = {s1, s2}
    NoTable = none
    Models = {m1, m2}
    Requests <- MCSingleRequests
    Queue <- MCQueue
    ModelOf <- MCModelOf
    Workers = 2
    ChunkSize = 1
    Watched = {}
    SaveFails = TRUE
    MaxClears = 1
    MaxRestarts = 1
SPECIFICATION SafeSpec
INVARIANTS
    TypeOK
    OnlyGreenTouched
    DoneAccounts
    DoneIsQuiet
    DiskBehindMemory
PROPERTIES
    ImplementsReport
CHECK_DEADLOCK FALSE
