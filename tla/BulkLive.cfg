\* One job: liveness of the worker and of its progress stream.
CONSTANTS
    t1 = t1
    t2 = t2
    t3 = t3
    y1 = y1
    none = none
    m1 = m1
    m2 = m2
    s1 = s1
    s2 = s2
    Jobs = {j1}
    Tables = {t1, t2, t3, y1}
    Slots = {s1, s2}
    NoTable = none
    Models = {m1, m2}
    Requests <- MCLiveRequests
    Queue <- MCQueue
    ModelOf <- MCModelOf
    Workers = 2
    ChunkSize = 1
    Watched = {j1}
    SaveFails = FALSE
    MaxClears = 1
    MaxRestarts = 0
SPECIFICATION Spec
PROPERTIES
    JobsSettle
    WatchersClose
CHECK_DEADLOCK FALSE
