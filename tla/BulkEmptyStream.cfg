\* A request without a GREEN table: its progress stream is never completed.
CONSTANTS
    t1 = t1
    t2 = t2
    t3 = t3
    y1 = y1
    none = none
    m1 = m1
    m2 = m2
    s1 = s1
    s2 = s2
    Jobs = {j1}
    Tables = {t1, t2, t3, y1}
    Slots = {s1, s2}
    NoTable = none
    Models = {m1, m2}
    Requests <- MCEmptyRequests
    Queue <- MCQueue
    ModelOf <- MCModelOf
    Workers = 2
    ChunkSize = 1
    Watched = {j1}
    SaveFails = FALSE
    MaxClears = 1
    MaxRestarts = 0
SPECIFICATION Spec
PROPERTIES
    StreamsComplete
CHECK_DEADLOCK FALSE
