\* Two jobs whose models collide: shared files, shared run_results.json.
CONSTANTS
    t1 = t1
    t2 = t2
    t3 = t3
    y1 = y1
    none = none
    m1 = m1
    m2 = m2
    s1 = s1
    s2 = s2
    Jobs = {j1, j2}
    Tables = {t1, t2, t3, y1}
    Slots = {s1}
    NoTable = none
    Models = {m1, m2}
    Requests <- MCPairRequests
    Queue <- MCQueue
    ModelOf <- MCModelOf
    Workers = 2
    ChunkSize = 1
    Watched = {}
    SaveFails = FALSE
    MaxClears = 0
    MaxRestarts = 0
SPECIFICATION SafeSpec
INVARIANTS
    SuccessWasBuilt
SYMMETRY MCJobSymmetry
CHECK_DEADLOCK FALSE
