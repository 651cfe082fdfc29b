\* Two streams over two bulk jobs, with a clear and with ids of jobs not started yet; live
\* jobs that wait for one slot, and the page that follows one of them.
CONSTANTS
    j1 = j1
    j2 = j2
    w1 = w1
    w2 = w2
    free = free
    nojob = nojob
    Jobs = {j1, j2}
    Streams = {w1, w2}
    NoJob = nojob
    Free = free
    MaxClears = 1
    LvJobs = {j1, j2}
    LvFollowed = {j1}
    LvSlots = 1
    LvFaults = 1
SPECIFICATION StSpec
INVARIANTS
    OnlyMissingStopsTheLoop
    LpToldLast
PROPERTIES
    EndsUnlessMissing
    ImplementsBoard
    LpAllEnd
CHECK_DEADLOCK FALSE
