\* A stream that answers "job not found" with the lock held stops the event loop.
CONSTANTS
    j1 = j1
    j2 = j2
    w1 = w1
    w2 = w2
    free = free
    nojob = nojob
    Jobs = {j1, j2}
    Streams = {w1, w2}
    NoJob = nojob
    Free = free
    MaxClears = 1
SPECIFICATION Spec
PROPERTIES
    StreamsEnd
CHECK_DEADLOCK FALSE
