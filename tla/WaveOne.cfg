\* One execution under every option, over plans with shared and repeated models.
CONSTANTS
    e1 = e1
    e2 = e2
    r1 = r1
    r2 = r2
    a = a
    b = b
    c = c
    nomodel = nomodel
    NoModel = nomodel
    Execs = {e1}
    Reviewers = {r1, r2}
    Models = {a, b}
    Plans <- ManyPlans
    Bypasses = {0, 1, 2}
    MaxAttempts = 2
SPECIFICATION Spec
INVARIANTS
    WaveBarrier
    HonestOutcome
    ReviewNotLost
PROPERTIES
    ExecutionsEnd
