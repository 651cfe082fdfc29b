\* A second execution exhausts a model while a reviewer decides on the first artifact.
CONSTANTS
    e1 = e1
    e2 = e2
    r1 = r1
    r2 = r2
    a = a
    b = b
    c = c
    nomodel = nomodel
    NoModel = nomodel
    Execs = {e1, e2}
    Reviewers = {r1}
    Models = {a}
    Plans <- OnePlan
    Bypasses = {0}
    MaxAttempts = 1
SPECIFICATION SafeSpec
INVARIANTS
    ReviewsKept
