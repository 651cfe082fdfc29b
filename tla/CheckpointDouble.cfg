\* Two approvals that both find the job not yet approved.
CONSTANTS
    q1 = q1
    q2 = q2
    generator = generator
    Requests = {q1, q2}
    Generator = generator
    SaveFails = FALSE
SPECIFICATION SafeSpec
INVARIANTS
    SingleExecution
