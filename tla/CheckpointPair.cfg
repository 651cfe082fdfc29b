\* Two approvals of one job, with failing writes and restarts.
CONSTANTS
    q1 = q1
    q2 = q2
    generator = generator
    Requests = {q1, q2}
    Generator = generator
    SaveFails = TRUE
SPECIFICATION Spec
INVARIANTS
    SuccessHasCheckpoint
    GatedWrites
    HonestExecution
    ApprovalRecorded
PROPERTIES
    ResultsReported
