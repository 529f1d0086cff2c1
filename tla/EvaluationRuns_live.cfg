SPECIFICATION FairSpec
CONSTANTS
    Worker = {w1, w2}
    Job = {j1, j2}
    Run = {r1}
    j1 = j1
    j2 = j2
    r1 = r1
    RunOf <- MCRunOf
    OutboxJob <- MCOutboxJob
    MaxAttempts = 2
    Store = "FIRESTORE"
    Cases = 1
    MaxCancels = 0
    MaxFaults = 1
    LeaseOutlivesWrite = FALSE
    None = None
PROPERTIES RunsGetJobs JobsEnd
CHECK_DEADLOCK FALSE
