SPECIFICATION Spec
CONSTANTS
    Worker = {w1, w2}
    Job = {j1, j2}
    Run = {r1}
    j1 = j1
    j2 = j2
    r1 = r1
    RunOf <- MCRunOf
    OutboxJob <- MCOutboxJob
    MaxAttempts = 2
    Store = "FIRESTORE"
    Cases = 1
    MaxCancels = 1
    MaxFaults = 1
    LeaseOutlivesWrite = TRUE
    None = None
INVARIANTS TypeOK CompletedJobEndedRun CompletedRunHasResults
           TokensAreUnique AttemptsBounded OneJobPerRun
PROPERTIES LeaseSpec ResultsOnlyAdvance CompletionIsFinal
SYMMETRY Workers
CHECK_DEADLOCK FALSE
