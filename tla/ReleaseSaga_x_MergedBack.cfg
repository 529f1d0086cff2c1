SPECIFICATION Spec
CONSTANTS
    MaxRequests = 2
    InstanceOf <- MCInstanceOf
    Version = {v1, v2, v3}
    Doc = {d1, d2}
    d1 = d1
    d2 = d2
    v1 = v1
    v2 = v2
    v3 = v3
    DocOf <- MCDocOf
    BootVersions <- Booted
    Menu <- AllButReindex
    ReindexScopes <- WholeCorpus
    MaxFaults = 0
    MaxOverruns = 0
    None = None
INVARIANT MergedBack
CHECK_DEADLOCK FALSE
