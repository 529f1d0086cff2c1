SPECIFICATION FairSpec
CONSTANTS
    MaxRequests = 2
    InstanceOf <- MCInstanceOf
    Version = {v1, v3}
    Doc = {d1, d2}
    d1 = d1
    d2 = d2
    v1 = v1
    v2 = v2
    v3 = v3
    DocOf <- MCDocOf
    BootVersions <- EitherStart
    Menu <- AllKinds
    ReindexScopes <- EitherScope
    MaxFaults = 1
    MaxOverruns = 0
    None = None
INVARIANTS TypeOK PointersResolve LocalPointerFollows PublishedOnce
PROPERTIES RequestsEnd AgentConverges LeaseRecovers
CHECK_DEADLOCK FALSE
