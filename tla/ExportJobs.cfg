\* Both stores; two instances, each with a run, the scanner and the sweeper.
SPECIFICATION FairSpec
CONSTANTS
    i1 = i1  i2 = i2  r1 = r1  r2 = r2
    Instances = {i1, i2}
    Runs = {r1, r2}
    Polled = {i1}
    InstanceOf <- OneRunEach
    Stores = {"FILE", "FIRESTORE"}
    MaxAttempts = 2
    MaxFaults <- FewerFaultsOnFirestore
INVARIANT LastClaimWins
PROPERTIES
    EndedIsFinal
    ResultKeepsArtifact
    JobEnds
    ArtifactsSettle
CHECK_DEADLOCK FALSE
