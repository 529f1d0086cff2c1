\* An agent that follows the cloud, with three moves of the pointer and two faults.
SPECIFICATION FairSpec
CONSTANTS
    a = a  b = b  c = c  d = d
    Releases = {a, b, c, d}
    None = None
    First = a
    Complete = {a, b}
    MaxMoves = 3
    MaxFaults = 2
INVARIANT StartsWithoutCloud
PROPERTY LoadedFollowsCloud
CHECK_DEADLOCK FALSE
