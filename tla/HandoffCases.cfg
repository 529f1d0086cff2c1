\* Two racing turns on whatever earlier turns left, and one crash or failing call.
SPECIFICATION Spec
CONSTANTS
    c1 = c1  c2 = c2  t1 = t1  t2 = t2  r1 = r1  r2 = r2
    Cases = {c1, c2}
    Turns = {t1, t2}
    Requests = {r1, r2}
    RequestOf <- OwnRequest
    None = None
    MaxFaults = 1
INVARIANTS
    OneOpenCase
    ConfirmedOnly
    StatusIsTold
PROPERTIES
    NothingOverwritten
    LifecycleSpec
SYMMETRY InterchangeableCases
CHECK_DEADLOCK FALSE
