\* One worker, one caller, one event with two sinks, two facts, two faults.
SPECIFICATION FairSpec
CONSTANTS
    e1 = e1  e2 = e2  f1 = f1  f2 = f2  s1 = s1  s2 = s2  w1 = w1  w2 = w2  c1 = c1
    Events = {e1}
    Facts = {f1, f2}
    Sinks = {s1, s2}
    Primary = Primary
    None = None
    Workers = {w1}
    Callers = {c1}
    BatchLimit = 2
    InlineSinks = TRUE
    Store = "FILE"
    MaxFaults = 2
INVARIANTS
    NoSinkAhead
    DoneIsDelivered
PROPERTIES
    DeliverySpec
    EventsSettle
CHECK_DEADLOCK FALSE
