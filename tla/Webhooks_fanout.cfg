\* Two dispatchers, one event, two endpoints.
CONSTANTS
    w1 = w1
    w2 = w2
    e1 = e1
    e2 = e2
    e3 = e3
    p1 = p1
    p2 = p2
    Workers = {w1, w2}
    Events = {e1}
    Endpoints = {p1, p2}
    Lease = 1
    BatchSize = 2
    MaxAttempts = 2
    BaseDelay = 1
    MaxDelay = 1
    DisableAfter = 1
    MaxBatches = 2
    MaxDisturbances = 1
SPECIFICATION Spec
INVARIANTS TypeOK EveryEndpointServed
PROPERTIES EveryRowEnds
