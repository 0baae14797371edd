\* Two dispatchers, three events for one endpoint, one attempt, disabled after two failures.
CONSTANTS
    w1 = w1
    w2 = w2
    e1 = e1
    e2 = e2
    e3 = e3
    p1 = p1
    p2 = p2
    Workers = {w1, w2}
    Events = {e1, e2, e3}
    Endpoints = {p1}
    Lease = 1
    BatchSize = 2
    MaxAttempts = 1
    BaseDelay = 1
    MaxDelay = 1
    DisableAfter = 2
    MaxBatches = 2
    MaxDisturbances = 1
SPECIFICATION Spec
PROPERTIES DisablingIsFair
