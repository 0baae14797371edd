\* Two runners, two jobs, two attempts, one crash, failure or overrun lease.
CONSTANTS
    w1 = w1
    w2 = w2
    j1 = j1
    j2 = j2
    Workers = {w1, w2}
    Jobs = {j1, j2}
    Lease = 1
    BatchSize = 2
    MaxAttempts = 2
    BaseDelay = 1
    MaxDelay = 1
    MaxBatches = 2
    MaxDisturbances = 1
SPECIFICATION Spec
INVARIANTS TypeOK LeaseExcludes
PROPERTIES LatestClaimSettles EndsForAReason EveryJobEnds
