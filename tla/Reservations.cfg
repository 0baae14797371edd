\* Three requests and a sweep over one key and two overlapping intervals, one failure.
CONSTANTS
    r1 = r1
    r2 = r2
    r3 = r3
    job = job
    key = key
    NoKey = NoKey
    Requests = {r1, r2, r3}
    Jobs = {job}
    Keys = {key}
    Intervals <- OneOrBoth
    HoldTime = 1
    SweepSize = 1
    MaxDisturbances = 1
SPECIFICATION Spec
INVARIANTS TypeOK NoOverlap EventsTellLife
PROPERTIES RetriesReplay HoldsEnd
