\* Two requests at once.
CONSTANTS
    r1 = r1
    r2 = r2
    r3 = r3
    job = job
    key = key
    NoKey = NoKey
    Requests = {r1, r2}
    Jobs = {job}
    Keys = {key}
    Intervals <- OneOrBoth
    HoldTime = 1
    SweepSize = 1
    MaxDisturbances = 0
SPECIFICATION Spec
INVARIANTS LosersGetConflict
